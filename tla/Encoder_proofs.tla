--------------------------- MODULE Encoder_proofs ---------------------------
(****************************************************************************)
(* The analyses of the encoder that change the search, for every problem and *)
(* plan.                                                                     *)
(*                                                                           *)
(* Compression: carrying out an action in one go where the encoder calls it  *)
(* safe gets through as long as no event comes in the way of an end that was *)
(* moved, and both plans meet where no action is under way.                  *)
(*                                                                           *)
(* Relevance: a plan of the problem gets through without the actions and     *)
(* fluents that were pruned.                                                 *)
(*                                                                           *)
(* Events: splitting the intervals of an action over its events neither      *)
(* loses nor adds a requirement, events are called too close exactly when no *)
(* duration keeps them apart, and effects that meet are merged into what     *)
(* they amount to.                                                           *)
(*                                                                           *)
(* Symmetry: the classes are those of the objects that can be exchanged, and *)
(* of every plan the search keeps the one that uses the objects in order.    *)
(****************************************************************************)
EXTENDS Encoder, FiniteSetTheorems, WellFoundedInduction, TLAPS

Actions == DOMAIN problem.actions
Fluent == DOMAIN problem.init
Act(a) == Compression!Action(a)
After(a, i, s) == Compression!After(a, i, s)
(* What an action does to a fluent at one of its instants.                   *)
On(a, i, f) == {e \in Compression!EffectsAt(a, i) : e.fluent = f}
AnyOf(es) == CHOOSE e \in es : TRUE
Chosen(a, i, f) == AnyOf(On(a, i, f)).value

(* The effects on a fluent that are still to come of safe actions under way: *)
(* the compressed plan has seen all of them.                                 *)
LateAt(td, b, i, f) ==
  b \in DOMAIN td \cap safe /\ i \in 1 .. 2 /\ td[b] <= i /\ On(b, i, f) # {}
LateOn(td, f) == \E b \in Actions, i \in 1 .. 2 : LateAt(td, b, i, f)
(* The last one of its action.                                               *)
Final(td, b, i, f) == LateAt(td, b, i, f) /\ \A j \in 1 .. 2 : j > i => On(b, j, f) = {}

(* The compressed plan is in the state of the plan, apart from what is still *)
(* to come.                                                                  *)
TracksAt(s, t, td, f) ==
  IF LateOn(td, f) THEN \E b \in Actions, i \in 1 .. 2 : Final(td, b, i, f) /\ t[f] = Chosen(b, i, f).is
  ELSE t[f] = s[f]
Tracks(s, t, td) == \A f \in Fluent : TracksAt(s, t, td, f)

(* Two states that differ only in what a safe action does after its start.   *)
LateValue(f, v) ==
  \E b \in safe : \E e \in Act(b).effects : e.at # 0 /\ e.fluent = f /\ v = e.value.is
Close(s, t) == \A f \in Fluent : t[f] = s[f] \/ LateValue(f, t[f])

StateOK(s) == s \in [Fluent -> BOOLEAN]
CompressionInv ==
  /\ problem \in CompressionProblems
  /\ safe = Compression!SafeActions(problem)
  /\ StateOK(full) /\ StateOK(short)
  /\ DOMAIN todo \subseteq Actions
  /\ \A a \in DOMAIN todo : todo[a] \in 1 .. Compression!End(Act(a))
  /\ Compression!AllHold(Compression!Active(todo), full)
  /\ covered
  /\ ~disturbed => (works /\ Tracks(full, short, todo))
IInv == analysis = "compression" => CompressionInv

-----------------------------------------------------------------------------
(* What is known of an action.                                               *)
LEMMA EffectsOK ==
  ASSUME problem \in CompressionProblems, NEW a \in Actions, NEW e \in Act(a).effects
  PROVE  /\ e.at \in 0 .. Compression!End(Act(a)) /\ e.fluent \in Fluent
         /\ \/ \E v \in BOOLEAN : e.value = Compression!Constant(v)
            \/ \E f \in Fluent : e.value = Compression!Value(f)
BY EncoderAssumption DEF Compression!CompressionAssumption, Act, Compression!Action, Actions, Fluent

(* Its conditions are over instants it has.                                  *)
LEMMA ConditionsOK ==
  ASSUME problem \in CompressionProblems, NEW a \in Actions, NEW c \in Act(a).conditions
  PROVE  /\ c.lower \in 0 .. Compression!End(Act(a)) /\ c.upper \in 0 .. Compression!End(Act(a))
         /\ c.lower <= c.upper
         /\ \/ \E f \in Fluent, v \in BOOLEAN : c.that = Compression!Literal(f, v)
            \/ \E f, g \in Fluent : c.that = Compression!Same(f, g)
BY EncoderAssumption DEF Compression!CompressionAssumption, Act, Compression!Action, Actions, Fluent

(* An action lasts or is over at once.                                       *)
LEMMA EndIs ==
  ASSUME NEW a
  PROVE  /\ Compression!End(Act(a)) \in {0, 2}
         /\ Act(a).durative => Compression!End(Act(a)) = 2
BY DEF Compression!End, Compression!Last

(* A constant is not the value of a fluent.                                  *)
LEMMA ValuesAre ==
  /\ \A v : /\ Compression!IsConstant(Compression!Constant(v))
            /\ Compression!Constant(v).is = v
  /\ \A f : /\ ~Compression!IsConstant(Compression!Value(f))
            /\ Compression!Value(f).reads = f
BY DEF Compression!IsConstant, Compression!Constant, Compression!Value

(* What an effect assigns is a truth value.                                  *)
LEMMA EvaluatedOK ==
  ASSUME problem \in CompressionProblems, NEW a \in Actions, NEW e \in Act(a).effects,
         NEW s, StateOK(s)
  PROVE  Compression!Evaluated(e.value, s) \in BOOLEAN
<1>1. \/ \E v \in BOOLEAN : e.value = Compression!Constant(v)
      \/ \E f \in Fluent : e.value = Compression!Value(f)
  BY EffectsOK
<1>2. CASE \E v \in BOOLEAN : e.value = Compression!Constant(v)
  BY <1>2, ValuesAre DEF Compression!Evaluated
<1>3. CASE \E f \in Fluent : e.value = Compression!Value(f)
  BY <1>3, ValuesAre DEF Compression!Evaluated, StateOK
<1> QED
  BY <1>1, <1>2, <1>3

(* An effect chosen is an effect.                                            *)
LEMMA ChosenIs ==
  ASSUME NEW a, NEW i, NEW f, On(a, i, f) # {}
  PROVE  \E e \in Act(a).effects : e.at = i /\ e.fluent = f /\ Chosen(a, i, f) = e.value
                                   /\ e \in Compression!EffectsAt(a, i)
<1>1. AnyOf(On(a, i, f)) \in On(a, i, f)
  BY DEF AnyOf
<1> QED
  BY <1>1 DEF Chosen, On, Compression!EffectsAt, Act

(* What an event makes of a state.                                           *)
LEMMA AfterIs ==
  ASSUME NEW a, NEW i, NEW s, StateOK(s)
  PROVE  /\ DOMAIN After(a, i, s) = Fluent
         /\ \A f \in Fluent :
              After(a, i, s)[f] = IF On(a, i, f) = {} THEN s[f]
                                  ELSE Compression!Evaluated(Chosen(a, i, f), s)
         /\ After(a, i, s) = [f \in Fluent |-> IF On(a, i, f) = {} THEN s[f]
                                               ELSE Compression!Evaluated(Chosen(a, i, f), s)]
BY DEF After, Compression!After, On, Chosen, AnyOf, StateOK

(* It is a state again.                                                      *)
LEMMA AfterOK ==
  ASSUME problem \in CompressionProblems, NEW a \in Actions, NEW i, NEW s, StateOK(s)
  PROVE  StateOK(After(a, i, s))
<1> SUFFICES ASSUME NEW f \in Fluent PROVE After(a, i, s)[f] \in BOOLEAN
  BY AfterIs DEF StateOK
<1>1. CASE On(a, i, f) = {}
  BY <1>1, AfterIs DEF StateOK
<1>2. CASE On(a, i, f) # {}
  <2>1. PICK e \in Act(a).effects : Chosen(a, i, f) = e.value
    BY <1>2, ChosenIs
  <2> QED
    BY <1>2, <2>1, AfterIs, EvaluatedOK
<1> QED
  BY <1>1, <1>2

-----------------------------------------------------------------------------
SafeInv ==
  /\ problem \in CompressionProblems
  /\ safe = Compression!SafeActions(problem)

(* A safe action has no conditions between its instants, its end asks for no *)
(* more than it maintains, and what it does after its start is constant.     *)
LEMMA SafeIs ==
  ASSUME SafeInv, NEW a \in safe
  PROVE  /\ a \in Actions /\ Compression!End(Act(a)) = 2
         /\ \A c \in Act(a).conditions : c.lower \in {0, 2} /\ c.upper \in {0, 2} /\ c.lower <= c.upper
         /\ Compression!EndConditions(Act(a)) \subseteq Compression!OverallConditions(Act(a))
         /\ \A e \in Act(a).effects : e.at # 0 =>
              /\ \E v \in BOOLEAN : e.value = Compression!Constant(v)
              /\ Compression!Name(e.fluent) \notin Compression!ComplexFluents(problem)
              /\ <<Compression!Name(e.fluent), ~e.value.is>> \notin Compression!AskedFor(problem)
<1>1. a \in Actions /\ Compression!Safe(problem, Act(a))
  BY DEF SafeInv, Compression!SafeActions, Actions, Act, Compression!Action
<1>2. /\ Act(a).durative /\ ~Compression!HasIntermediateConditions(Act(a))
      /\ Compression!EndConditions(Act(a)) \subseteq Compression!OverallConditions(Act(a))
      /\ ~Compression!EffectsInterfere(problem, Act(a))
  BY <1>1 DEF Compression!Safe
<1>3. Compression!End(Act(a)) = 2
  BY <1>2, EndIs
<1>4. \A c \in Act(a).conditions : c.lower \in {0, 2} /\ c.upper \in {0, 2} /\ c.lower <= c.upper
  <2> SUFFICES ASSUME NEW c \in Act(a).conditions
               PROVE  c.lower \in {0, 2} /\ c.upper \in {0, 2} /\ c.lower <= c.upper
    OBVIOUS
  <2>1. c.lower \in 0 .. 2 /\ c.upper \in 0 .. 2 /\ c.lower <= c.upper
    BY <1>1, <1>3, ConditionsOK DEF SafeInv
  <2>2. c.lower # 1 /\ c.upper # 1
    <3>1. {c.lower, c.upper} \cap 1 .. Compression!Last - 1 = {}
      BY <1>2 DEF Compression!HasIntermediateConditions
    <3>2. 1 \in 1 .. Compression!Last - 1
      BY DEF Compression!Last
    <3> QED
      BY <3>1, <3>2
  <2> QED
    BY <2>1, <2>2
<1>5. \A e \in Act(a).effects : e.at # 0 =>
        /\ Compression!IsConstant(e.value)
        /\ Compression!Name(e.fluent) \notin Compression!ComplexFluents(problem)
        /\ <<Compression!Name(e.fluent), ~e.value.is>> \notin Compression!AskedFor(problem)
  BY <1>2 DEF Compression!EffectsInterfere
<1>6. \A e \in Act(a).effects : e.at # 0 => \E v \in BOOLEAN : e.value = Compression!Constant(v)
  BY <1>1, <1>5, EffectsOK, ValuesAre DEF SafeInv
<1> QED
  BY <1>1, <1>2, <1>3, <1>4, <1>5, <1>6

(* No condition tells states apart that differ in late values only.          *)
LEMMA CloseEnough ==
  ASSUME SafeInv, NEW s, NEW t, StateOK(s), StateOK(t), Close(s, t),
         NEW a \in Actions, NEW k \in Act(a).conditions, Compression!Holds(k.that, s)
  PROVE  Compression!Holds(k.that, t)
<1>1. k.that \in Compression!Conditions(problem)
  BY DEF Compression!Conditions, Act, Compression!Action, Actions
<1>2. \/ \E f \in Fluent, v \in BOOLEAN : k.that = Compression!Literal(f, v)
      \/ \E f, g \in Fluent : k.that = Compression!Same(f, g)
  BY ConditionsOK DEF SafeInv
<1>3. CASE \E f \in Fluent, v \in BOOLEAN : k.that = Compression!Literal(f, v)
  <2>1. PICK f \in Fluent, v \in BOOLEAN : k.that = Compression!Literal(f, v)
    BY <1>3
  <2>2. /\ Compression!IsLiteral(k.that) /\ k.that.fluent = f /\ k.that.value = v
        /\ s[f] = v /\ (Compression!Holds(k.that, t) <=> t[f] = v)
    BY <2>1 DEF Compression!Literal, Compression!IsLiteral, Compression!Holds
  <2>3. <<Compression!Name(f), v>> \in Compression!AskedFor(problem)
    BY <1>1, <2>2 DEF Compression!AskedFor
  <2>4. CASE LateValue(f, t[f])
    <3>1. PICK b \in safe : \E e \in Act(b).effects : e.at # 0 /\ e.fluent = f /\ t[f] = e.value.is
      BY <2>4 DEF LateValue
    <3>2. PICK e \in Act(b).effects : e.at # 0 /\ e.fluent = f /\ t[f] = e.value.is
      BY <3>1
    <3>3. /\ \E w \in BOOLEAN : e.value = Compression!Constant(w)
          /\ <<Compression!Name(e.fluent), ~e.value.is>> \notin Compression!AskedFor(problem)
      BY <3>2, SafeIs
    <3>4. e.value.is \in BOOLEAN
      BY <3>3, ValuesAre
    <3>5. v # ~e.value.is
      BY <2>3, <3>2, <3>3
    <3> QED
      BY <2>2, <3>2, <3>4, <3>5
  <2> QED
    BY <2>2, <2>4 DEF Close
<1>4. CASE \E f, g \in Fluent : k.that = Compression!Same(f, g)
  <2>1. PICK f \in Fluent, g \in Fluent : k.that = Compression!Same(f, g)
    BY <1>4
  <2>2. /\ ~Compression!IsLiteral(k.that) /\ k.that.left = f /\ k.that.right = g
        /\ s[f] = s[g] /\ (Compression!Holds(k.that, t) <=> t[f] = t[g])
        /\ Compression!Reads(k.that) = {f, g}
    BY <2>1 DEF Compression!Same, Compression!IsLiteral, Compression!Holds, Compression!Reads
  <2>3. \A h \in {f, g} : Compression!Name(h) \in Compression!ComplexFluents(problem)
    BY <1>1, <2>2 DEF Compression!ComplexFluents
  <2>4. \A h \in {f, g} : ~LateValue(h, t[h])
    BY <2>3, SafeIs DEF LateValue
  <2> QED
    BY <2>2, <2>4 DEF Close
<1> QED
  BY <1>2, <1>3, <1>4

(* Among what a safe action still has to do to a fluent there is a last.     *)
LEMMA SomeFinal ==
  ASSUME NEW td, \A c \in DOMAIN td : td[c] \in Nat,
         NEW b \in Actions, NEW i \in 1 .. 2, NEW f, LateAt(td, b, i, f)
  PROVE  \E j \in 1 .. 2 : i <= j /\ Final(td, b, j, f)
<1>1. CASE On(b, 2, f) = {}
  <2>1. i = 1
    BY <1>1 DEF LateAt
  <2>2. Final(td, b, 1, f)
    BY <1>1, <2>1 DEF Final
  <2> QED
    BY <2>1, <2>2
<1>2. CASE On(b, 2, f) # {} /\ i = 2
  BY <1>2 DEF Final
<1>3. CASE On(b, 2, f) # {} /\ i = 1
  <2>1. LateAt(td, b, 2, f)
    BY <1>3 DEF LateAt
  <2> QED
    BY <1>3, <2>1 DEF Final
<1> QED
  BY <1>1, <1>2, <1>3

-----------------------------------------------------------------------------
(* Where the actions are under way, and no event of the action is in the way *)
(* of what they have to do.                                                  *)
UnderWay(td) == \A b \in DOMAIN td : td[b] \in Nat \ {0}
Unhindered(td, a, i) ==
  \A b \in (DOMAIN td \cap safe) \ {a} : \A late \in Act(b).effects : late.at >= td[b] =>
    \A e \in Compression!EffectsAt(a, i) :
      /\ e.value # Compression!Value(late.fluent)
      /\ e.fluent = late.fluent => e.value = late.value

(* What is still to come is constant.                                        *)
LEMMA LateIs ==
  ASSUME SafeInv, NEW td, UnderWay(td), NEW b \in Actions, NEW j \in 1 .. 2, NEW f, LateAt(td, b, j, f)
  PROVE  /\ b \in safe /\ b \in DOMAIN td /\ td[b] <= j
         /\ \E e \in Act(b).effects : e.at = j /\ e.fluent = f /\ Chosen(b, j, f) = e.value
         /\ \E v \in BOOLEAN : Chosen(b, j, f) = Compression!Constant(v)
<1>1. b \in safe /\ b \in DOMAIN td /\ td[b] <= j /\ On(b, j, f) # {}
  BY DEF LateAt
<1>2. PICK e \in Act(b).effects : e.at = j /\ e.fluent = f /\ Chosen(b, j, f) = e.value
  BY <1>1, ChosenIs
<1>3. \E v \in BOOLEAN : e.value = Compression!Constant(v)
  <2>1. e.at # 0
    BY <1>2
  <2> QED
    BY <1>1, <1>2, <2>1, SafeIs
<1> QED
  BY <1>1, <1>2, <1>3

(* An event that is not in the way does what is to come, or something else.  *)
LEMMA Agrees ==
  ASSUME SafeInv, NEW td, UnderWay(td), NEW a, NEW i, Unhindered(td, a, i),
         NEW b \in Actions, NEW j \in 1 .. 2, NEW g, LateAt(td, b, j, g), b # a,
         NEW e \in Compression!EffectsAt(a, i)
  PROVE  e.value # Compression!Value(g) /\ (e.fluent = g => e.value = Chosen(b, j, g))
<1>1. b \in safe /\ b \in DOMAIN td /\ td[b] <= j
  BY LateIs
<1>2. PICK late \in Act(b).effects : late.at = j /\ late.fluent = g /\ Chosen(b, j, g) = late.value
  BY LateIs
<1>3. late.at >= td[b]
  BY <1>1, <1>2 DEF UnderWay
<1> QED
  BY <1>1, <1>2, <1>3 DEF Unhindered

(* Nothing else matters than what is late, and the value.                    *)
LEMMA SameTracks ==
  ASSUME NEW s, NEW t, NEW u, NEW td, NEW te, NEW f, TracksAt(s, t, td, f), u[f] = t[f],
         \A b \in Actions, i \in 1 .. 2 : LateAt(te, b, i, f) <=> LateAt(td, b, i, f)
  PROVE  TracksAt(s, u, te, f)
<1>1. LateOn(te, f) <=> LateOn(td, f)
  BY DEF LateOn
<1>2. \A b \in Actions, i \in 1 .. 2 : Final(te, b, i, f) <=> Final(td, b, i, f)
  BY DEF Final
<1> QED
  BY <1>1, <1>2 DEF TracksAt

(* An event carried out in both plans.                                       *)
LEMMA SameStep ==
  ASSUME SafeInv, NEW td, UnderWay(td), NEW s, NEW t, StateOK(s), StateOK(t), Tracks(s, t, td),
         NEW a \in Actions, NEW i, a \notin DOMAIN td \cap safe, Unhindered(td, a, i), NEW f \in Fluent
  PROVE  TracksAt(After(a, i, s), After(a, i, t), td, f)
<1>1. TracksAt(s, t, td, f)
  BY DEF Tracks
<1>2. CASE On(a, i, f) = {}
  <2>1. After(a, i, s)[f] = s[f] /\ After(a, i, t)[f] = t[f]
    BY <1>2, AfterIs
  <2> QED
    BY <1>1, <2>1 DEF TracksAt
<1>3. CASE On(a, i, f) # {}
  <2>1. PICK e \in Act(a).effects : /\ e.fluent = f /\ Chosen(a, i, f) = e.value
                                    /\ e \in Compression!EffectsAt(a, i)
    BY <1>3, ChosenIs
  <2>2. /\ After(a, i, s)[f] = Compression!Evaluated(e.value, s)
        /\ After(a, i, t)[f] = Compression!Evaluated(e.value, t)
    BY <1>3, <2>1, AfterIs
  <2>3. \A b \in Actions, j \in 1 .. 2, g \in Fluent : LateAt(td, b, j, g) =>
          e.value # Compression!Value(g) /\ (f = g => e.value = Chosen(b, j, g))
    <3> SUFFICES ASSUME NEW b \in Actions, NEW j \in 1 .. 2, NEW g \in Fluent, LateAt(td, b, j, g)
                 PROVE  e.value # Compression!Value(g) /\ (f = g => e.value = Chosen(b, j, g))
      OBVIOUS
    <3>1. b # a
      BY DEF LateAt
    <3> QED
      BY <2>1, <3>1, Agrees
  <2>4. CASE LateOn(td, f)
    <3>1. PICK b \in Actions, j \in 1 .. 2 : Final(td, b, j, f)
      BY <1>1, <2>4 DEF TracksAt
    <3>2. LateAt(td, b, j, f)
      BY <3>1 DEF Final
    <3>3. e.value = Chosen(b, j, f)
      BY <2>3, <3>2
    <3>4. \E v \in BOOLEAN : e.value = Compression!Constant(v)
      BY <3>2, <3>3, LateIs
    <3>5. After(a, i, t)[f] = Chosen(b, j, f).is
      BY <2>2, <3>3, <3>4, ValuesAre DEF Compression!Evaluated
    <3> QED
      BY <2>4, <3>1, <3>5 DEF TracksAt
  <2>5. CASE ~LateOn(td, f)
    <3>1. Compression!Evaluated(e.value, s) = Compression!Evaluated(e.value, t)
      <4>1. CASE \E v \in BOOLEAN : e.value = Compression!Constant(v)
        BY <4>1, ValuesAre DEF Compression!Evaluated
      <4>2. CASE \E g \in Fluent : e.value = Compression!Value(g)
        <5>1. PICK g \in Fluent : e.value = Compression!Value(g)
          BY <4>2
        <5>2. ~LateOn(td, g)
          BY <2>3, <5>1 DEF LateOn
        <5>3. t[g] = s[g]
          BY <5>2 DEF Tracks, TracksAt
        <5> QED
          BY <5>1, <5>3, ValuesAre DEF Compression!Evaluated
      <4> QED
        BY <4>1, <4>2, EffectsOK DEF SafeInv
    <3> QED
      BY <2>2, <2>5, <3>1 DEF TracksAt
  <2> QED
    BY <2>4, <2>5
<1> QED
  BY <1>2, <1>3

(* The compressed plan is ahead by late values only.                         *)
LEMMA TracksClose ==
  ASSUME SafeInv, NEW td, UnderWay(td), NEW s, NEW t, Tracks(s, t, td)
  PROVE  Close(s, t)
<1> SUFFICES ASSUME NEW f \in Fluent, t[f] # s[f] PROVE LateValue(f, t[f])
  BY DEF Close
<1>1. PICK b \in Actions, i \in 1 .. 2 : Final(td, b, i, f) /\ t[f] = Chosen(b, i, f).is
  BY DEF Tracks, TracksAt
<1>2. LateAt(td, b, i, f)
  BY <1>1 DEF Final
<1>3. PICK e \in Act(b).effects : e.at = i /\ e.fluent = f /\ Chosen(b, i, f) = e.value
  BY <1>2, LateIs
<1>4. b \in safe
  BY <1>2, LateIs
<1> QED
  BY <1>1, <1>3, <1>4 DEF LateValue

(* So it stays through the later events of a chain.                          *)
LEMMA ChainClose ==
  ASSUME SafeInv, NEW s, NEW t, StateOK(s), StateOK(t), Close(s, t), NEW a \in safe, NEW i \in 1 .. 2
  PROVE  Close(s, After(a, i, t))
<1> SUFFICES ASSUME NEW f \in Fluent
             PROVE  After(a, i, t)[f] = s[f] \/ LateValue(f, After(a, i, t)[f])
  BY DEF Close
<1>1. CASE On(a, i, f) = {}
  BY <1>1, AfterIs DEF Close
<1>2. CASE On(a, i, f) # {}
  <2>1. PICK e \in Act(a).effects : e.at = i /\ e.fluent = f /\ Chosen(a, i, f) = e.value
    BY <1>2, ChosenIs
  <2>2. \E v \in BOOLEAN : e.value = Compression!Constant(v)
    <3>1. e.at # 0
      BY <2>1
    <3> QED
      BY <2>1, <3>1, SafeIs
  <2>3. After(a, i, t)[f] = e.value.is
    BY <1>2, <2>1, <2>2, AfterIs, ValuesAre DEF Compression!Evaluated
  <2> QED
    BY <2>1, <2>3 DEF LateValue
<1> QED
  BY <1>1, <1>2

(* The states of a chain.                                                    *)
LEMMA ChainIs ==
  ASSUME NEW a, Compression!End(Act(a)) = 2, NEW s
  PROVE  /\ Compression!Chain(a, s)[0] = After(a, 0, s)
         /\ Compression!Chain(a, s)[1] = After(a, 1, After(a, 0, s))
         /\ Compression!Chain(a, s)[2] = After(a, 2, After(a, 1, After(a, 0, s)))
<1> DEFINE Unfolds(x) == x = [i \in 0 .. 2 |-> After(a, i, IF i = 0 THEN s ELSE x[i - 1])]
           zero == After(a, 0, s)
           one == After(a, 1, zero)
           two == After(a, 2, one)
           chain == [i \in 0 .. 2 |-> IF i = 0 THEN zero ELSE IF i = 1 THEN one ELSE two]
<1>1. Unfolds(chain)
  <2>1. \A i \in 0 .. 2 : chain[i] = After(a, i, IF i = 0 THEN s ELSE chain[i - 1])
    <3>1. chain[0] = zero /\ chain[1] = one /\ chain[2] = two
      OBVIOUS
    <3> HIDE DEF chain
    <3>2. \A i \in 0 .. 2 : i = 0 \/ i = 1 \/ i = 2
      OBVIOUS
    <3>3. 1 - 1 = 0 /\ 2 - 1 = 1
      OBVIOUS
    <3> QED
      BY <3>1, <3>2, <3>3
  <2> QED
    BY <2>1
<1>2. Compression!Chain(a, s) = CHOOSE x : Unfolds(x)
  BY DEF Compression!Chain, Act, After
<1>3. Unfolds(Compression!Chain(a, s))
  BY <1>1, <1>2
<1>4. \A i \in 0 .. 2 : Compression!Chain(a, s)[i] = After(a, i, IF i = 0 THEN s ELSE Compression!Chain(a, s)[i - 1])
  BY <1>3
<1> QED
  BY <1>4

-----------------------------------------------------------------------------
(* What the other actions under way maintain that are not safe.              *)
Others(a) == UNION {Compression!Maintained(b, todo[b]) : b \in (DOMAIN todo \ safe) \ {a}}

(* States that differ in late values only satisfy the same conditions.       *)
LEMMA AllClose ==
  ASSUME SafeInv, NEW s, NEW t, StateOK(s), StateOK(t), Close(s, t),
         NEW cs, cs \subseteq Compression!Conditions(problem), Compression!AllHold(cs, s)
  PROVE  Compression!AllHold(cs, t)
<1> SUFFICES ASSUME NEW c \in cs PROVE Compression!Holds(c, t)
  BY DEF Compression!AllHold
<1>1. PICK a \in Actions : \E k \in Act(a).conditions : c = k.that
  BY DEF Compression!Conditions, Act, Compression!Action, Actions
<1>2. PICK k \in Act(a).conditions : c = k.that
  BY <1>1
<1>3. Compression!Holds(k.that, s)
  BY <1>2 DEF Compression!AllHold
<1> QED
  BY <1>2, <1>3, CloseEnough

(* What an action asks for are conditions of the problem.                    *)
LEMMA AreConditions ==
  ASSUME NEW a \in Actions, NEW i
  PROVE  /\ Compression!At(a, i) \subseteq Compression!Conditions(problem)
         /\ Compression!Maintained(a, i) \subseteq Compression!Conditions(problem)
BY DEF Compression!At, Compression!Maintained, Compression!Conditions, Compression!Action, Actions

(* A step of the plan, whatever the compressed plan does.                    *)
LEMMA FireIs ==
  ASSUME CompressionInv, NEW a \in Actions, NEW i, i = IF a \in DOMAIN todo THEN todo[a] ELSE 0,
         Compression!Fire(a, i)
  PROVE  /\ problem' = problem /\ safe' = safe /\ SafeInv /\ UnderWay(todo)
         /\ i \in 0 .. Compression!End(Act(a))
         /\ full' = After(a, i, full) /\ StateOK(full')
         /\ DOMAIN todo' = (DOMAIN todo \cup {a}) \ (IF i = Compression!End(Act(a)) THEN {a} ELSE {})
         /\ \A b \in DOMAIN todo' : todo'[b] = IF b = a THEN i + 1 ELSE todo[b]
         /\ \A b \in DOMAIN todo' : todo'[b] \in 1 .. Compression!End(Act(b))
         /\ Compression!AllHold(Compression!At(a, i), full)
         /\ Compression!AllHold(Compression!Active(todo'), full')
         /\ Compression!Compressed(a, i, Others(a))
         /\ ~disturbed' => (~disturbed /\ Unhindered(todo, a, i))
<1>1. SafeInv
  BY DEF CompressionInv, SafeInv
<1>2. \A b \in DOMAIN todo : todo[b] \in 1 .. Compression!End(Act(b))
  BY DEF CompressionInv
<1>3. \A b : Compression!End(Act(b)) \in {0, 2}
  BY EndIs
<1>4. UnderWay(todo)
  BY <1>2, <1>3 DEF UnderWay
<1>5. i \in 0 .. Compression!End(Act(a))
  <2>1. CASE a \in DOMAIN todo
    BY <1>2, <1>3, <2>1
  <2>2. CASE a \notin DOMAIN todo
    BY <1>3, <2>2
  <2> QED
    BY <2>1, <2>2
<1>6. /\ problem' = problem /\ safe' = safe /\ full' = After(a, i, full)
      /\ todo' = Compression!Advanced(a, i)
      /\ Compression!AllHold(Compression!At(a, i), full)
      /\ Compression!AllHold(Compression!Active(todo'), full')
      /\ Compression!Compressed(a, i, Others(a))
      /\ disturbed' = (disturbed \/ Compression!InTheWay(a, i))
  BY DEF Compression!Fire, After, Others
<1>7. StateOK(After(a, i, full))
  BY AfterOK DEF CompressionInv
<1>8. /\ DOMAIN todo' = (DOMAIN todo \cup {a}) \ (IF i = Compression!End(Act(a)) THEN {a} ELSE {})
      /\ \A b \in DOMAIN todo' : todo'[b] = IF b = a THEN i + 1 ELSE todo[b]
  BY <1>6 DEF Compression!Advanced, Act
<1>9. \A b \in DOMAIN todo' : todo'[b] \in 1 .. Compression!End(Act(b))
  <2> SUFFICES ASSUME NEW b \in DOMAIN todo' PROVE todo'[b] \in 1 .. Compression!End(Act(b))
    OBVIOUS
  <2>1. CASE b = a
    <3>1. i # Compression!End(Act(a)) /\ todo'[b] = i + 1
      BY <1>8, <2>1
    <3> QED
      BY <1>3, <1>5, <2>1, <3>1
  <2>2. CASE b # a
    BY <1>2, <1>8, <2>2
  <2> QED
    BY <2>1, <2>2
<1>10. ~disturbed' => (~disturbed /\ Unhindered(todo, a, i))
  BY <1>6 DEF Compression!InTheWay, Unhindered, Act
<1> QED
  BY <1>1, <1>4, <1>5, <1>6, <1>7, <1>8, <1>9, <1>10

(* What is maintained after the step holds in the plan.                      *)
LEMMA OthersHold ==
  ASSUME CompressionInv, NEW a \in Actions, NEW i, i = IF a \in DOMAIN todo THEN todo[a] ELSE 0,
         Compression!Fire(a, i)
  PROVE  /\ Compression!AllHold(Others(a) \cup Compression!Maintained(a, i + 1), full')
         /\ Others(a) \cup Compression!Maintained(a, i + 1) \subseteq Compression!Conditions(problem)
<1> DEFINE end == Compression!End(Act(a))
<1>1. /\ SafeInv /\ i \in 0 .. end
      /\ DOMAIN todo' = (DOMAIN todo \cup {a}) \ (IF i = end THEN {a} ELSE {})
      /\ \A b \in DOMAIN todo' : todo'[b] = IF b = a THEN i + 1 ELSE todo[b]
      /\ Compression!AllHold(Compression!Active(todo'), full')
  BY FireIs
<1>2. DOMAIN todo \subseteq Actions
  BY DEF CompressionInv
<1>3. Others(a) \subseteq Compression!Active(todo')
  <2> SUFFICES ASSUME NEW b \in (DOMAIN todo \ safe) \ {a}, NEW c \in Compression!Maintained(b, todo[b])
               PROVE  c \in Compression!Active(todo')
    BY DEF Others
  <2>1. b \in DOMAIN todo' /\ todo'[b] = todo[b]
    BY <1>1
  <2> QED
    BY <2>1 DEF Compression!Active
<1>4. Compression!Maintained(a, i + 1) \subseteq Compression!Active(todo')
  <2>1. CASE i # end
    <3>1. a \in DOMAIN todo' /\ todo'[a] = i + 1
      BY <1>1, <2>1
    <3> QED
      BY <3>1 DEF Compression!Active
  <2>2. CASE i = end
    <3>1. \A c \in Act(a).conditions : c.upper \in 0 .. end
      BY <1>1, ConditionsOK DEF SafeInv
    <3>2. end \in {0, 2}
      BY EndIs
    <3> HIDE DEF end
    <3>3. \A c \in Act(a).conditions : ~(i + 1 <= c.upper)
      BY <2>2, <3>1, <3>2
    <3> QED
      BY <3>3 DEF Compression!Maintained, Act
  <2> QED
    BY <2>1, <2>2
<1>5. Others(a) \subseteq Compression!Conditions(problem)
  BY <1>2, AreConditions DEF Others
<1> QED
  BY <1>1, <1>3, <1>4, <1>5, AreConditions DEF Compression!AllHold

-----------------------------------------------------------------------------
(* How the compressed plan goes on.                                          *)
Goes ==
  /\ StateOK(short') /\ covered'
  /\ ~disturbed' => (works' /\ Tracks(full', short', todo'))

(* An event of an action that is not safe takes place in both plans.         *)
LEMMA NotSafeGoes ==
  ASSUME CompressionInv, NEW a \in Actions, NEW i, i = IF a \in DOMAIN todo THEN todo[a] ELSE 0,
         Compression!Fire(a, i), a \notin safe
  PROVE  Goes
<1>1. /\ SafeInv /\ UnderWay(todo) /\ StateOK(full) /\ StateOK(short) /\ StateOK(full') /\ covered
      /\ full' = After(a, i, full)
      /\ DOMAIN todo' = (DOMAIN todo \cup {a}) \ (IF i = Compression!End(Act(a)) THEN {a} ELSE {})
      /\ \A b \in DOMAIN todo' : todo'[b] = IF b = a THEN i + 1 ELSE todo[b]
      /\ Compression!AllHold(Compression!At(a, i), full)
      /\ ~disturbed' => (~disturbed /\ Unhindered(todo, a, i))
  BY FireIs DEF CompressionInv
<1>2. Compression!Compressed(a, i, Others(a))
  BY FireIs
<1>3. /\ short' = After(a, i, short) /\ covered' = covered
      /\ works' = (works /\ Compression!AllHold(Compression!At(a, i), short)
                         /\ Compression!AllHold(Others(a) \cup Compression!Maintained(a, i + 1), After(a, i, short)))
  BY <1>2 DEF Compression!Compressed, After
<1>4. StateOK(short')
  BY <1>1, <1>3, AfterOK DEF SafeInv
<1>5. ASSUME ~disturbed' PROVE works' /\ Tracks(full', short', todo')
  <2>1. Unhindered(todo, a, i) /\ works /\ Tracks(full, short, todo)
    BY <1>1, <1>5 DEF CompressionInv
  <2>2. \A f \in Fluent : TracksAt(After(a, i, full), After(a, i, short), todo, f)
    <3> SUFFICES ASSUME NEW f \in Fluent PROVE TracksAt(After(a, i, full), After(a, i, short), todo, f)
      OBVIOUS
    <3>1. a \notin DOMAIN todo \cap safe
      OBVIOUS
    <3> QED
      BY <1>1, <2>1, <3>1, SameStep
  <2>3. Tracks(full', short', todo)
    BY <1>1, <1>3, <2>2 DEF Tracks
  <2>4. \A b \in Actions, j \in 1 .. 2, f \in Fluent : LateAt(todo', b, j, f) <=> LateAt(todo, b, j, f)
    <3> SUFFICES ASSUME NEW b \in Actions, NEW j \in 1 .. 2, NEW f \in Fluent
                 PROVE  LateAt(todo', b, j, f) <=> LateAt(todo, b, j, f)
      OBVIOUS
    <3>1. CASE b = a
      BY <3>1 DEF LateAt
    <3>2. CASE b # a
      <4>1. (b \in DOMAIN todo' <=> b \in DOMAIN todo) /\ (b \in DOMAIN todo => todo'[b] = todo[b])
        BY <1>1, <3>2
      <4> QED
        BY <4>1 DEF LateAt
    <3> QED
      BY <3>1, <3>2
  <2>5. Tracks(full', short', todo')
    <3> SUFFICES ASSUME NEW f \in Fluent PROVE TracksAt(full', short', todo', f)
      BY DEF Tracks
    <3>1. TracksAt(full', short', todo, f)
      BY <2>3 DEF Tracks
    <3> QED
      BY <2>4, <3>1, SameTracks
  <2>6. Close(full, short) /\ Close(full', short')
    BY <1>1, <2>1, <2>3, TracksClose
  <2>7. Compression!AllHold(Compression!At(a, i), short)
    BY <1>1, <2>6, AllClose, AreConditions
  <2>8. Compression!AllHold(Others(a) \cup Compression!Maintained(a, i + 1), short')
    BY <1>1, <1>4, <2>6, OthersHold, AllClose
  <2> QED
    BY <1>3, <2>1, <2>5, <2>7, <2>8
<1> QED
  BY <1>1, <1>3, <1>4, <1>5 DEF Goes

(* A safe action starts: all its events take place in the compressed plan.   *)
LEMMA SafeStarts ==
  ASSUME CompressionInv, NEW a \in Actions, a \notin DOMAIN todo, a \in safe, Compression!Fire(a, 0)
  PROVE  Goes
<1> DEFINE c0 == After(a, 0, short)
           c1 == After(a, 1, c0)
           c2 == After(a, 2, c1)
           cs == Others(a) \cup Compression!Maintained(a, 1)
<1>0. 0 = IF a \in DOMAIN todo THEN todo[a] ELSE 0
  OBVIOUS
<1>1. /\ SafeInv /\ UnderWay(todo) /\ StateOK(full) /\ StateOK(short) /\ StateOK(full') /\ covered
      /\ full' = After(a, 0, full)
      /\ DOMAIN todo' = (DOMAIN todo \cup {a}) \ (IF 0 = Compression!End(Act(a)) THEN {a} ELSE {})
      /\ \A b \in DOMAIN todo' : todo'[b] = IF b = a THEN 0 + 1 ELSE todo[b]
      /\ Compression!AllHold(Compression!At(a, 0), full)
      /\ ~disturbed' => (~disturbed /\ Unhindered(todo, a, 0))
  BY <1>0, FireIs DEF CompressionInv
<1>2. Compression!End(Act(a)) = 2 /\ problem \in CompressionProblems
  BY <1>1, SafeIs DEF SafeInv
<1>3. Compression!Compressed(a, 0, Others(a))
  BY <1>0, FireIs
<1>4. /\ works' = (works /\ Compression!ChainPasses(a, short, Others(a)))
      /\ covered' = (covered /\ (Compression!ChainPasses(a, short, Others(a)) => Compression!ChainCovers(a, short)))
      /\ short' = Compression!Chain(a, short)[2]
  BY <1>2, <1>3 DEF Compression!Compressed, Act
<1>5. /\ Compression!Chain(a, short)[0] = c0 /\ Compression!Chain(a, short)[1] = c1
      /\ Compression!Chain(a, short)[2] = c2
  BY <1>2, ChainIs
<1>6. StateOK(c0) /\ StateOK(c1) /\ StateOK(c2)
  <2>1. StateOK(c0)
    BY <1>1, <1>2, AfterOK
  <2> HIDE DEF c0
  <2>2. StateOK(c1)
    BY <1>2, <2>1, AfterOK
  <2> HIDE DEF c1
  <2> QED
    BY <1>2, <2>1, <2>2, AfterOK
<1>7. /\ \A c \in Act(a).conditions : c.lower \in {0, 2} /\ c.upper \in {0, 2} /\ c.lower <= c.upper
      /\ Compression!EndConditions(Act(a)) \subseteq Compression!OverallConditions(Act(a))
  BY <1>1, SafeIs
<1>8. /\ Compression!Maintained(a, 2) \subseteq Compression!Maintained(a, 1)
      /\ Compression!Maintained(a, 3) = {}
      /\ Compression!At(a, 1) = {} /\ Compression!At(a, 2) \subseteq Compression!Maintained(a, 2)
  <2>1. \A c \in Act(a).conditions : /\ c.lower < 2 /\ 2 <= c.upper => c.lower < 1 /\ 1 <= c.upper
                                     /\ ~(3 <= c.upper) /\ c.lower # 1 /\ c.upper # 1
                                     /\ c.lower = 2 => c.upper = 2
                                     /\ c.upper = 2 => c.lower = 2 \/ c.lower < 2
    BY <1>7
  <2>2. Compression!OverallConditions(Act(a)) \subseteq Compression!Maintained(a, 2)
    BY DEF Compression!OverallConditions, Compression!Maintained, Compression!Last, Act
  <2>3. Compression!At(a, 2) \subseteq Compression!EndConditions(Act(a)) \cup Compression!Maintained(a, 2)
    BY <2>1 DEF Compression!At, Compression!EndConditions, Compression!Maintained, Compression!Last, Act
  <2>4. Compression!At(a, 1) = {}
    BY <2>1 DEF Compression!At, Act
  <2>5. Compression!Maintained(a, 3) = {}
    BY <2>1 DEF Compression!Maintained, Act
  <2>6. Compression!Maintained(a, 2) \subseteq Compression!Maintained(a, 1)
    BY <2>1 DEF Compression!Maintained, Act
  <2> QED
    BY <1>7, <2>2, <2>3, <2>4, <2>5, <2>6
<1> HIDE DEF c0, c1, c2
<1>9. covered'
  <2> SUFFICES ASSUME Compression!ChainPasses(a, short, Others(a)) PROVE Compression!ChainCovers(a, short)
    BY <1>1, <1>4
  <2>1. Compression!AllHold(Others(a) \cup Compression!Maintained(a, 1 + 1), c1)
    BY <1>2, <1>5 DEF Compression!ChainPasses, Act
  <2>2. Compression!AllHold(Compression!At(a, 2), c1)
    BY <1>8, <2>1 DEF Compression!AllHold
  <2>3. \A i \in 1 .. 2 : Compression!AllHold(Compression!At(a, i), Compression!Chain(a, short)[i - 1])
    <3> SUFFICES ASSUME NEW i \in 1 .. 2
                 PROVE  Compression!AllHold(Compression!At(a, i), Compression!Chain(a, short)[i - 1])
      OBVIOUS
    <3>1. CASE i = 1
      BY <1>8, <3>1 DEF Compression!AllHold
    <3>2. CASE i = 2
      <4>1. i - 1 = 1
        BY <3>2
      <4> QED
        BY <1>5, <2>2, <3>2, <4>1
    <3> QED
      BY <3>1, <3>2
  <2> QED
    BY <1>2, <2>3 DEF Compression!ChainCovers, Act
<1>10. ASSUME ~disturbed' PROVE works' /\ Tracks(full', short', todo')
  <2>1. Unhindered(todo, a, 0) /\ works /\ Tracks(full, short, todo)
    BY <1>1, <1>10 DEF CompressionInv
  <2>2. a \notin DOMAIN todo \cap safe
    OBVIOUS
  <2>3. \A f \in Fluent : TracksAt(full', c0, todo, f)
    <3> SUFFICES ASSUME NEW f \in Fluent PROVE TracksAt(After(a, 0, full), After(a, 0, short), todo, f)
      BY <1>1 DEF c0
    <3> QED
      BY <1>1, <2>1, <2>2, SameStep
  <2>4. Close(full', c0)
    <3>1. Tracks(full', c0, todo)
      BY <2>3 DEF Tracks
    <3> QED
      BY <1>1, <3>1, TracksClose
  <2>5. Close(full', c1)
    BY <1>1, <1>6, <2>4, ChainClose DEF c1
  <2>6. Close(full', c2)
    BY <1>1, <1>6, <2>5, ChainClose DEF c2
  <2>7. Close(full, short)
    BY <1>1, <2>1, TracksClose
  <2>8. Compression!AllHold(cs, full') /\ cs \subseteq Compression!Conditions(problem)
    <3>1. 0 + 1 = 1
      OBVIOUS
    <3> QED
      BY <1>0, <3>1, OthersHold
  <2> HIDE DEF cs
  <2>9. \A t \in {c0, c1, c2} : Compression!AllHold(cs, t)
    BY <1>1, <1>6, <2>4, <2>5, <2>6, <2>8, AllClose
  <2>10. Compression!AllHold(Compression!At(a, 0), short)
    BY <1>1, <2>7, AllClose, AreConditions
  <2>11. Compression!ChainPasses(a, short, Others(a))
    <3> SUFFICES ASSUME NEW i \in 0 .. 2
                 PROVE  Compression!AllHold(Others(a) \cup Compression!Maintained(a, i + 1),
                                            Compression!Chain(a, short)[i])
      BY <1>2, <2>10 DEF Compression!ChainPasses, Act
    <3>1. Compression!AllHold(cs, Compression!Chain(a, short)[i])
      <4>1. i = 0 \/ i = 1 \/ i = 2
        OBVIOUS
      <4> QED
        BY <1>5, <2>9, <4>1
    <3>2. Others(a) \cup Compression!Maintained(a, i + 1) \subseteq cs
      <4>1. \/ i + 1 = 1
            \/ i + 1 = 2
            \/ i + 1 = 3
        OBVIOUS
      <4> QED
        BY <1>8, <4>1 DEF cs
    <3> QED
      BY <3>1, <3>2 DEF Compression!AllHold
  <2>12. \A b \in Actions, j \in 1 .. 2, f \in Fluent : b # a => (LateAt(todo', b, j, f) <=> LateAt(todo, b, j, f))
    <3> SUFFICES ASSUME NEW b \in Actions, NEW j \in 1 .. 2, NEW f \in Fluent, b # a
                 PROVE  LateAt(todo', b, j, f) <=> LateAt(todo, b, j, f)
      OBVIOUS
    <3>1. (b \in DOMAIN todo' <=> b \in DOMAIN todo) /\ (b \in DOMAIN todo => todo'[b] = todo[b])
      BY <1>1
    <3> QED
      BY <3>1 DEF LateAt
  <2>13. a \in DOMAIN todo' /\ todo'[a] = 1
    BY <1>1, <1>2
  <2>14. Tracks(full', c2, todo')
    <3> SUFFICES ASSUME NEW f \in Fluent PROVE TracksAt(full', c2, todo', f)
      BY DEF Tracks
    <3>1. CASE On(a, 1, f) = {} /\ On(a, 2, f) = {}
      <4>1. c1[f] = c0[f]
        BY <1>6, <3>1, AfterIs DEF c1
      <4>2. c2[f] = c1[f]
        BY <1>6, <3>1, AfterIs DEF c2
      <4>3. \A b \in Actions, j \in 1 .. 2 : LateAt(todo', b, j, f) <=> LateAt(todo, b, j, f)
        <5>1. \A j \in 1 .. 2 : On(a, j, f) = {}
          BY <3>1
        <5> QED
          BY <2>12, <5>1 DEF LateAt
      <4>4. TracksAt(full', c0, todo, f) /\ c2[f] = c0[f]
        BY <2>3, <4>1, <4>2
      <4> QED
        BY <4>3, <4>4, SameTracks
    <3>2. CASE On(a, 2, f) # {}
      <4>1. Final(todo', a, 2, f)
        BY <2>13, <3>2 DEF Final, LateAt
      <4>2. PICK e \in Act(a).effects : e.at = 2 /\ e.fluent = f /\ Chosen(a, 2, f) = e.value
        BY <3>2, ChosenIs
      <4>3. \E v \in BOOLEAN : e.value = Compression!Constant(v)
        <5>1. e.at # 0
          BY <4>2
        <5> QED
          BY <1>1, <5>1, SafeIs
      <4>4. c2[f] = Chosen(a, 2, f).is
        BY <1>6, <3>2, <4>2, <4>3, AfterIs, ValuesAre DEF c2, Compression!Evaluated
      <4> QED
        BY <4>1, <4>4 DEF TracksAt, LateOn, Final
    <3>3. CASE On(a, 1, f) # {} /\ On(a, 2, f) = {}
      <4>1. Final(todo', a, 1, f)
        BY <2>13, <3>3 DEF Final, LateAt
      <4>2. PICK e \in Act(a).effects : e.at = 1 /\ e.fluent = f /\ Chosen(a, 1, f) = e.value
        BY <3>3, ChosenIs
      <4>3. \E v \in BOOLEAN : e.value = Compression!Constant(v)
        <5>1. e.at # 0
          BY <4>2
        <5> QED
          BY <1>1, <5>1, SafeIs
      <4>4. c1[f] = Chosen(a, 1, f).is
        BY <1>6, <3>3, <4>2, <4>3, AfterIs, ValuesAre DEF c1, Compression!Evaluated
      <4>5. c2[f] = c1[f]
        BY <1>6, <3>3, AfterIs DEF c2
      <4> QED
        BY <4>1, <4>4, <4>5 DEF TracksAt, LateOn, Final
    <3> QED
      BY <3>1, <3>2, <3>3
  <2> QED
    BY <1>4, <1>5, <2>1, <2>11, <2>14
<1> QED
  BY <1>4, <1>5, <1>6, <1>9, <1>10 DEF Goes

(* A safe action goes on: in the compressed plan it is over.                 *)
LEMMA SafeGoes ==
  ASSUME CompressionInv, NEW a \in Actions, a \in DOMAIN todo, a \in safe, Compression!Fire(a, todo[a])
  PROVE  Goes
<1> DEFINE i == todo[a]
<1>0. i = IF a \in DOMAIN todo THEN todo[a] ELSE 0
  OBVIOUS
<1>1. /\ SafeInv /\ UnderWay(todo) /\ StateOK(full) /\ StateOK(short) /\ StateOK(full') /\ covered
      /\ full' = After(a, i, full)
      /\ DOMAIN todo' = (DOMAIN todo \cup {a}) \ (IF i = Compression!End(Act(a)) THEN {a} ELSE {})
      /\ \A b \in DOMAIN todo' : todo'[b] = IF b = a THEN i + 1 ELSE todo[b]
      /\ ~disturbed' => (~disturbed /\ Unhindered(todo, a, i))
  BY <1>0, FireIs DEF CompressionInv
<1>2. Compression!End(Act(a)) = 2
  BY <1>1, SafeIs
<1>3. i \in 1 .. 2
  BY <1>2 DEF CompressionInv
<1>4. Compression!Compressed(a, i, Others(a))
  BY <1>0, FireIs
<1> HIDE DEF i
<1>5. UNCHANGED <<works, short, covered>>
  BY <1>3, <1>4 DEF Compression!Compressed
<1>6. ASSUME ~disturbed' PROVE works' /\ Tracks(full', short', todo')
  <2>1. Unhindered(todo, a, i) /\ works /\ Tracks(full, short, todo)
    BY <1>1, <1>6 DEF CompressionInv
  <2>2. \A b \in Actions, j \in 1 .. 2, f \in Fluent :
          LateAt(todo', b, j, f) <=> (LateAt(todo, b, j, f) /\ (b = a => j # i))
    <3> SUFFICES ASSUME NEW b \in Actions, NEW j \in 1 .. 2, NEW f \in Fluent
                 PROVE  LateAt(todo', b, j, f) <=> (LateAt(todo, b, j, f) /\ (b = a => j # i))
      OBVIOUS
    <3>1. CASE b # a
      <4>1. (b \in DOMAIN todo' <=> b \in DOMAIN todo) /\ (b \in DOMAIN todo => todo'[b] = todo[b])
        BY <1>1, <3>1
      <4> QED
        BY <3>1, <4>1 DEF LateAt
    <3>2. CASE b = a /\ i = 2
      <4>1. a \notin DOMAIN todo'
        BY <1>1, <1>2, <3>2
      <4>2. LateAt(todo, b, j, f) => j = i
        BY <3>2 DEF LateAt, i
      <4> QED
        BY <3>2, <4>1, <4>2 DEF LateAt
    <3>3. CASE b = a /\ i = 1
      <4>1. a \in DOMAIN todo' /\ todo'[a] = 2 /\ todo[a] = 1
        BY <1>1, <1>2, <3>3 DEF i
      <4> QED
        BY <3>3, <4>1 DEF LateAt
    <3> QED
      BY <1>3, <3>1, <3>2, <3>3
  <2>3. Tracks(full', short, todo')
    <3> SUFFICES ASSUME NEW f \in Fluent PROVE TracksAt(full', short, todo', f)
      BY DEF Tracks
    <3>1. TracksAt(full, short, todo, f)
      BY <2>1 DEF Tracks
    <3>2. CASE On(a, i, f) = {}
      <4>1. full'[f] = full[f]
        BY <1>1, <3>2, AfterIs
      <4>2. ~LateAt(todo, a, i, f)
        BY <3>2 DEF LateAt
      <4>3. \A b \in Actions, j \in 1 .. 2 : LateAt(todo', b, j, f) <=> LateAt(todo, b, j, f)
        BY <2>2, <4>2
      <4>4. TracksAt(full', short, todo, f)
        BY <3>1, <4>1 DEF TracksAt
      <4> QED
        BY <4>3, <4>4, SameTracks
    <3>3. CASE On(a, i, f) # {}
      <4>1. PICK e \in Act(a).effects : /\ e.at = i /\ e.fluent = f /\ Chosen(a, i, f) = e.value
                                        /\ e \in Compression!EffectsAt(a, i)
        BY <3>3, ChosenIs
      <4>2. LateAt(todo, a, i, f)
        BY <1>3, <3>3 DEF LateAt, i
      <4>3. PICK v \in BOOLEAN : Chosen(a, i, f) = Compression!Constant(v)
        BY <1>1, <1>3, <4>2, LateIs
      <4>4. Chosen(a, i, f).is = v
        BY <4>3, ValuesAre
      <4>5. full'[f] = v
        BY <1>1, <3>3, <4>3, AfterIs, ValuesAre DEF Compression!Evaluated
      <4>6. PICK b \in Actions, k \in 1 .. 2 : Final(todo, b, k, f) /\ short[f] = Chosen(b, k, f).is
        BY <1>3, <3>1, <4>2 DEF TracksAt, LateOn
      <4>7. LateAt(todo, b, k, f)
        BY <4>6 DEF Final
      <4>8. CASE b # a \/ k # i
        <5>1. LateAt(todo', b, k, f)
          BY <2>2, <4>7, <4>8
        <5>2. Final(todo', b, k, f)
          BY <4>6, <5>1 DEF Final
        <5> QED
          BY <4>6, <5>1, <5>2 DEF TracksAt, LateOn
      <4>9. CASE b = a /\ k = i
        <5>1. short[f] = v
          BY <4>4, <4>6, <4>9
        <5>2. CASE LateOn(todo', f)
          <6>1. PICK d \in Actions, j \in 1 .. 2 : LateAt(todo', d, j, f)
            BY <5>2 DEF LateOn
          <6>2. LateAt(todo, d, j, f) /\ (d = a => j # i)
            BY <2>2, <6>1
          <6>3. d # a
            <7> SUFFICES ASSUME d = a PROVE FALSE
              OBVIOUS
            <7>1. j # i /\ i <= j /\ On(a, j, f) # {}
              BY <6>2 DEF LateAt, i
            <7>2. j > i
              BY <1>3, <7>1
            <7> QED
              BY <4>6, <4>9, <7>1, <7>2 DEF Final
          <6>4. \A n \in DOMAIN todo' : todo'[n] \in Nat
            <7>1. \A n \in DOMAIN todo' : todo'[n] \in 1 .. Compression!End(Act(n))
              BY <1>0, FireIs DEF i
            <7>2. \A n : Compression!End(Act(n)) \in {0, 2}
              BY EndIs
            <7> QED
              BY <7>1, <7>2
          <6>5. PICK m \in 1 .. 2 : Final(todo', d, m, f)
            BY <6>1, <6>4, SomeFinal
          <6>6. LateAt(todo, d, m, f)
            BY <2>2, <6>5 DEF Final
          <6>7. Chosen(d, m, f) = Chosen(a, i, f)
            BY <1>1, <2>1, <4>1, <6>3, <6>6, Agrees
          <6> QED
            BY <4>4, <5>1, <5>2, <6>5, <6>7 DEF TracksAt
        <5>3. CASE ~LateOn(todo', f)
          BY <4>5, <5>1, <5>3 DEF TracksAt
        <5> QED
          BY <5>2, <5>3
      <4> QED
        BY <4>8, <4>9
    <3> QED
      BY <3>2, <3>3
  <2> QED
    BY <1>5, <2>1, <2>3
<1> QED
  BY <1>1, <1>5, <1>6 DEF Goes

-----------------------------------------------------------------------------
(* Neither the problem nor which of its actions are safe ever changes.       *)
LEMMA Frozen ==
  ASSUME problem' = problem, safe' = safe
  PROVE  /\ Actions' = Actions /\ Fluent' = Fluent
         /\ \A b : Act(b)' = Act(b)
         /\ \A b, i, f : On(b, i, f)' = On(b, i, f) /\ Chosen(b, i, f)' = Chosen(b, i, f)
<1>1. \A b : Act(b)' = Act(b)
  BY DEF Act, Compression!Action
<1>2. \A b, i, f : On(b, i, f)' = On(b, i, f)
  BY DEF On, Compression!EffectsAt, Compression!Action
<1>3. \A b, i, f : Chosen(b, i, f)' = Chosen(b, i, f)
  BY <1>2 DEF Chosen
<1> QED
  BY <1>1, <1>2, <1>3 DEF Actions, Fluent

(* So what is said of the states after a step may be said in terms of it.    *)
LEMMA TracksNext ==
  ASSUME problem' = problem, safe' = safe, Tracks(full', short', todo')
  PROVE  Tracks(full, short, todo)'
<1>1. /\ Actions' = Actions /\ Fluent' = Fluent
      /\ \A b, i, f : On(b, i, f)' = On(b, i, f) /\ Chosen(b, i, f)' = Chosen(b, i, f)
  BY Frozen
<1>2. \A b, i, f : LateAt(todo, b, i, f)' <=> LateAt(todo', b, i, f)
  BY <1>1 DEF LateAt
<1>3. \A f : LateOn(todo, f)' <=> LateOn(todo', f)
  BY <1>1, <1>2 DEF LateOn
<1>4. \A b, i, f : Final(todo, b, i, f)' <=> Final(todo', b, i, f)
  BY <1>1, <1>2 DEF Final
<1>5. \A f : TracksAt(full, short, todo, f)' <=> TracksAt(full', short', todo', f)
  BY <1>1, <1>3, <1>4 DEF TracksAt
<1> QED
  BY <1>1, <1>5 DEF Tracks

(* Every event keeps the invariant.                                          *)
LEMMA FireKeeps ==
  ASSUME CompressionInv, NEW a \in Actions, NEW i, i = IF a \in DOMAIN todo THEN todo[a] ELSE 0,
         Compression!Fire(a, i)
  PROVE  CompressionInv'
<1>1. Goes
  <2>1. CASE a \notin safe
    BY <2>1, NotSafeGoes
  <2>2. CASE a \in safe /\ a \notin DOMAIN todo
    <3>1. Compression!Fire(a, 0)
      BY <2>2
    <3> QED
      BY <2>2, <3>1, SafeStarts
  <2>3. CASE a \in safe /\ a \in DOMAIN todo
    <3>1. Compression!Fire(a, todo[a])
      BY <2>3
    <3> QED
      BY <2>3, <3>1, SafeGoes
  <2> QED
    BY <2>1, <2>2, <2>3
<1>2. /\ problem' = problem /\ safe' = safe /\ SafeInv /\ StateOK(full')
      /\ DOMAIN todo' \subseteq DOMAIN todo \cup {a}
      /\ \A b \in DOMAIN todo' : todo'[b] \in 1 .. Compression!End(Act(b))
      /\ Compression!AllHold(Compression!Active(todo'), full')
  BY FireIs
<1>3. Actions' = Actions /\ Fluent' = Fluent /\ \A b : Act(b)' = Act(b)
  BY <1>2, Frozen
<1>4. problem' \in CompressionProblems
      /\ safe' = Compression!SafeActions(problem)'
  BY <1>2, <1>3 DEF SafeInv, Compression!SafeActions, Compression!Safe, Compression!HasIntermediateConditions,
       Compression!EndConditions, Compression!OverallConditions, Compression!EffectsInterfere,
       Compression!ComplexFluents, Compression!AskedFor, Compression!Conditions
<1>5. StateOK(full)' /\ StateOK(short)'
  BY <1>1, <1>2, <1>3 DEF StateOK, Goes
<1>6. /\ DOMAIN todo' \subseteq Actions'
      /\ \A b \in DOMAIN todo' : todo'[b] \in 1 .. Compression!End(Act(b))'
  BY <1>2, <1>3 DEF CompressionInv, Compression!End
<1>7. Compression!AllHold(Compression!Active(todo), full)'
  BY <1>2 DEF Compression!AllHold, Compression!Active, Compression!Maintained, Compression!Action,
       Compression!Holds
<1>8. covered' /\ (~disturbed' => (works' /\ Tracks(full, short, todo)'))
  BY <1>1, <1>2, TracksNext DEF Goes
<1> QED
  BY <1>4, <1>5, <1>6, <1>7, <1>8 DEF CompressionInv

(* Where nothing has happened yet, both plans are in the initial state.      *)
LEMMA CompressionInit == Compression!Init => CompressionInv
<1> SUFFICES ASSUME Compression!Init PROVE CompressionInv
  OBVIOUS
<1>1. /\ problem \in CompressionProblems /\ full = problem.init /\ short = problem.init
      /\ todo = <<>> /\ works = TRUE /\ covered = TRUE /\ disturbed = FALSE
      /\ safe = Compression!SafeActions(problem)
  BY DEF Compression!Init, Actions
<1>2. DOMAIN todo = {}
  BY <1>1
<1>3. StateOK(full) /\ StateOK(short)
  BY <1>1, EncoderAssumption DEF Compression!CompressionAssumption, StateOK, Fluent
<1>4. Compression!AllHold(Compression!Active(todo), full)
  BY <1>2 DEF Compression!AllHold, Compression!Active
<1>5. Tracks(full, short, todo)
  BY <1>1, <1>2 DEF Tracks, TracksAt, LateOn, LateAt
<1> QED
  BY <1>1, <1>2, <1>3, <1>4, <1>5 DEF CompressionInv

(* Every step of the analysis keeps it.                                      *)
LEMMA CompressionNext == CompressionInv /\ Compression!Next => CompressionInv'
<1> SUFFICES ASSUME CompressionInv, Compression!Next PROVE CompressionInv'
  OBVIOUS
<1>1. PICK a \in Actions : Compression!Open(a) \/ Compression!Continue(a)
  BY DEF Compression!Next, Actions
<1>2. \E i : i = (IF a \in DOMAIN todo THEN todo[a] ELSE 0) /\ Compression!Fire(a, i)
  BY <1>1 DEF Compression!Open, Compression!Continue
<1> QED
  BY <1>2, FireKeeps

(* The other analyses have nothing to do with it.                            *)
LEMMA NextIInv == IInv /\ [Next]_vars => IInv'
<1> SUFFICES ASSUME IInv, [Next]_vars PROVE IInv'
  OBVIOUS
<1>1. CASE EventsStep \/ RelevanceStep \/ SymmetryStep \/ ExpressionsStep
  <2>1. analysis # "compression" /\ analysis' = analysis
    BY <1>1 DEF EventsStep, RelevanceStep, SymmetryStep, ExpressionsStep
  <2> QED
    BY <2>1 DEF IInv
<1>2. CASE CompressionStep
  <2>1. analysis = "compression" /\ Compression!Next
    BY <1>2 DEF CompressionStep
  <2> QED
    BY <2>1, CompressionNext DEF IInv
<1>3. CASE UNCHANGED vars
  <2>1. UNCHANGED <<analysis, problem, full, todo, safe, short, works, covered, disturbed>>
    BY <1>3 DEF vars, ofCompression
  <2>2. CompressionInv => CompressionInv'
    <3> SUFFICES ASSUME CompressionInv PROVE CompressionInv'
      OBVIOUS
    <3>1. Actions' = Actions /\ Fluent' = Fluent /\ \A b : Act(b)' = Act(b)
      BY <2>1, Frozen
    <3>2. ~disturbed' => Tracks(full, short, todo)'
      <4>1. ~disturbed => Tracks(full', short', todo')
        BY <2>1 DEF CompressionInv
      <4> QED
        BY <2>1, <4>1, TracksNext
    <3>3. safe' = Compression!SafeActions(problem)'
      BY <2>1, <3>1 DEF CompressionInv, Compression!SafeActions, Compression!Safe, Compression!HasIntermediateConditions,
           Compression!EndConditions, Compression!OverallConditions, Compression!EffectsInterfere,
           Compression!ComplexFluents, Compression!AskedFor, Compression!Conditions
    <3>4. Compression!AllHold(Compression!Active(todo), full)'
      BY <2>1 DEF CompressionInv, Compression!AllHold, Compression!Active, Compression!Maintained,
           Compression!Action, Compression!Holds
    <3>5. /\ StateOK(full)' /\ StateOK(short)' /\ problem' \in CompressionProblems
          /\ covered' /\ (~disturbed' => works')
          /\ DOMAIN todo' \subseteq Actions'
          /\ \A b \in DOMAIN todo' : todo'[b] \in 1 .. Compression!End(Act(b))'
      BY <2>1, <3>1 DEF CompressionInv, StateOK, Compression!End
    <3> QED
      BY <3>2, <3>3, <3>4, <3>5 DEF CompressionInv
  <2> QED
    BY <2>1, <2>2 DEF IInv
<1> QED
  BY <1>1, <1>2, <1>3 DEF Next

(* For every problem, plan and overlap of its actions: a chain of a safe     *)
(* action finds the conditions of its later events true, and as long as no   *)
(* event came in the way of an end that was moved, the compressed plan       *)
(* carries out what the plan does and meets its states                       *)
(* (_compression_safe_actions).                                              *)
THEOREM CompressionIsSafe == Spec => []CompressedPlanWorks
<1>1. Init => IInv
  BY CompressionInit DEF Init, IInv
<1>2. IInv => CompressedPlanWorks
  <2> SUFFICES ASSUME CompressionInv
               PROVE  Compression!EndsAreCovered /\ Compression!CompressedPlanWorks /\ Compression!StatesMeet
    BY DEF IInv, CompressedPlanWorks
  <2>1. covered /\ (~disturbed => (works /\ Tracks(full, short, todo)))
    BY DEF CompressionInv
  <2>2. ASSUME ~disturbed, todo = <<>> PROVE short = full
    <3>1. DOMAIN todo = {}
      BY <2>2
    <3>2. \A f \in Fluent : ~LateOn(todo, f)
      BY <3>1 DEF LateOn, LateAt
    <3>3. \A f \in Fluent : short[f] = full[f]
      BY <2>1, <2>2, <3>2 DEF Tracks, TracksAt
    <3> QED
      BY <3>3 DEF CompressionInv, StateOK
  <2> QED
    BY <2>1, <2>2 DEF Compression!EndsAreCovered, Compression!CompressedPlanWorks, Compression!StatesMeet
<1> QED
  BY <1>1, <1>2, NextIInv, PTL DEF Spec

-----------------------------------------------------------------------------
(* Relevance: what is pruned is never missed. The fluents take only values   *)
(* the relaxation gave them, so an action it calls unreachable is never over *)
(* once it was opened. As long as none was, the two plans agree on every     *)
(* fluent that matters and has a number, and what is left of the problem     *)
(* refers to no other.                                                       *)
Facts == Relevance!Fluent \X BOOLEAN
RState(s) == s \in [Relevance!Fluent -> BOOLEAN]

(* What is known of an action of a problem.                                  *)
LEMMA ActionIs ==
  ASSUME NEW p \in RelevanceProblems, NEW a \in Relevance!Actions(p)
  PROVE  /\ Relevance!EventsOf(p, a) \in Seq(Relevance!EventSet(p, a))
         /\ Relevance!EventsOf(p, a) # <<>>
         /\ \A e \in Relevance!EventSet(p, a) :
              Relevance!ConditionWellFormed(e.pre) /\ Relevance!EffectsWellFormed(e.effects)
         /\ Relevance!ConditionWellFormed(p.actions[a].maintained)
         /\ Len(Relevance!EventsOf(p, a)) = 1 => DOMAIN p.actions[a].maintained = {}
         /\ Relevance!ReadByBounds(p, a) \subseteq Relevance!Fluent
BY EncoderAssumption DEF Relevance!RelevanceAssumption, Relevance!ProblemWellFormed, Relevance!ActionWellFormed

(* The event at an instant of an action is one of its events.                *)
LEMMA EventIs ==
  ASSUME NEW p \in RelevanceProblems, NEW a \in Relevance!Actions(p), NEW i \in DOMAIN Relevance!EventsOf(p, a)
  PROVE  /\ i \in Nat /\ 1 <= i /\ i <= Len(Relevance!EventsOf(p, a))
         /\ Relevance!EventsOf(p, a)[i] \in Relevance!EventSet(p, a)
BY ActionIs

(* The parts of a problem that are read belong to it.                        *)
LEMMA ProblemIs ==
  ASSUME NEW p \in RelevanceProblems
  PROVE  /\ RState(p.init)
         /\ p.timed # Relevance!NoTimed => p.timed \in Relevance!Applicable(p)
         /\ DOMAIN p.goal \subseteq Relevance!Fluent
         /\ Relevance!Applicable(p) \subseteq Relevance!Actions(p)
BY EncoderAssumption DEF Relevance!RelevanceAssumption, Relevance!ProblemWellFormed,
   Relevance!ConditionWellFormed, RState, Relevance!Applicable

(* An event adds values of fluents.                                          *)
LEMMA AddedIn ==
  ASSUME NEW e, Relevance!EffectsWellFormed(e.effects)
  PROVE  Relevance!Added(e) \subseteq Facts
<1> SUFFICES ASSUME NEW f \in DOMAIN e.effects PROVE {f} \X Relevance!Outcomes(e.effects[f]) \subseteq Facts
  BY DEF Relevance!Added
<1>1. f \in Relevance!Fluent
  BY DEF Relevance!EffectsWellFormed
<1>2. Relevance!Outcomes(e.effects[f]) \subseteq BOOLEAN
  BY DEF Relevance!EffectsWellFormed, Relevance!Outcomes, Relevance!Constant, Relevance!Value
<1> QED
  BY <1>1, <1>2 DEF Facts

(* What one round reaches are values of fluents.                             *)
LEMMA ReachIn ==
  ASSUME NEW p \in RelevanceProblems, NEW facts
  PROVE  Relevance!Reach(p, facts) \subseteq Facts
<1> SUFFICES ASSUME NEW a \in Relevance!Applicable(p), NEW i \in Relevance!Operators(p, a)
             PROVE  Relevance!Added(Relevance!EventsOf(p, a)[i]) \subseteq Facts
  BY DEF Relevance!Reach
<1>1. i \in DOMAIN Relevance!EventsOf(p, a) /\ a \in Relevance!Actions(p)
  BY ProblemIs DEF Relevance!Operators
<1>2. Relevance!EventsOf(p, a)[i] \in Relevance!EventSet(p, a)
  BY <1>1, EventIs
<1> QED
  BY <1>1, <1>2, ActionIs, AddedIn

(* From more values a round reaches no fewer.                                *)
LEMMA ReachGrows ==
  ASSUME NEW p \in RelevanceProblems, NEW facts, NEW more, facts \subseteq more
  PROVE  Relevance!Reach(p, facts) \subseteq Relevance!Reach(p, more)
<1>1. \A a, i : Relevance!Fireable(p, a, i, facts) => Relevance!Fireable(p, a, i, more)
  BY DEF Relevance!Fireable, Relevance!Possible
<1> QED
  BY <1>1 DEF Relevance!Reach

(* The reachable facts are those of the beginning and closed under what the  *)
(* events add.                                                               *)
LEMMA ReachedIs ==
  ASSUME NEW p \in RelevanceProblems, NEW from, RState(from)
  PROVE  /\ \A f \in Relevance!Fluent : <<f, from[f]>> \in Relevance!Reached(p, from)
         /\ Relevance!Reach(p, Relevance!Reached(p, from)) \subseteq Relevance!Reached(p, from)
<1> DEFINE seed == {<<f, from[f]>> : f \in Relevance!Fluent}
           reached == Relevance!Reached(p, from)
           Closed(s) == s \subseteq Facts /\ seed \subseteq s /\ Relevance!Reach(p, s) \subseteq s
<1>1. reached = {x \in Facts : \A s : Closed(s) => x \in s}
  BY DEF Relevance!Reached, Relevance!Closure, Facts
<1>2. seed \subseteq Facts
  BY DEF RState, Facts
<1>3. seed \subseteq reached
  BY <1>1, <1>2
<1>4. ASSUME NEW x \in Relevance!Reach(p, reached) PROVE x \in reached
  <2>1. x \in Facts
    BY ReachIn
  <2>2. ASSUME NEW s, Closed(s) PROVE x \in s
    <3>1. reached \subseteq s
      BY <1>1, <2>2
    <3> QED
      BY <3>1, <2>2, ReachGrows
  <2> QED
    BY <1>1, <2>1, <2>2
<1> QED
  BY <1>3, <1>4

-----------------------------------------------------------------------------
(* A constant reads nothing.                                                 *)
LEMMA ValueIs ==
  /\ \A v : /\ Relevance!ValueReads(Relevance!Constant(v)) = {}
            /\ Relevance!Outcomes(Relevance!Constant(v)) = {v}
            /\ \A s : Relevance!Evaluated(Relevance!Constant(v), s) = v
  /\ \A f : /\ Relevance!ValueReads(Relevance!Value(f)) = {f}
            /\ Relevance!Outcomes(Relevance!Value(f)) = BOOLEAN
            /\ \A s : Relevance!Evaluated(Relevance!Value(f), s) = s[f]
BY DEF Relevance!ValueReads, Relevance!Constant, Relevance!Value, Relevance!Outcomes, Relevance!Evaluated

(* What an action reads are fluents.                                         *)
LEMMA ReadsIn ==
  ASSUME NEW p \in RelevanceProblems, NEW a \in Relevance!Actions(p)
  PROVE  /\ Relevance!ReadFluents(p, a) \subseteq Relevance!Fluent
         /\ Relevance!Writes(p, a) \subseteq Relevance!Fluent
         /\ \A f : Relevance!ReadByEffects(p, a, f) \subseteq Relevance!Fluent
         /\ Relevance!Depends(p, a) \subseteq Relevance!Fluent
<1>1. Relevance!ReadFluents(p, a) \subseteq Relevance!Fluent
  <2>1. \A e \in Relevance!EventSet(p, a) : DOMAIN e.pre \subseteq Relevance!Fluent
    BY ActionIs DEF Relevance!ConditionWellFormed
  <2>2. DOMAIN p.actions[a].maintained \subseteq Relevance!Fluent
    BY ActionIs DEF Relevance!ConditionWellFormed
  <2>3. Relevance!ReadByBounds(p, a) \subseteq Relevance!Fluent
    BY ActionIs
  <2> SUFFICES ASSUME NEW f \in Relevance!ReadFluents(p, a) PROVE f \in Relevance!Fluent
    OBVIOUS
  <2>4. \/ \E e \in Relevance!EventSet(p, a) : f \in DOMAIN e.pre
        \/ f \in DOMAIN p.actions[a].maintained
        \/ f \in Relevance!ReadByBounds(p, a)
    BY DEF Relevance!ReadFluents
  <2> QED
    BY <2>1, <2>2, <2>3, <2>4
<1>2. Relevance!Writes(p, a) \subseteq Relevance!Fluent
  BY ActionIs DEF Relevance!Writes, Relevance!EffectsWellFormed
<1>3. ASSUME NEW f PROVE Relevance!ReadByEffects(p, a, f) \subseteq Relevance!Fluent
  <2> SUFFICES ASSUME NEW e \in Relevance!EventSet(p, a), f \in DOMAIN e.effects
               PROVE  Relevance!ValueReads(e.effects[f]) \subseteq Relevance!Fluent
    BY DEF Relevance!ReadByEffects
  <2>1. \/ \E v \in BOOLEAN : e.effects[f] = Relevance!Constant(v)
        \/ \E g \in Relevance!Fluent : e.effects[f] = Relevance!Value(g)
    BY ActionIs DEF Relevance!EffectsWellFormed
  <2> QED
    BY <2>1, ValueIs
<1> QED
  BY <1>1, <1>2, <1>3 DEF Relevance!Depends

(* What matters is what is asked for in the end, and with an action that     *)
(* serves it all the action depends on.                                      *)
LEMMA MattersIs ==
  ASSUME NEW p \in RelevanceProblems, NEW reachable, reachable \subseteq Relevance!Actions(p)
  PROVE  /\ Relevance!Matters(p, reachable) \subseteq Relevance!Fluent
         /\ Relevance!GoalReads(p) \cup Relevance!TimedReads(p) \subseteq Relevance!Matters(p, reachable)
         /\ \A a \in Relevance!Serving(p, reachable, Relevance!Matters(p, reachable)) :
              Relevance!Depends(p, a) \subseteq Relevance!Matters(p, reachable)
<1> DEFINE seed == Relevance!GoalReads(p) \cup Relevance!TimedReads(p)
           matters == Relevance!Matters(p, reachable)
           Grown(s) == UNION {Relevance!Depends(p, a) : a \in Relevance!Serving(p, reachable, s)}
           Closed(s) == s \subseteq Relevance!Fluent /\ seed \subseteq s /\ Grown(s) \subseteq s
<1>1. matters = {x \in Relevance!Fluent : \A s : Closed(s) => x \in s}
  BY DEF Relevance!Matters, Relevance!Closure
<1>2. seed \subseteq Relevance!Fluent
  BY ProblemIs, ReadsIn DEF Relevance!GoalReads, Relevance!TimedReads
<1>3. seed \subseteq matters
  BY <1>1, <1>2
<1>4. ASSUME NEW x \in Grown(matters) PROVE x \in matters
  <2>1. x \in Relevance!Fluent
    BY ReadsIn DEF Relevance!Serving
  <2>2. ASSUME NEW s, Closed(s) PROVE x \in s
    <3>1. matters \subseteq s
      BY <1>1, <2>2
    <3>2. Relevance!Serving(p, reachable, matters) \subseteq Relevance!Serving(p, reachable, s)
      BY <3>1 DEF Relevance!Serving
    <3>3. x \in Grown(s)
      BY <3>2
    <3> QED
      BY <3>3, <2>2
  <2> QED
    BY <1>1, <2>1, <2>2
<1>5. \A a \in Relevance!Serving(p, reachable, matters) : Relevance!Depends(p, a) \subseteq matters
  BY <1>4
<1> QED
  BY <1>1, <1>3, <1>5

(* What is kept is what is read by what is left, and by its effects on what  *)
(* is kept.                                                                  *)
LEMMA RelevantFluentsIs ==
  ASSUME NEW p \in RelevanceProblems, NEW actions, actions \subseteq Relevance!Actions(p)
  PROVE  LET left == Relevance!RelevantFluents(p, actions)
         IN  /\ left \subseteq Relevance!Fluent
             /\ Relevance!GoalReads(p) \subseteq left
             /\ \A a \in actions :
                  /\ Relevance!ReadFluents(p, a) \subseteq left
                  /\ \A f \in left \cap Relevance!Writes(p, a) : Relevance!ReadByEffects(p, a, f) \subseteq left
<1> DEFINE seed == Relevance!GoalReads(p) \cup UNION {Relevance!ReadFluents(p, a) : a \in actions}
           left == Relevance!RelevantFluents(p, actions)
           Grown(s) == UNION {UNION {Relevance!ReadByEffects(p, a, f) : f \in s \cap Relevance!Writes(p, a)} : a \in actions}
           Closed(s) == s \subseteq Relevance!Fluent /\ seed \subseteq s /\ Grown(s) \subseteq s
<1>1. left = {x \in Relevance!Fluent : \A s : Closed(s) => x \in s}
  BY DEF Relevance!RelevantFluents, Relevance!Closure
<1>2. seed \subseteq Relevance!Fluent
  BY ProblemIs, ReadsIn DEF Relevance!GoalReads
<1>3. seed \subseteq left
  BY <1>1, <1>2
<1>4. ASSUME NEW x \in Grown(left) PROVE x \in left
  <2>1. PICK a \in actions : \E f \in left \cap Relevance!Writes(p, a) : x \in Relevance!ReadByEffects(p, a, f)
    OBVIOUS
  <2>2. x \in Relevance!Fluent
    BY <2>1, ReadsIn
  <2>3. ASSUME NEW s, Closed(s) PROVE x \in s
    <3>1. left \subseteq s
      BY <1>1, <2>3
    <3>2. x \in Grown(s)
      BY <3>1, <2>1
    <3> QED
      BY <3>2, <2>3
  <2> QED
    BY <1>1, <2>2, <2>3
<1>5. \A a \in actions : \A f \in left \cap Relevance!Writes(p, a) : Relevance!ReadByEffects(p, a, f) \subseteq left
  BY <1>4
<1> QED
  BY <1>1, <1>3, <1>5

-----------------------------------------------------------------------------
(* There are finitely many fluents.                                          *)
LEMMA FluentsFinite == IsFiniteSet(Relevance!Fluent)
<1>1. Fluents \in Seq(Relevance!Fluent)
  BY EncoderAssumption DEF Relevance!RelevanceAssumption
<1>2. Relevance!Fluent = {Fluents[i] : i \in 1 .. Len(Fluents)}
  BY <1>1 DEF Relevance!Fluent, Relevance!ToSet
<1>3. IsFiniteSet(1 .. Len(Fluents))
  BY <1>1, FS_Interval
<1> QED
  <2>1. Fluents \in [1 .. Len(Fluents) -> Relevance!Fluent]
    BY <1>1
  <2>2. Fluents \in Surjection(1 .. Len(Fluents), Relevance!Fluent)
    BY <2>1, <1>2 DEF Surjection
  <2> QED
    BY <2>2, <1>3, FS_Surjection

(* The number of members of a set is the same in every module.               *)
LEMMA CardinalityIs == \A S : Relevance!Cardinality(S) = Cardinality(S)
BY DEF Relevance!Cardinality, Cardinality

(* Numbering gives each fluent a number of its own.                          *)
LEMMA NumberedIs ==
  ASSUME NEW fs, fs \subseteq Relevance!Fluent
  PROVE  /\ DOMAIN Relevance!Numbered(fs) = fs
         /\ \A f \in fs : Relevance!Numbered(fs)[f] \in 1 .. Cardinality(fs)
         /\ \A f, g \in fs : Relevance!Numbered(fs)[f] = Relevance!Numbered(fs)[g] => f = g
<1> DEFINE upTo(f) == {g \in fs : Relevance!Place(g) <= Relevance!Place(f)}
<1>1. Fluents \in Seq(Relevance!Fluent) /\ Relevance!Fluent = {Fluents[i] : i \in DOMAIN Fluents}
  BY EncoderAssumption DEF Relevance!RelevanceAssumption, Relevance!Fluent, Relevance!ToSet
<1>2. ASSUME NEW f \in fs PROVE Relevance!Place(f) \in Nat /\ Fluents[Relevance!Place(f)] = f
  <2>1. \E n \in DOMAIN Fluents : Fluents[n] = f
    BY <1>1
  <2> QED
    BY <1>1, <2>1 DEF Relevance!Place
<1>3. IsFiniteSet(fs)
  BY FluentsFinite, FS_Subset
<1>4. ASSUME NEW f \in fs PROVE IsFiniteSet(upTo(f)) /\ Cardinality(upTo(f)) \in 1 .. Cardinality(fs)
  <2>1. IsFiniteSet(upTo(f)) /\ Cardinality(upTo(f)) <= Cardinality(fs)
    BY <1>3, FS_Subset
  <2>2. f \in upTo(f)
    BY <1>2
  <2>3. Cardinality(upTo(f)) \in Nat /\ Cardinality(upTo(f)) # 0
    BY <2>1, <2>2, FS_CardinalityType, FS_EmptySet
  <2>4. Cardinality(fs) \in Nat
    BY <1>3, FS_CardinalityType
  <2> QED
    BY <2>1, <2>3, <2>4
<1>5. ASSUME NEW f \in fs, NEW g \in fs, Relevance!Place(f) < Relevance!Place(g) PROVE Cardinality(upTo(f)) < Cardinality(upTo(g))
  <2>1. upTo(f) \subseteq upTo(g) /\ g \in upTo(g) /\ g \notin upTo(f)
    BY <1>2, <1>5
  <2>2. upTo(f) # upTo(g)
    BY <2>1
  <2> HIDE DEF upTo
  <2> QED
    BY <1>4, <2>1, <2>2, FS_Subset
<1>6. ASSUME NEW f \in fs, NEW g \in fs, f # g PROVE Cardinality(upTo(f)) # Cardinality(upTo(g))
  <2>1. Relevance!Place(f) # Relevance!Place(g)
    BY <1>2, <1>6
  <2>2. Cardinality(upTo(f)) \in Nat /\ Cardinality(upTo(g)) \in Nat
    BY <1>4, FS_CardinalityType
  <2>3. Relevance!Place(f) < Relevance!Place(g) \/ Relevance!Place(g) < Relevance!Place(f)
    BY <1>2, <2>1
  <2> HIDE DEF upTo
  <2> QED
    BY <1>5, <2>2, <2>3
<1>7. DOMAIN Relevance!Numbered(fs) = fs /\ \A f \in fs : Relevance!Numbered(fs)[f] = Cardinality(upTo(f))
  BY CardinalityIs DEF Relevance!Numbered
<1> HIDE DEF upTo
<1> QED
  BY <1>4, <1>6, <1>7

-----------------------------------------------------------------------------
(* What an event makes of a state.                                           *)
LEMMA EventAfter ==
  ASSUME NEW e, Relevance!EffectsWellFormed(e.effects), NEW s, RState(s)
  PROVE  /\ RState(Relevance!After(e, s))
         /\ \A f \in Relevance!Fluent :
              Relevance!After(e, s)[f] = IF f \in DOMAIN e.effects THEN Relevance!Evaluated(e.effects[f], s) ELSE s[f]
         /\ \A f \in DOMAIN e.effects : <<f, Relevance!After(e, s)[f]>> \in Relevance!Added(e)
<1>1. DOMAIN s = Relevance!Fluent
  BY DEF RState
<1>2. \A f \in Relevance!Fluent :
        Relevance!After(e, s)[f] = IF f \in DOMAIN e.effects THEN Relevance!Evaluated(e.effects[f], s) ELSE s[f]
  BY <1>1 DEF Relevance!After
<1>3. Relevance!After(e, s) = [f \in Relevance!Fluent |-> Relevance!After(e, s)[f]]
  BY <1>1 DEF Relevance!After
<1>4. ASSUME NEW f \in DOMAIN e.effects
      PROVE  /\ f \in Relevance!Fluent
             /\ Relevance!Evaluated(e.effects[f], s) \in BOOLEAN
             /\ Relevance!Evaluated(e.effects[f], s) \in Relevance!Outcomes(e.effects[f])
  <2>1. f \in Relevance!Fluent
    BY DEF Relevance!EffectsWellFormed
  <2>2. \/ \E v \in BOOLEAN : e.effects[f] = Relevance!Constant(v)
        \/ \E g \in Relevance!Fluent : e.effects[f] = Relevance!Value(g)
    BY DEF Relevance!EffectsWellFormed
  <2>3. CASE \E v \in BOOLEAN : e.effects[f] = Relevance!Constant(v)
    BY <2>1, <2>3, ValueIs
  <2>4. CASE \E g \in Relevance!Fluent : e.effects[f] = Relevance!Value(g)
    <3>1. PICK g \in Relevance!Fluent : e.effects[f] = Relevance!Value(g)
      BY <2>4
    <3>2. s[g] \in BOOLEAN
      BY DEF RState
    <3> QED
      BY <2>1, <3>1, <3>2, ValueIs
  <2> QED
    BY <2>2, <2>3, <2>4
<1>5. \A f \in Relevance!Fluent : Relevance!After(e, s)[f] \in BOOLEAN
  BY <1>2, <1>4 DEF RState
<1>6. RState(Relevance!After(e, s))
  BY <1>3, <1>5 DEF RState
<1>7. ASSUME NEW f \in DOMAIN e.effects PROVE <<f, Relevance!After(e, s)[f]>> \in Relevance!Added(e)
  <2>1. Relevance!After(e, s)[f] \in Relevance!Outcomes(e.effects[f])
    BY <1>2, <1>4
  <2> QED
    BY <2>1 DEF Relevance!Added
<1> QED
  BY <1>2, <1>6, <1>7

(* The plan begins in a state, where the timed action's bounds hold.         *)
LEMMA BeginningIs ==
  ASSUME NEW p \in RelevanceProblems
  PROVE  RState(Relevance!Beginning(p))
<1>1. CASE p.timed = Relevance!NoTimed
  BY <1>1, ProblemIs DEF Relevance!Beginning
<1>2. CASE p.timed # Relevance!NoTimed
  <2>1. p.timed \in Relevance!Actions(p)
    BY <1>2, ProblemIs
  <2>2. 1 \in DOMAIN Relevance!EventsOf(p, p.timed)
    BY <2>1, ActionIs
  <2>3. Relevance!EffectsWellFormed(Relevance!FirstOf(p).effects)
    BY <2>1, <2>2, EventIs, ActionIs DEF Relevance!FirstOf
  <2> QED
    BY <1>2, <2>3, ProblemIs, EventAfter DEF Relevance!Beginning
<1> QED
  BY <1>1, <1>2

-----------------------------------------------------------------------------
(* What is found about a problem: the values its fluents may take, the       *)
(* actions that can be carried out, the actions worth following, the fluents *)
(* worth watching, and those of them that have a number.                     *)
FactsOf(p) == Relevance!Reached(p, Relevance!Beginning(p))
ReachableOf(p) == Relevance!ReachableActions(p, Relevance!Beginning(p))
Helpful(p, on) == IF on.actions THEN ReachableOf(p) ELSE Relevance!Applicable(p)
Watched(p, on) == IF on.actions THEN Relevance!Matters(p, ReachableOf(p)) ELSE Relevance!Fluent
Seen(p, on, numbers) == Watched(p, on) \cap DOMAIN numbers
Options == [actions : BOOLEAN, fluents : BOOLEAN]
KeptFluents(p, on, left) == IF on.fluents THEN Relevance!RelevantFluents(p, left) ELSE Relevance!Fluent

(* What is left of the problem refers only to what is watched and has a      *)
(* number, and what is pruned writes nothing of that.                        *)
EncodedRight(p, on, left, numbers) ==
  /\ left \subseteq Relevance!Applicable(p)
  /\ DOMAIN numbers \subseteq Relevance!Fluent
  /\ \A f \in DOMAIN numbers : numbers[f] \in 1 .. Cardinality(DOMAIN numbers)
  /\ \A f, g \in DOMAIN numbers : numbers[f] = numbers[g] => f = g
  /\ Relevance!GoalReads(p) \subseteq Seen(p, on, numbers)
  /\ \A a \in left : Relevance!ReadFluents(p, a) \subseteq Seen(p, on, numbers)
  /\ \A a \in left \cap Helpful(p, on) : \A f \in Relevance!Writes(p, a) \cap Seen(p, on, numbers) :
       Relevance!ReadByEffects(p, a, f) \subseteq Seen(p, on, numbers)
  /\ \A a \in Helpful(p, on) \ left : Relevance!Writes(p, a) \cap Watched(p, on) = {}

(* The analyses see to that.                                                 *)
LEMMA EncodingIs ==
  ASSUME NEW p \in RelevanceProblems, NEW on \in Options, Relevance!Begins(p),
         NEW left, left = Relevance!Considered(p, on),
         NEW numbers, numbers = Relevance!Numbered(KeptFluents(p, on, left))
  PROVE  EncodedRight(p, on, left, numbers)
<1> DEFINE kept_ == KeptFluents(p, on, left)
           matters == Relevance!Matters(p, ReachableOf(p))
<1>1. Relevance!Applicable(p) \subseteq Relevance!Actions(p) /\ ReachableOf(p) \subseteq Relevance!Applicable(p)
  BY ProblemIs DEF ReachableOf, Relevance!ReachableActions
<1>2. on.actions => left = Relevance!Serving(p, ReachableOf(p), matters) \cup ({p.timed} \ {Relevance!NoTimed})
  BY DEF Relevance!Considered, Relevance!RelevantActions, ReachableOf
<1>3. ~on.actions => left = Relevance!Applicable(p)
  BY DEF Relevance!Considered
<1>4. Relevance!Serving(p, ReachableOf(p), matters) \subseteq ReachableOf(p)
  BY DEF Relevance!Serving
<1>5. left \subseteq Relevance!Applicable(p)
  BY <1>1, <1>2, <1>3, <1>4, ProblemIs
<1>6. kept_ \subseteq Relevance!Fluent
  BY <1>1, <1>5, RelevantFluentsIs DEF KeptFluents
<1>7. /\ DOMAIN numbers = kept_
      /\ \A f \in DOMAIN numbers : numbers[f] \in 1 .. Cardinality(DOMAIN numbers)
      /\ \A f, g \in DOMAIN numbers : numbers[f] = numbers[g] => f = g
  BY <1>6, NumberedIs
<1>8. /\ matters \subseteq Relevance!Fluent
      /\ Relevance!GoalReads(p) \cup Relevance!TimedReads(p) \subseteq matters
      /\ \A a \in Relevance!Serving(p, ReachableOf(p), matters) : Relevance!Depends(p, a) \subseteq matters
  BY <1>1, MattersIs
<1>9. Relevance!GoalReads(p) \subseteq kept_ /\ Relevance!GoalReads(p) \subseteq Watched(p, on)
  <2>1. Relevance!GoalReads(p) \subseteq Relevance!Fluent
    BY ProblemIs DEF Relevance!GoalReads
  <2>2. Relevance!GoalReads(p) \subseteq kept_
    BY <2>1, <1>1, <1>5, RelevantFluentsIs DEF KeptFluents
  <2> QED
    BY <2>1, <2>2, <1>8 DEF Watched
<1>10. ASSUME NEW a \in left PROVE Relevance!ReadFluents(p, a) \subseteq kept_ /\ Relevance!ReadFluents(p, a) \subseteq Watched(p, on)
  <2>1. Relevance!ReadFluents(p, a) \subseteq Relevance!Fluent
    BY <1>1, <1>5, ReadsIn
  <2>2. Relevance!ReadFluents(p, a) \subseteq kept_
    BY <2>1, <1>1, <1>5, RelevantFluentsIs DEF KeptFluents
  <2>3. CASE ~on.actions
    BY <2>1, <2>2, <2>3 DEF Watched
  <2>4. CASE on.actions /\ a \in Relevance!Serving(p, ReachableOf(p), matters)
    BY <2>2, <2>4, <1>8 DEF Watched, Relevance!Depends
  <2>5. CASE on.actions /\ a = p.timed /\ p.timed # Relevance!NoTimed
    BY <2>2, <2>5, <1>8 DEF Watched, Relevance!TimedReads
  <2> QED
    BY <1>2, <2>3, <2>4, <2>5
<1>11. ASSUME NEW a \in left \cap Helpful(p, on), NEW f \in Relevance!Writes(p, a) \cap Seen(p, on, numbers)
       PROVE  Relevance!ReadByEffects(p, a, f) \subseteq Seen(p, on, numbers)
  <2>1. f \in kept_ /\ f \in Watched(p, on)
    BY <1>7 DEF Seen
  <2>2. Relevance!ReadByEffects(p, a, f) \subseteq Relevance!Fluent
    BY <1>1, <1>5, ReadsIn
  <2>3. Relevance!ReadByEffects(p, a, f) \subseteq kept_
    BY <2>1, <2>2, <1>1, <1>5, RelevantFluentsIs DEF KeptFluents
  <2>4. CASE ~on.actions
    BY <2>2, <2>3, <2>4, <1>7 DEF Watched, Seen
  <2>5. CASE on.actions
    <3>1. a \in Relevance!Serving(p, ReachableOf(p), matters)
      BY <2>1, <2>5 DEF Relevance!Serving, Helpful, Watched
    <3>2. Relevance!ReadByEffects(p, a, f) \subseteq Relevance!Depends(p, a)
      BY DEF Relevance!Depends
    <3> QED
      BY <2>3, <2>5, <3>1, <3>2, <1>7, <1>8 DEF Watched, Seen
  <2> QED
    BY <2>4, <2>5
<1>12. ASSUME NEW a \in Helpful(p, on) \ left PROVE Relevance!Writes(p, a) \cap Watched(p, on) = {}
  <2>1. on.actions
    BY <1>3 DEF Helpful
  <2>2. a \in ReachableOf(p) /\ a \notin Relevance!Serving(p, ReachableOf(p), matters)
    BY <2>1, <1>2 DEF Helpful
  <2> QED
    BY <2>1, <2>2 DEF Relevance!Serving, Watched
<1> HIDE DEF kept_
<1>13. Relevance!GoalReads(p) \subseteq Seen(p, on, numbers)
  BY <1>7, <1>9 DEF Seen
<1>14. \A a \in left : Relevance!ReadFluents(p, a) \subseteq Seen(p, on, numbers)
  BY <1>7, <1>10 DEF Seen
<1> QED
  BY <1>5, <1>6, <1>7, <1>11, <1>12, <1>13, <1>14 DEF EncodedRight

-----------------------------------------------------------------------------
RelevanceSettled ==
  /\ problem \in RelevanceProblems /\ options \in Options
  /\ begins = Relevance!Begins(problem)
  /\ considered = Relevance!Considered(problem, options)
  /\ slots = Relevance!Numbered(KeptFluents(problem, options, considered))
  /\ durationSlot = Relevance!DurationSlots(problem, considered, Relevance!Numbered(Relevance!Fluent), slots)

Held(a) == problem.actions[a].maintained
Events_(a) == Relevance!EventsOf(problem, a)
Last(a) == Len(Events_(a))
(* An action under way has another event to come, keeps its condition, and   *)
(* its events so far could fire.                                             *)
Ongoing(a, i, s) ==
  /\ i \in 2 .. Last(a) /\ Relevance!Satisfied(Held(a), s)
  /\ Relevance!Fireable(problem, a, i - 1, FactsOf(problem))
(* The encoded problem agrees with the problem on all that is seen.          *)
Agree(s, t) == \A f \in Seen(problem, options, slots) : t[slots[f]] = s[f]
Followed(s, t, td, ok) == (\E a \in DOMAIN td : a \notin Helpful(problem, options)) \/ (ok /\ Agree(s, t))
RelevanceState(s, t, td, ok) ==
  /\ RState(s) /\ \A f \in Relevance!Fluent : <<f, s[f]>> \in FactsOf(problem)
  /\ DOMAIN td \subseteq Relevance!Applicable(problem)
  /\ \A a \in DOMAIN td : Ongoing(a, td[a], s)
  /\ DOMAIN t = 1 .. Cardinality(DOMAIN slots)
  /\ Followed(s, t, td, ok)
RelevanceInv == RelevanceSettled /\ (begins => RelevanceState(full, slim, todo, kept))

(* What follows from how the problem is encoded.                             *)
LEMMA SettledIs ==
  ASSUME RelevanceSettled, begins
  PROVE  /\ considered \subseteq Relevance!Applicable(problem)
         /\ Relevance!Applicable(problem) \subseteq Relevance!Actions(problem)
         /\ \A f \in DOMAIN slots : slots[f] \in 1 .. Cardinality(DOMAIN slots)
         /\ \A f, g \in DOMAIN slots : slots[f] = slots[g] => f = g
         /\ Seen(problem, options, slots) \subseteq DOMAIN slots
         /\ Seen(problem, options, slots) \subseteq Relevance!Fluent
         /\ Relevance!GoalReads(problem) \subseteq Seen(problem, options, slots)
         /\ \A a \in considered : Relevance!ReadFluents(problem, a) \subseteq Seen(problem, options, slots)
         /\ \A a \in considered \cap Helpful(problem, options) :
              \A f \in Relevance!Writes(problem, a) \cap Seen(problem, options, slots) :
                Relevance!ReadByEffects(problem, a, f) \subseteq Seen(problem, options, slots)
         /\ \A a \in Helpful(problem, options) \ considered :
              Relevance!Writes(problem, a) \cap Watched(problem, options) = {}
<1>1. Relevance!Applicable(problem) \subseteq Relevance!Actions(problem)
  BY ProblemIs DEF RelevanceSettled
<1>2. EncodedRight(problem, options, considered, slots)
  BY EncodingIs DEF RelevanceSettled
<1>3. Seen(problem, options, slots) \subseteq DOMAIN slots
  BY DEF Seen
<1> QED
  BY <1>1, <1>2, <1>3 DEF EncodedRight

(* A duration the encoded problem reads is read from the fluent's number.    *)
LEMMA DurationIs ==
  ASSUME RelevanceSettled, begins, NEW a \in considered, durationSlot[a] # 0
  PROVE  /\ problem.actions[a].duration \in Seen(problem, options, slots)
         /\ durationSlot[a] = slots[problem.actions[a].duration]
<1> DEFINE d == problem.actions[a].duration
<1>1. a \in Relevance!Actions(problem)
  BY SettledIs
<1>2. /\ Relevance!ReadByBounds(problem, a) # {}
      /\ durationSlot[a] = Relevance!NumberIn(slots, d)
  BY <1>1 DEF RelevanceSettled, Relevance!DurationSlots
<1>3. d \in Relevance!ReadByBounds(problem, a)
  BY <1>2 DEF Relevance!ReadByBounds
<1>4. d \in Relevance!ReadFluents(problem, a)
  BY <1>3 DEF Relevance!ReadFluents
<1>5. d \in Seen(problem, options, slots)
  BY <1>4, SettledIs
<1>6. d \in DOMAIN slots
  BY <1>5, SettledIs
<1> QED
  BY <1>2, <1>5, <1>6 DEF Relevance!NumberIn

(* A condition of what is left comes out in the encoded problem as in the    *)
(* problem.                                                                  *)
LEMMA SameTruth ==
  ASSUME NEW c, DOMAIN c \subseteq Seen(problem, options, slots), NEW s, NEW t, Agree(s, t)
  PROVE  Relevance!SlimSatisfied(c, t) <=> Relevance!Satisfied(c, s)
BY DEF Agree, Relevance!SlimSatisfied, Relevance!Satisfied

(* So does what is assigned to a fluent that is seen.                        *)
LEMMA SameEffect ==
  ASSUME RelevanceSettled, begins, NEW a \in considered \cap Helpful(problem, options),
         NEW i \in DOMAIN Events_(a), RState(full), DOMAIN slim = 1 .. Cardinality(DOMAIN slots), Agree(full, slim)
  PROVE  Agree(Relevance!After(Events_(a)[i], full), Relevance!SlimAfter(Events_(a)[i], slim))
<1> DEFINE e == Events_(a)[i]
           seen == Seen(problem, options, slots)
<1>1. a \in Relevance!Actions(problem) /\ problem \in RelevanceProblems
  BY SettledIs DEF RelevanceSettled
<1>2. e \in Relevance!EventSet(problem, a) /\ Relevance!EffectsWellFormed(e.effects)
  BY <1>1, EventIs, ActionIs DEF Events_
<1> SUFFICES ASSUME NEW f \in seen
             PROVE  Relevance!SlimAfter(e, slim)[slots[f]] = Relevance!After(e, full)[f]
  BY DEF Agree
<1>3. f \in DOMAIN slots /\ f \in Relevance!Fluent /\ slots[f] \in DOMAIN slim
  BY SettledIs
<1>4. (CHOOSE g \in DOMAIN slots : slots[g] = slots[f]) = f
  BY <1>3, SettledIs
<1>5. Relevance!SlimAfter(e, slim)[slots[f]] =
        IF f \in DOMAIN e.effects THEN Relevance!Evaluated(e.effects[f], Relevance!SlimView) ELSE slim[slots[f]]
  BY <1>3, <1>4 DEF Relevance!SlimAfter
<1>6. Relevance!After(e, full)[f] = IF f \in DOMAIN e.effects THEN Relevance!Evaluated(e.effects[f], full) ELSE full[f]
  BY <1>2, <1>3, EventAfter
<1>7. slim[slots[f]] = full[f]
  BY DEF Agree
<1>8. ASSUME f \in DOMAIN e.effects
      PROVE  Relevance!Evaluated(e.effects[f], Relevance!SlimView) = Relevance!Evaluated(e.effects[f], full)
  <2>1. \/ \E v \in BOOLEAN : e.effects[f] = Relevance!Constant(v)
        \/ \E g \in Relevance!Fluent : e.effects[f] = Relevance!Value(g)
    BY <1>2, <1>8 DEF Relevance!EffectsWellFormed
  <2>2. CASE \E v \in BOOLEAN : e.effects[f] = Relevance!Constant(v)
    BY <2>2, ValueIs
  <2>3. CASE \E g \in Relevance!Fluent : e.effects[f] = Relevance!Value(g)
    <3>1. PICK g \in Relevance!Fluent : e.effects[f] = Relevance!Value(g)
      BY <2>3
    <3>2. f \in Relevance!Writes(problem, a)
      BY <1>2, <1>8 DEF Relevance!Writes
    <3>3. g \in Relevance!ReadByEffects(problem, a, f)
      BY <1>2, <1>8, <3>1, ValueIs DEF Relevance!ReadByEffects
    <3>4. g \in seen
      BY <3>2, <3>3, SettledIs
    <3>5. Relevance!SlimView[g] = full[g]
      BY <3>4, SettledIs DEF Relevance!SlimView, Agree
    <3> QED
      BY <3>1, <3>5, ValueIs
  <2> QED
    BY <2>1, <2>2, <2>3
<1> QED
  BY <1>5, <1>6, <1>7, <1>8

-----------------------------------------------------------------------------
(* An event that may come next: the first of an action that is opened, or    *)
(* the next of one under way.                                                *)
Upcoming(a, i) ==
  /\ a \in Relevance!Applicable(problem) /\ i \in DOMAIN Events_(a)
  /\ \/ a \notin DOMAIN todo /\ i = 1 /\ a # problem.timed
     \/ a \in DOMAIN todo /\ i = todo[a]
(* What is under way after it.                                               *)
Next_(a, i) == [b \in DOMAIN todo \cup {a} |-> IF b = a THEN i + 1 ELSE todo[b]]

(* A step of the plan carries out the event that comes next of some action.  *)
LEMMA NextComes ==
  ASSUME RelevanceSettled, begins, RelevanceState(full, slim, todo, kept), Relevance!Next
  PROVE  \E a, i : Upcoming(a, i) /\ Relevance!Fires(a, i)
<1>1. PICK a \in Relevance!Actions(problem) : Relevance!Open(a) \/ Relevance!Continue(a)
  BY DEF Relevance!Next
<1>2. CASE Relevance!Open(a)
  <2>1. a \in Relevance!Applicable(problem) /\ a # problem.timed /\ a \notin DOMAIN todo /\ Relevance!Fires(a, 1)
    BY <1>2 DEF Relevance!Open
  <2>2. 1 \in DOMAIN Events_(a)
    BY ActionIs DEF Events_, RelevanceSettled
  <2> QED
    BY <2>1, <2>2 DEF Upcoming
<1>3. CASE Relevance!Continue(a)
  <2>1. a \in DOMAIN todo /\ Relevance!Fires(a, todo[a])
    BY <1>3 DEF Relevance!Continue, Relevance!Busy
  <2>2. a \in Relevance!Applicable(problem) /\ todo[a] \in 2 .. Last(a)
    BY <2>1 DEF RelevanceState, Ongoing
  <2>3. todo[a] \in DOMAIN Events_(a)
    BY <2>2, ActionIs DEF Events_, Last, RelevanceSettled
  <2> QED
    BY <2>1, <2>2, <2>3 DEF Upcoming
<1> QED
  BY <1>1, <1>2, <1>3

(* An event that fires could fire in the relaxation, and so could all before *)
(* it.                                                                       *)
LEMMA FiredIsFireable ==
  ASSUME RelevanceSettled, begins, RelevanceState(full, slim, todo, kept), NEW a, NEW i, Upcoming(a, i),
         Relevance!Satisfied(Events_(a)[i].pre, full)
  PROVE  /\ Relevance!Fireable(problem, a, i, FactsOf(problem))
         /\ i \in Relevance!Operators(problem, a)
<1>1. a \in Relevance!Actions(problem) /\ problem \in RelevanceProblems
  BY ProblemIs DEF Upcoming, RelevanceSettled
<1>2. i \in Nat /\ i >= 1 /\ i <= Last(a) /\ Events_(a)[i] \in Relevance!EventSet(problem, a)
  BY <1>1, EventIs DEF Upcoming, Events_, Last
<1>3. \A f \in Relevance!Fluent : <<f, full[f]>> \in FactsOf(problem)
  BY DEF RelevanceState
<1>4. ASSUME NEW c, DOMAIN c \subseteq Relevance!Fluent, Relevance!Satisfied(c, full)
      PROVE  Relevance!Possible(c, FactsOf(problem))
  <2> SUFFICES ASSUME NEW f \in DOMAIN c PROVE <<f, c[f]>> \in FactsOf(problem)
    BY DEF Relevance!Possible
  <2>1. full[f] = c[f]
    BY <1>4 DEF Relevance!Satisfied
  <2> QED
    BY <1>3, <1>4, <2>1
<1>5. Relevance!Possible(Events_(a)[i].pre, FactsOf(problem))
  BY <1>1, <1>2, <1>4, ActionIs DEF Relevance!ConditionWellFormed
<1>6. ASSUME i = Last(a) PROVE Relevance!Possible(Held(a), FactsOf(problem))
  <2>1. CASE a \notin DOMAIN todo
    <3>1. Last(a) = 1
      BY <1>6, <2>1 DEF Upcoming
    <3>2. DOMAIN Held(a) = {}
      BY <1>1, <3>1, ActionIs DEF Last, Events_, Held
    <3> QED
      BY <3>2 DEF Relevance!Possible
  <2>2. CASE a \in DOMAIN todo
    <3>1. Relevance!Satisfied(Held(a), full)
      BY <2>2 DEF RelevanceState, Ongoing
    <3>2. DOMAIN Held(a) \subseteq Relevance!Fluent
      BY <1>1, ActionIs DEF Held, Relevance!ConditionWellFormed
    <3> QED
      BY <1>4, <3>1, <3>2
  <2> QED
    BY <2>1, <2>2
<1>7. i \in Relevance!Operators(problem, a)
  <2>1. i = 1 => a # problem.timed
    BY DEF Upcoming, RelevanceState, Ongoing
  <2> QED
    BY <2>1 DEF Upcoming, Relevance!Operators, Events_
<1>8. ASSUME NEW j \in Relevance!Operators(problem, a), j < i
      PROVE  /\ Relevance!Possible(Events_(a)[j].pre, FactsOf(problem))
             /\ j = Last(a) => Relevance!Possible(Held(a), FactsOf(problem))
  <2>1. j \in DOMAIN Events_(a)
    BY DEF Relevance!Operators, Events_
  <2>2. j \in Nat /\ j >= 1
    BY <1>1, <2>1, EventIs DEF Events_
  <2>3. a \in DOMAIN todo /\ i = todo[a]
    BY <1>2, <1>8, <2>2 DEF Upcoming
  <2>4. Relevance!Fireable(problem, a, i - 1, FactsOf(problem))
    BY <2>3 DEF RelevanceState, Ongoing
  <2>5. j <= i - 1
    BY <1>2, <1>8, <2>2
  <2> QED
    BY <2>4, <2>5 DEF Relevance!Fireable, Events_, Last, Held
<1>9. ASSUME NEW j \in Relevance!Operators(problem, a), j <= i
      PROVE  /\ Relevance!Possible(Events_(a)[j].pre, FactsOf(problem))
             /\ j = Last(a) => Relevance!Possible(Held(a), FactsOf(problem))
  <2>1. j \in DOMAIN Events_(a)
    BY DEF Relevance!Operators, Events_
  <2>2. j \in Nat
    BY <1>1, <2>1, EventIs DEF Events_
  <2>3. CASE j = i
    BY <2>3, <1>5, <1>6
  <2>4. CASE j < i
    BY <2>4, <1>8
  <2> QED
    BY <1>2, <1>9, <2>2, <2>3, <2>4
<1> QED
  BY <1>7, <1>9 DEF Relevance!Fireable, Events_, Last, Held

(* It gives fluents only values they may take.                               *)
LEMMA FactsStay ==
  ASSUME RelevanceSettled, begins, RelevanceState(full, slim, todo, kept), NEW a, NEW i, Upcoming(a, i),
         Relevance!Satisfied(Events_(a)[i].pre, full)
  PROVE  /\ RState(Relevance!After(Events_(a)[i], full))
         /\ \A f \in Relevance!Fluent : <<f, Relevance!After(Events_(a)[i], full)[f]>> \in FactsOf(problem)
<1> DEFINE e == Events_(a)[i]
<1>1. a \in Relevance!Actions(problem) /\ problem \in RelevanceProblems
  BY ProblemIs DEF Upcoming, RelevanceSettled
<1>2. e \in Relevance!EventSet(problem, a)
  BY <1>1, EventIs DEF Upcoming, Events_
<1>3. Relevance!EffectsWellFormed(e.effects)
  BY <1>1, <1>2, ActionIs
<1>4. Relevance!Added(e) \subseteq Relevance!Reach(problem, FactsOf(problem))
  BY FiredIsFireable DEF Relevance!Reach, Upcoming, Events_
<1>5. Relevance!Reach(problem, FactsOf(problem)) \subseteq FactsOf(problem)
  BY <1>1, BeginningIs, ReachedIs DEF FactsOf
<1>6. RState(full) /\ \A f \in Relevance!Fluent : <<f, full[f]>> \in FactsOf(problem)
  BY DEF RelevanceState
<1>7. /\ RState(Relevance!After(e, full))
      /\ \A f \in Relevance!Fluent : f \notin DOMAIN e.effects => Relevance!After(e, full)[f] = full[f]
      /\ \A f \in DOMAIN e.effects : <<f, Relevance!After(e, full)[f]>> \in Relevance!Added(e)
  BY <1>3, <1>6, EventAfter
<1> HIDE DEF e
<1>8. \A f \in Relevance!Fluent : <<f, Relevance!After(e, full)[f]>> \in FactsOf(problem)
  BY <1>4, <1>5, <1>6, <1>7
<1> QED
  BY <1>7, <1>8 DEF e

(* An action that cannot be carried out to its end stays under way.          *)
LEMMA StuckStays ==
  ASSUME RelevanceSettled, begins, RelevanceState(full, slim, todo, kept), NEW a, NEW i, Upcoming(a, i),
         Relevance!Satisfied(Events_(a)[i].pre, full), a \notin Helpful(problem, options)
  PROVE  i < Last(a)
<1>1. a \in Relevance!Applicable(problem)
  BY DEF Upcoming
<1>2. a \notin ReachableOf(problem)
  BY <1>1 DEF Helpful
<1>3. ~(Relevance!Operators(problem, a) # {} /\ Relevance!Fireable(problem, a, Last(a), FactsOf(problem)))
  BY <1>1, <1>2 DEF ReachableOf, Relevance!ReachableActions, FactsOf, Last, Events_
<1>4. i # Last(a)
  BY <1>3, FiredIsFireable
<1>5. i \in Nat /\ i <= Last(a) /\ Last(a) \in Nat
  BY <1>1, ProblemIs, EventIs, ActionIs DEF Upcoming, RelevanceSettled, Events_, Last
<1> QED
  BY <1>4, <1>5

-----------------------------------------------------------------------------
(* An event keeps all of it.                                                 *)
LEMMA FiresKeeps ==
  ASSUME RelevanceSettled, begins, RelevanceState(full, slim, todo, kept), NEW a, NEW i, Upcoming(a, i),
         Relevance!Fires(a, i)
  PROVE  RelevanceState(full', slim', todo', kept')
<1> DEFINE e == Events_(a)[i]
           left == Relevance!Busy(Next_(a, i))
<1>1. /\ Relevance!Satisfied(e.pre, full)
      /\ \A c \in Relevance!Maintained(Next_(a, i)) : Relevance!Satisfied(c, Relevance!After(e, full))
      /\ full' = Relevance!After(e, full)
      /\ todo' = [b \in left |-> Next_(a, i)[b]]
  BY DEF Relevance!Fires, Next_, Events_
<1>2. a \notin considered => slim' = slim /\ kept' = kept
  BY DEF Relevance!Fires
<1>3. a \in considered =>
        /\ slim' = Relevance!SlimAfter(e, slim)
        /\ kept' = (/\ kept
                    /\ Relevance!SlimSatisfied(e.pre, slim)
                    /\ \A b \in left \cap considered : Relevance!SlimSatisfied(Held(b), slim')
                    /\ (i = 1 /\ durationSlot[a] # 0) =>
                         slim[durationSlot[a]] = full[problem.actions[a].duration])
  BY DEF Relevance!Fires, Next_, Events_, Held
<1>4. a \in Relevance!Applicable(problem) /\ a \in Relevance!Actions(problem) /\ problem \in RelevanceProblems
  BY ProblemIs DEF Upcoming, RelevanceSettled
<1>5. i \in Nat /\ i >= 1 /\ i <= Last(a) /\ Last(a) \in Nat /\ e \in Relevance!EventSet(problem, a)
  BY <1>4, EventIs, ActionIs DEF Upcoming, Events_, Last
<1>6. RState(full') /\ \A f \in Relevance!Fluent : <<f, full'[f]>> \in FactsOf(problem)
  BY <1>1, FactsStay
<1>7. /\ DOMAIN todo' = left
      /\ left = {b \in DOMAIN todo \cup {a} : Next_(a, i)[b] <= Last(b)}
      /\ Next_(a, i)[a] = i + 1
      /\ \A b \in DOMAIN todo : b # a => Next_(a, i)[b] = todo[b]
      /\ \A b \in left : todo'[b] = Next_(a, i)[b]
  BY <1>1 DEF Relevance!Busy, Next_, Last, Events_
<1> HIDE DEF left
<1>8. ASSUME NEW b \in left PROVE Relevance!Satisfied(Held(b), full')
  <2>1. Held(b) \in Relevance!Maintained(Next_(a, i))
    BY DEF left, Relevance!Maintained, Held
  <2> QED
    BY <1>1, <2>1
<1>9. ASSUME NEW b \in DOMAIN todo' PROVE Ongoing(b, todo'[b], full')
  <2>1. CASE b = a
    <3>1. todo'[b] = i + 1 /\ i + 1 <= Last(a)
      BY <1>7, <2>1
    <3>2. Relevance!Fireable(problem, a, i, FactsOf(problem))
      BY <1>1, FiredIsFireable
    <3>3. i + 1 \in 2 .. Last(a) /\ (i + 1) - 1 = i
      BY <1>5, <3>1
    <3>4. Relevance!Satisfied(Held(a), full')
      BY <1>7, <1>8, <2>1
    <3> QED
      BY <2>1, <3>1, <3>2, <3>3, <3>4 DEF Ongoing
  <2>2. CASE b # a
    <3>1. b \in DOMAIN todo /\ todo'[b] = todo[b]
      BY <1>7, <2>2
    <3>2. Ongoing(b, todo[b], full)
      BY <3>1 DEF RelevanceState
    <3>3. Relevance!Satisfied(Held(b), full')
      BY <1>7, <1>8
    <3> QED
      BY <3>1, <3>2, <3>3 DEF Ongoing
  <2> QED
    BY <2>1, <2>2
<1>10. DOMAIN todo' \subseteq Relevance!Applicable(problem)
  BY <1>4, <1>7 DEF RelevanceState
<1>11. DOMAIN slim' = 1 .. Cardinality(DOMAIN slots)
  <2>1. DOMAIN Relevance!SlimAfter(e, slim) = DOMAIN slim
    BY DEF Relevance!SlimAfter
  <2> QED
    BY <1>2, <1>3, <2>1 DEF RelevanceState
<1>12. Followed(full', slim', todo', kept')
  <2>1. CASE \E b \in DOMAIN todo : b # a /\ b \notin Helpful(problem, options)
    <3>1. PICK b \in DOMAIN todo : b # a /\ b \notin Helpful(problem, options)
      BY <2>1
    <3>2. todo[b] \in 2 .. Last(b)
      BY <3>1 DEF RelevanceState, Ongoing
    <3>3. b \in left
      BY <1>7, <3>1, <3>2
    <3> QED
      BY <1>7, <3>1, <3>3 DEF Followed
  <2>2. CASE a \notin Helpful(problem, options)
    <3>1. i + 1 <= Last(a)
      BY <1>1, <1>5, <2>2, StuckStays
    <3>2. a \in left
      BY <1>7, <3>1
    <3> QED
      BY <1>7, <2>2, <3>2 DEF Followed
  <2>3. CASE a \in Helpful(problem, options) /\ \A b \in DOMAIN todo : b # a => b \in Helpful(problem, options)
    <3>1. kept /\ Agree(full, slim)
      BY <2>3 DEF RelevanceState, Followed
    <3>2. CASE a \notin considered
      <4> SUFFICES ASSUME NEW f \in Seen(problem, options, slots) PROVE full'[f] = full[f]
        BY <1>2, <3>1, <3>2 DEF Followed, Agree
      <4>1. f \in Watched(problem, options) /\ f \in Relevance!Fluent
        BY SettledIs DEF Seen
      <4>2. f \notin Relevance!Writes(problem, a)
        BY <2>3, <3>2, <4>1, SettledIs
      <4>3. f \notin DOMAIN e.effects
        BY <1>5, <4>2 DEF Relevance!Writes
      <4>4. Relevance!EffectsWellFormed(e.effects) /\ RState(full)
        BY <1>4, <1>5, ActionIs DEF RelevanceState
      <4> QED
        BY <1>1, <4>1, <4>3, <4>4, EventAfter
    <3>3. CASE a \in considered
      <4>1. Agree(full', slim')
        BY <1>1, <1>3, <2>3, <3>1, <3>3, SameEffect DEF RelevanceState, Upcoming
      <4>2. Relevance!SlimSatisfied(e.pre, slim)
        <5>1. DOMAIN e.pre \subseteq Relevance!ReadFluents(problem, a)
          BY <1>5 DEF Relevance!ReadFluents
        <5>2. DOMAIN e.pre \subseteq Seen(problem, options, slots)
          BY <3>3, <5>1, SettledIs
        <5> QED
          BY <1>1, <3>1, <5>2, SameTruth
      <4>3. ASSUME NEW b \in left \cap considered PROVE Relevance!SlimSatisfied(Held(b), slim')
        <5>1. DOMAIN Held(b) \subseteq Relevance!ReadFluents(problem, b)
          BY DEF Relevance!ReadFluents, Held
        <5>2. DOMAIN Held(b) \subseteq Seen(problem, options, slots)
          BY <5>1, SettledIs
        <5> QED
          BY <1>8, <4>1, <5>2, SameTruth
      <4>4. ASSUME durationSlot[a] # 0 PROVE slim[durationSlot[a]] = full[problem.actions[a].duration]
        BY <3>1, <3>3, <4>4, DurationIs DEF Agree
      <4>5. kept'
        BY <1>3, <3>1, <3>3, <4>2, <4>3, <4>4
      <4> QED
        BY <4>1, <4>5 DEF Followed
    <3> QED
      BY <3>2, <3>3
  <2> QED
    BY <2>1, <2>2, <2>3
<1> QED
  BY <1>6, <1>9, <1>10, <1>11, <1>12 DEF RelevanceState


-----------------------------------------------------------------------------
(* What is found about a problem depends on nothing else.                    *)
LEMMA StaysRelevant ==
  ASSUME UNCHANGED <<problem, options, begins, considered, slots, durationSlot>>,
         RelevanceSettled, begins => RelevanceState(full', slim', todo', kept')
  PROVE  RelevanceInv'
<1>1. RelevanceSettled'
  BY DEF RelevanceSettled, KeptFluents
<1>2. begins => RelevanceState(full, slim, todo, kept)'
  <2> SUFFICES ASSUME begins PROVE RelevanceState(full, slim, todo, kept)'
    OBVIOUS
  <2>1. RelevanceState(full', slim', todo', kept')
    OBVIOUS
  <2>2. /\ FactsOf(problem)' = FactsOf(problem)
        /\ Helpful(problem, options)' = Helpful(problem, options)
        /\ Seen(problem, options, slots)' = Seen(problem, options, slots)
    BY DEF FactsOf, Helpful, Seen, Watched, ReachableOf
  <2>3. ASSUME NEW b, Ongoing(b, todo'[b], full') PROVE Ongoing(b, todo[b], full)'
    BY <2>2, <2>3 DEF Ongoing, Last, Events_, Held
  <2>4. Followed(full', slim', todo', kept') => Followed(full, slim, todo, kept)'
    BY <2>2 DEF Followed, Agree
  <2> QED
    BY <2>1, <2>2, <2>3, <2>4 DEF RelevanceState, RState
<1> QED
  BY <1>1, <1>2 DEF RelevanceInv

(* It holds when the encoding is done.                                       *)
LEMMA RelevanceInit == Relevance!Init => RelevanceInv
<1> SUFFICES ASSUME Relevance!Init PROVE RelevanceInv
  OBVIOUS
<1>1. RelevanceSettled
  BY DEF Relevance!Init, RelevanceSettled, Options, KeptFluents
<1> SUFFICES ASSUME begins PROVE RelevanceState(full, slim, todo, kept)
  BY <1>1 DEF RelevanceInv
<1>2. /\ full = Relevance!Beginning(problem) /\ kept
      /\ slim = [n \in 1 .. Cardinality(DOMAIN slots) |-> full[CHOOSE f \in DOMAIN slots : slots[f] = n]]
      /\ todo = [a \in {b \in {problem.timed} \ {Relevance!NoTimed} : Last(b) > 1} |-> 2]
      /\ problem \in RelevanceProblems
  BY CardinalityIs DEF Relevance!Init, Last, Events_
<1>3. RState(full) /\ \A f \in Relevance!Fluent : <<f, full[f]>> \in FactsOf(problem)
  BY <1>2, BeginningIs, ReachedIs DEF FactsOf
<1>4. ASSUME NEW a \in DOMAIN todo PROVE a \in Relevance!Applicable(problem) /\ Ongoing(a, todo[a], full)
  <2>1. a = problem.timed /\ a # Relevance!NoTimed /\ Last(a) > 1 /\ todo[a] = 2
    BY <1>2
  <2>2. a \in Relevance!Applicable(problem) /\ a \in Relevance!Actions(problem)
    BY <1>2, <2>1, ProblemIs
  <2>3. Last(a) \in Nat
    BY <1>2, <2>2, ActionIs DEF Last, Events_
  <2>4. Relevance!Satisfied(Held(a), full)
    BY <1>1, <1>2, <2>1 DEF RelevanceSettled, Relevance!Begins, Relevance!Beginning, Held
  <2>5. Relevance!Fireable(problem, a, 2 - 1, FactsOf(problem))
    <3>1. ASSUME NEW j \in Relevance!Operators(problem, a) PROVE ~(j <= 1)
      <4>1. j \in DOMAIN Events_(a) /\ j # 1
        BY <2>1 DEF Relevance!Operators, Events_
      <4> QED
        BY <1>2, <2>2, <4>1, EventIs DEF Events_
    <3> QED
      BY <3>1 DEF Relevance!Fireable
  <2> QED
    BY <2>1, <2>2, <2>3, <2>4, <2>5 DEF Ongoing
<1>5. Agree(full, slim)
  <2> SUFFICES ASSUME NEW f \in Seen(problem, options, slots) PROVE slim[slots[f]] = full[f]
    BY DEF Agree
  <2>1. f \in DOMAIN slots /\ slots[f] \in 1 .. Cardinality(DOMAIN slots)
    BY <1>1, SettledIs
  <2>2. (CHOOSE g \in DOMAIN slots : slots[g] = slots[f]) = f
    BY <1>1, <2>1, SettledIs
  <2> QED
    BY <1>2, <2>1, <2>2
<1> QED
  BY <1>2, <1>3, <1>4, <1>5 DEF RelevanceState, Followed

(* Every event of the plan keeps it.                                         *)
LEMMA RelevanceNext == RelevanceInv /\ Relevance!Next => RelevanceInv'
<1> SUFFICES ASSUME RelevanceInv, Relevance!Next PROVE RelevanceInv'
  OBVIOUS
<1>1. begins
  BY DEF Relevance!Next, Relevance!Open, Relevance!Continue
<1>2. RelevanceSettled /\ RelevanceState(full, slim, todo, kept)
  BY <1>1 DEF RelevanceInv
<1>3. PICK a, i : Upcoming(a, i) /\ Relevance!Fires(a, i)
  BY <1>1, <1>2, NextComes
<1>4. UNCHANGED <<problem, options, begins, considered, slots, durationSlot>>
  BY <1>3 DEF Relevance!Fires, Relevance!encoding
<1>5. RelevanceState(full', slim', todo', kept')
  BY <1>1, <1>2, <1>3, FiresKeeps
<1> QED
  BY <1>2, <1>4, <1>5, StaysRelevant

(* While this is the analysis.                                               *)
RInv == analysis = "relevance" => RelevanceInv

(* The other analyses have nothing to do with it.                            *)
LEMMA NextRInv == RInv /\ [Next]_vars => RInv'
<1> SUFFICES ASSUME RInv, [Next]_vars PROVE RInv'
  OBVIOUS
<1>1. CASE EventsStep \/ CompressionStep \/ SymmetryStep \/ ExpressionsStep
  <2>1. analysis # "relevance" /\ analysis' = analysis
    BY <1>1 DEF EventsStep, CompressionStep, SymmetryStep, ExpressionsStep
  <2> QED
    BY <2>1 DEF RInv
<1>2. CASE RelevanceStep
  <2>1. analysis = "relevance" /\ Relevance!Next
    BY <1>2 DEF RelevanceStep
  <2> QED
    BY <2>1, RelevanceNext DEF RInv
<1>3. CASE UNCHANGED vars
  <2>1. UNCHANGED <<analysis, problem, options, begins, considered, slots, durationSlot, full, slim, todo, kept>>
    BY <1>3 DEF vars, ofRelevance
  <2>2. ASSUME analysis = "relevance" PROVE RelevanceInv'
    <3>1. RelevanceSettled /\ (begins => RelevanceState(full', slim', todo', kept'))
      BY <2>1, <2>2 DEF RInv, RelevanceInv
    <3> QED
      BY <2>1, <3>1, StaysRelevant
  <2> QED
    BY <2>1, <2>2 DEF RInv
<1> QED
  BY <1>1, <1>2, <1>3 DEF Next

(* For every problem and plan: what the whole problem carries out to the end *)
(* the encoded problem carries out without the pruned actions and fluents,   *)
(* and it reaches the goal if the plan does (_compute_relevant_actions,      *)
(* _compute_relevant_fluents).                                               *)
THEOREM PruningIsSafe == Spec => []PlanSurvives
<1>1. Init => RInv
  BY RelevanceInit DEF Init, RInv
<1>2. RInv => PlanSurvives
  <2> SUFFICES ASSUME RelevanceInv, begins, todo = <<>>
               PROVE  /\ kept
                      /\ Relevance!Satisfied(problem.goal, full) => Relevance!SlimSatisfied(problem.goal, slim)
    BY DEF RInv, PlanSurvives, Relevance!PlanSurvives, Relevance!GoalSurvives
  <2>1. DOMAIN todo = {}
    OBVIOUS
  <2>2. kept /\ Agree(full, slim)
    BY <2>1 DEF RelevanceInv, RelevanceState, Followed
  <2>3. DOMAIN problem.goal \subseteq Seen(problem, options, slots)
    BY SettledIs DEF RelevanceInv, Relevance!GoalReads
  <2> QED
    BY <2>2, <2>3, SameTruth
<1> QED
  BY <1>1, <1>2, NextRInv, PTL DEF Spec

-----------------------------------------------------------------------------
(* Events.                                                                   *)

(* The instance's finite sets are those of the library.                      *)
LEMMA EventSetsAre ==
  \A S : Events!Cardinality(S) = Cardinality(S) /\ Events!IsFiniteSet(S) = IsFiniteSet(S)
BY DEF Events!Cardinality, Cardinality, Events!IsFiniteSet, IsFiniteSet

(* A function has finitely many values on a finite set.                      *)
LEMMA ImageFinite ==
  ASSUME NEW S, IsFiniteSet(S), NEW f, DOMAIN f = S
  PROVE  IsFiniteSet({f[x] : x \in S})
<1> DEFINE T == {f[x] : x \in S}
<1>1. [x \in S |-> f[x]] \in Surjection(S, T)
  BY DEF Surjection
<1> QED
  BY <1>1, FS_Surjection

(* The order of the events.                                                  *)
Below(S, b) == {a \in S : Events!Precedes(a, b)}
Place(S, b) == Cardinality(Below(S, b)) + 1

(* Timings are totally ordered: those from the start first, then by delay.   *)
LEMMA PrecedesIs ==
  /\ \A a \in Events!Timing : ~Events!Precedes(a, a)
  /\ \A a, b \in Events!Timing : a # b => Events!Precedes(a, b) \/ Events!Precedes(b, a)
  /\ \A a, b, c \in Events!Timing : Events!Precedes(a, b) /\ Events!Precedes(b, c) => Events!Precedes(a, c)
BY DEF Events!Timing, Events!Precedes

(* Every place is taken once.                                                *)
LEMMA PlacesAre ==
  ASSUME NEW S, IsFiniteSet(S), S \subseteq Events!Timing
  PROVE  /\ \A b \in S : Place(S, b) \in 1 .. Cardinality(S)
         /\ \A a, b \in S : Events!Precedes(a, b) <=> Place(S, a) < Place(S, b)
         /\ \A n \in 1 .. Cardinality(S) : \E b \in S : Place(S, b) = n
<1> DEFINE N == Cardinality(S)
<1>0. N \in Nat
  BY FS_CardinalityType
<1>1. \A b \in S : IsFiniteSet(Below(S, b)) /\ Cardinality(Below(S, b)) \in Nat
  BY FS_Subset, FS_CardinalityType DEF Below
<1>2. \A b \in S : Place(S, b) \in 1 .. N
  <2> TAKE b \in S
  <2>1. Below(S, b) \subseteq S \ {b}
    BY PrecedesIs DEF Below
  <2>2. IsFiniteSet(S \ {b}) /\ Cardinality(S \ {b}) = N - 1
    BY FS_RemoveElement
  <2>3. Cardinality(Below(S, b)) <= N - 1
    BY <2>1, <2>2, FS_Subset
  <2> QED
    BY <1>0, <1>1, <2>3 DEF Place
<1>3. \A a, b \in S : Events!Precedes(a, b) => Place(S, a) < Place(S, b)
  <2> SUFFICES ASSUME NEW a \in S, NEW b \in S, Events!Precedes(a, b)
               PROVE  Place(S, a) < Place(S, b)
    OBVIOUS
  <2>1. Below(S, a) \cup {a} \subseteq Below(S, b)
    BY PrecedesIs DEF Below
  <2>2. a \notin Below(S, a)
    BY PrecedesIs DEF Below
  <2>3. IsFiniteSet(Below(S, a) \cup {a}) /\ Cardinality(Below(S, a) \cup {a}) = Cardinality(Below(S, a)) + 1
    BY <1>1, <2>2, FS_AddElement
  <2>4. Cardinality(Below(S, a) \cup {a}) <= Cardinality(Below(S, b))
    BY <1>1, <2>1, FS_Subset
  <2> QED
    BY <1>1, <2>3, <2>4 DEF Place
<1>4. \A a, b \in S : Events!Precedes(a, b) <=> Place(S, a) < Place(S, b)
  <2> SUFFICES ASSUME NEW a \in S, NEW b \in S, Place(S, a) < Place(S, b)
               PROVE  Events!Precedes(a, b)
    BY <1>3
  <2>1. Place(S, a) \in Int /\ Place(S, b) \in Int
    BY <1>2
  <2> QED
    BY <1>3, <2>1, PrecedesIs
<1> DEFINE f == [b \in S |-> Place(S, b)]
<1>5. f \in Injection(S, 1 .. N)
  <2>1. \A a, b \in S : f[a] = f[b] => a = b
    <3> SUFFICES ASSUME NEW a \in S, NEW b \in S, Place(S, a) = Place(S, b)
                 PROVE  a = b
      OBVIOUS
    <3>1. Place(S, a) \in Int
      BY <1>2
    <3> QED
      BY <1>3, <3>1, PrecedesIs
  <2> QED
    BY <1>2, <2>1 DEF Injection, IsInjective
<1>6. IsFiniteSet(1 .. N) /\ Cardinality(1 .. N) = N
  BY <1>0, FS_Interval
<1>7. f \in Surjection(S, 1 .. N)
  BY <1>5, <1>6, FS_Injection
<1> QED
  BY <1>2, <1>4, <1>7 DEF Surjection

-----------------------------------------------------------------------------
(* What is known of an item.                                                 *)
LEMMA ItemIs ==
  ASSUME NEW i \in Items
  PROVE  /\ Events!ItemWellFormed(i)
         /\ i.timed => \A e \in DOMAIN i.effects : ~i.effects[e].at.end
         /\ ~i.timed => Events!IntervalsFit(i)
         /\ Epsilon \in Nat /\ Epsilon > 0
BY EncoderAssumption DEF Events!EncodingAssumption

(* An item has finitely many intervals that are not dropped.                 *)
LEMMA KeptFinite ==
  ASSUME NEW i \in Items, NEW S, S \subseteq Events!Kept(i)
  PROVE  IsFiniteSet(S)
<1>1. IsFiniteSet(i.conditions)
  BY ItemIs, EventSetsAre DEF Events!ItemWellFormed
<1>2. S \subseteq i.conditions
  BY DEF Events!Kept
<1> QED
  BY <1>1, <1>2, FS_Subset

(* So has it effects.                                                        *)
LEMMA ItemEffectsFinite ==
  ASSUME NEW i \in Items
  PROVE  IsFiniteSet(DOMAIN i.effects)
<1>1. DOMAIN i.effects = 1 .. Len(i.effects) /\ Len(i.effects) \in Nat
  BY ItemIs DEF Events!ItemWellFormed
<1>2. \A m \in Nat : IsFiniteSet(1 .. m)
  BY FS_Interval
<1> QED
  BY <1>1, <1>2

(* The timings of an item, and what they become.                             *)
LEMMA TimingsAre ==
  ASSUME NEW i \in Items
  PROVE  /\ Events!Timings(i) \subseteq Events!Timing
         /\ IsFiniteSet(Events!Timings(i))
         /\ \A t \in Events!Timing : Events!Bucket(i, t) \in Events!Timing
         /\ Events!Buckets(i) \subseteq Events!Timing
         /\ IsFiniteSet(Events!Buckets(i))
<1> DEFINE K == Events!Kept(i)
           C == {c \in K : ~Events!Lasting(i, c)}
           E == DOMAIN i.effects
           lower == [c \in K |-> c.lower]
           upper == [c \in C |-> c.upper]
           at == [e \in E |-> i.effects[e].at]
<1>1. IsFiniteSet(K) /\ IsFiniteSet(C) /\ IsFiniteSet(E)
  BY KeptFinite, ItemEffectsFinite
<1>2. Events!Timings(i) = ({lower[c] : c \in K} \cup {upper[c] : c \in C}) \cup {at[e] : e \in E}
  BY DEF Events!Timings
<1>3. IsFiniteSet({lower[c] : c \in K}) /\ IsFiniteSet({upper[c] : c \in C}) /\ IsFiniteSet({at[e] : e \in E})
  <2>1. DOMAIN lower = K /\ DOMAIN upper = C /\ DOMAIN at = E
    OBVIOUS
  <2> HIDE DEF K, C, E, lower, upper, at
  <2>2. IsFiniteSet({lower[c] : c \in K})
    BY <1>1, <2>1, ImageFinite
  <2>3. IsFiniteSet({upper[c] : c \in C})
    BY <1>1, <2>1, ImageFinite
  <2>4. IsFiniteSet({at[e] : e \in E})
    BY <1>1, <2>1, ImageFinite
  <2> QED
    BY <2>2, <2>3, <2>4
<1>4. IsFiniteSet(Events!Timings(i))
  <2> DEFINE A == {lower[c] : c \in K}
             B == {upper[c] : c \in C}
             D == {at[e] : e \in E}
  <2>1. Events!Timings(i) = (A \cup B) \cup D /\ IsFiniteSet(A) /\ IsFiniteSet(B) /\ IsFiniteSet(D)
    BY <1>2, <1>3
  <2> HIDE DEF A, B, D
  <2>2. IsFiniteSet(A \cup B)
    BY <2>1, FS_Union
  <2>3. IsFiniteSet((A \cup B) \cup D)
    BY <2>1, <2>2, FS_Union
  <2> QED
    BY <2>1, <2>3
<1>5. Events!Timings(i) \subseteq Events!Timing
  BY ItemIs DEF Events!Timings, Events!ItemWellFormed, Events!Kept
<1>6. i.lower \in Int
  BY ItemIs DEF Events!ItemWellFormed
<1>7. \A t \in Events!Timing : Events!Bucket(i, t) \in Events!Timing
  BY <1>6 DEF Events!Bucket, Events!At, Events!Timing
<1>8. Events!At(0) \in Events!Timing
  BY DEF Events!At, Events!Timing
<1> DEFINE T == Events!Timings(i)
           bucket == [t \in T |-> Events!Bucket(i, t)]
<1>9. IsFiniteSet({bucket[t] : t \in T})
  <2>1. DOMAIN bucket = T
    OBVIOUS
  <2>2. IsFiniteSet(T)
    BY <1>4
  <2> HIDE DEF T, bucket
  <2> QED
    BY <2>1, <2>2, ImageFinite
<1>10. Events!Buckets(i) = {bucket[t] : t \in T} \cup {Events!At(0)}
  BY DEF Events!Buckets
<1>11. IsFiniteSet(Events!Buckets(i))
  <2> DEFINE A == {bucket[t] : t \in T}
             o == Events!At(0)
  <2>1. Events!Buckets(i) = A \cup {o} /\ IsFiniteSet(A) /\ IsFiniteSet({o})
    BY <1>9, <1>10, FS_Singleton
  <2> HIDE DEF A, o
  <2>2. IsFiniteSet(A \cup {o})
    BY <2>1, FS_Union
  <2> QED
    BY <2>1, <2>2
<1>12. Events!Buckets(i) \subseteq Events!Timing
  BY <1>5, <1>7, <1>8, <1>10
<1> QED
  BY <1>4, <1>5, <1>7, <1>11, <1>12

(* The events are those of the buckets, in order.                            *)
LEMMA EventsAre ==
  ASSUME NEW i \in Items
  PROVE  /\ Events!EventsOf(i) = [n \in 1 .. Cardinality(Events!Buckets(i)) |-> Events!EventAt(i, Events!Nth(i, n))]
         /\ Cardinality(Events!Buckets(i)) \in Nat /\ Cardinality(Events!Buckets(i)) > 0
         /\ \A n \in 1 .. Cardinality(Events!Buckets(i)) : Events!Nth(i, n) \in Events!Buckets(i)
         /\ \A b \in Events!Buckets(i) : \E n \in 1 .. Cardinality(Events!Buckets(i)) : Events!Nth(i, n) = b
         /\ \A m, n \in 1 .. Cardinality(Events!Buckets(i)) :
              m < n <=> Events!Precedes(Events!Nth(i, m), Events!Nth(i, n))
<1> DEFINE S == Events!Buckets(i)
           N == Cardinality(S)
<1>1. /\ S \subseteq Events!Timing /\ IsFiniteSet(S)
      /\ Events!At(0) \in S
  BY TimingsAre DEF Events!Buckets
<1>2. N \in Nat /\ N > 0
  BY <1>1, FS_CardinalityType, FS_EmptySet
<1>3. Events!EventsOf(i) = [n \in 1 .. N |-> Events!EventAt(i, Events!Nth(i, n))]
  BY EventSetsAre DEF Events!EventsOf
<1>4. \A b \in S : Events!Cardinality({a \in S : Events!Precedes(a, b)}) = Place(S, b) - 1
                   /\ Place(S, b) \in 1 .. N
  <2>1. \A b \in S : Place(S, b) \in 1 .. N
    BY <1>1, PlacesAre
  <2>2. \A b \in S : Events!Cardinality({a \in S : Events!Precedes(a, b)}) = Cardinality(Below(S, b))
    BY EventSetsAre DEF Below
  <2>3. \A b \in S : Cardinality(Below(S, b)) \in Nat
    BY <1>1, FS_Subset, FS_CardinalityType DEF Below
  <2> QED
    BY <2>1, <2>2, <2>3 DEF Place
<1>5. \A n \in 1 .. N : Events!Nth(i, n) \in S /\ Place(S, Events!Nth(i, n)) = n
  <2> TAKE n \in 1 .. N
  <2>1. \E b \in S : Place(S, b) = n
    BY <1>1, PlacesAre
  <2>2. \E b \in S : Events!Cardinality({a \in S : Events!Precedes(a, b)}) = n - 1
    BY <1>4, <2>1
  <2>3. /\ Events!Nth(i, n) \in S
        /\ Events!Cardinality({a \in S : Events!Precedes(a, Events!Nth(i, n))}) = n - 1
    BY <2>2 DEF Events!Nth
  <2> QED
    BY <1>4, <2>3
<1>6. \A b \in S : \E n \in 1 .. N : Events!Nth(i, n) = b
  <2> TAKE b \in S
  <2>1. Place(S, b) \in 1 .. N /\ Place(S, Events!Nth(i, Place(S, b))) = Place(S, b)
    BY <1>1, <1>5, PlacesAre
  <2>2. Events!Nth(i, Place(S, b)) \in S
    BY <1>5, <2>1
  <2>3. Events!Nth(i, Place(S, b)) = b
    BY <1>1, <2>1, <2>2, PlacesAre, PrecedesIs
  <2> QED
    BY <2>1, <2>3
<1>7. \A m, n \in 1 .. N : m < n <=> Events!Precedes(Events!Nth(i, m), Events!Nth(i, n))
  BY <1>1, <1>5, PlacesAre
<1> QED
  BY <1>2, <1>3, <1>5, <1>6, <1>7

(* What an item that is not refused looks like.                              *)
NoneRefused(i) ==
  IF i.timed
    THEN /\ \A t \in Events!Timings(i) : ~(t.delay < 0)
         /\ \A c \in i.conditions : ~c.lower.end
         /\ \A c \in i.conditions : c.upper.end \/ ~Events!Empty(c)
         /\ \A a, b \in Events!Buckets(i) : ~(a.delay < b.delay /\ b.delay - a.delay < Epsilon)
    ELSE /\ Events!FromBothEnds(i) => Events!FixedDuration(i)
         /\ \A b \in Events!Buckets(i) : b.end \/ ~(b.delay < 0)

(* What an item that is not refused has been checked for (_build_events,     *)
(* _group_timed_events).                                                     *)
LEMMA NotRefused ==
  ASSUME NEW i \in Items, Events!Refused(i) = "none"
  PROVE  NoneRefused(i)
<1>1. Events!Refusal(i) = "none"
  BY Zenon DEF Events!Refused
<1>2. CASE i.timed
  <2>1. ~(\E t \in Events!Timings(i) : t.delay < 0)
    BY <1>1, <1>2, Zenon DEF Events!Refusal
  <2>2. ~(\E c \in i.conditions : c.lower.end)
    BY <1>1, <1>2, <2>1, Zenon DEF Events!Refusal
  <2>3. ~(\E c \in i.conditions : ~c.upper.end /\ Events!Empty(c))
    BY <1>1, <1>2, <2>1, <2>2, Zenon DEF Events!Refusal
  <2>4. ~(\E a, b \in Events!Buckets(i) : a.delay < b.delay /\ b.delay - a.delay < Epsilon)
    BY <1>1, <1>2, <2>1, <2>2, <2>3, Zenon DEF Events!Refusal
  <2> QED
    BY <1>2, <2>1, <2>2, <2>3, <2>4, Zenon DEF NoneRefused
<1>3. CASE ~i.timed
  <2>1. ~(Events!FromBothEnds(i) /\ ~Events!FixedDuration(i))
    BY <1>1, <1>3, Zenon DEF Events!Refusal
  <2>2. ~(\E b \in Events!Buckets(i) : ~b.end /\ b.delay < 0)
    BY <1>1, <1>3, <2>1, Zenon DEF Events!Refusal
  <2> QED
    BY <1>3, <2>1, <2>2, Zenon DEF NoneRefused
<1> QED
  BY <1>2, <1>3

(* A timed item counts from the start alone.                                 *)
LEMMA TimedFromStart ==
  ASSUME NEW i \in Items, i.timed, NoneRefused(i)
  PROVE  /\ \A t \in Events!Timings(i) : t.end = FALSE
         /\ \A b \in Events!Buckets(i) : b.end = FALSE
         /\ ~Events!Folded(i)
<1>1. ~Events!Folded(i)
  BY DEF Events!Folded, Events!FromBothEnds
<1>2. \A t \in Events!Timings(i) : t.end = FALSE
  <2>1. \A t \in Events!Timings(i) : ~t.end
    BY ItemIs DEF Events!Timings, Events!Kept, Events!Lasting, NoneRefused
  <2> QED
    BY <2>1, TimingsAre DEF Events!Timing
<1>3. \A b \in Events!Buckets(i) : b.end = FALSE
  BY <1>1, <1>2 DEF Events!Buckets, Events!Bucket, Events!At
<1> QED
  BY <1>1, <1>2, <1>3

(* How long an item lasts: as long as it must, when it is folded.            *)
LEMMA DurationsAre ==
  ASSUME NEW i \in Items, NoneRefused(i), NEW d \in Events!Durations(i)
  PROVE  /\ d \in Int
         /\ Events!Folded(i) => d = i.lower /\ Events!LongestKnown(i) = i.lower
         /\ ~i.timed => /\ d <= Events!LongestKnown(i)
                        /\ Events!LongestKnown(i) \in Events!Durations(i)
<1>0. Events!ItemWellFormed(i) /\ Epsilon \in Nat /\ Epsilon > 0
  BY ItemIs
<1>1. CASE i.timed
  <2> DEFINE D == {b.delay : b \in Events!Buckets(i)}
             N == Cardinality(Events!Buckets(i))
             last == Events!Nth(i, N)
  <2>1. N \in 1 .. N /\ last \in Events!Buckets(i)
    BY EventsAre
  <2>2. \A b \in Events!Buckets(i) : b.delay <= last.delay
    <3> TAKE b \in Events!Buckets(i)
    <3>1. PICK n \in 1 .. N : Events!Nth(i, n) = b
      BY EventsAre
    <3>2. n = N \/ Events!Precedes(b, last)
      BY <2>1, <3>1, EventsAre
    <3>3. b.end = last.end /\ b.delay \in Int /\ last.delay \in Int
      BY <1>1, <2>1, TimedFromStart, TimingsAre DEF Events!Timing
    <3> QED
      BY <3>1, <3>2, <3>3 DEF Events!Precedes
  <2>3. last.delay \in D /\ \A x \in D : last.delay >= x
    BY <2>1, <2>2, TimingsAre DEF Events!Timing
  <2>4. Events!Max(D) \in D
    BY <2>3 DEF Events!Max
  <2>5. d \in D
    BY <1>1, <2>4 DEF Events!Durations
  <2>6. d \in Int
    BY <2>5, TimingsAre DEF Events!Timing
  <2> QED
    BY <1>1, <2>6, TimedFromStart
<1>2. CASE ~i.timed
  <2>1. d \in (i.lower + (IF i.leftOpen THEN Epsilon ELSE 0)) .. Events!LongestKnown(i)
    BY <1>2 DEF Events!Durations
  <2>2. i.lower \in Nat /\ i.upper \in Nat /\ i.leftOpen \in BOOLEAN /\ i.rightOpen \in BOOLEAN
    BY <1>0 DEF Events!ItemWellFormed
  <2>3. Events!LongestKnown(i) \in Int
    BY <1>0, <2>2 DEF Events!LongestKnown
  <2>4. Events!LongestKnown(i) \in Events!Durations(i)
    BY <1>0, <1>2, <2>1, <2>2, <2>3 DEF Events!Durations
  <2>5. Events!Folded(i) => d = i.lower /\ Events!LongestKnown(i) = i.lower
    BY <1>0, <2>1, <2>2 DEF Events!Folded, Events!FixedDuration, Events!LongestKnown
  <2> QED
    BY <1>2, <2>1, <2>2, <2>3, <2>4, <2>5, <1>0
<1> QED
  BY <1>1, <1>2

(* The instant of a timing, which folding does not change.                   *)
Moment(t, d) == IF t.end THEN d + t.delay ELSE t.delay

(* The timing an event is given is its bucket, or the same timing from the   *)
(* end.                                                                      *)
LEMMA BucketIs ==
  ASSUME NEW i \in Items, NEW b \in Events!Buckets(i)
  PROVE  /\ ~Events!Folded(i) => Events!TimingOf(i, b) = b
         /\ Events!Folded(i) => b.end = FALSE /\ Events!TimingOf(i, b) \in {b, Events!ToEnd(b.delay - i.lower)}
<1>1. Events!Folded(i) => b.end = FALSE
  <2>1. \A t \in Events!Timings(i) : t.end \in BOOLEAN
    BY TimingsAre DEF Events!Timing
  <2> QED
    BY <2>1 DEF Events!Buckets, Events!Bucket, Events!At
<1> QED
  BY <1>1 DEF Events!TimingOf, Events!FromTheEnd

(* An event takes place at the moment of its bucket.                         *)
LEMMA InstantIs ==
  ASSUME NEW i \in Items, NoneRefused(i), NEW d \in Events!Durations(i), NEW b \in Events!Buckets(i)
  PROVE  /\ Events!Instant(Events!EventAt(i, b), d) = Moment(b, d)
         /\ Moment(b, d) \in Int
<1>1. b.end \in BOOLEAN /\ b.delay \in Int
  BY TimingsAre DEF Events!Timing
<1>2. d \in Int /\ i.lower \in Int /\ (Events!Folded(i) => d = i.lower)
  BY DurationsAre, ItemIs DEF Events!ItemWellFormed
<1>3. Events!EventAt(i, b).timing = Events!TimingOf(i, b)
  BY DEF Events!EventAt
<1>4. CASE Events!Folded(i)
  <2>1. b.end = FALSE
    BY <1>4, BucketIs
  <2>2. CASE Events!TimingOf(i, b) = b
    BY <1>1, <1>3, <2>1, <2>2 DEF Events!Instant, Moment
  <2>3. CASE Events!TimingOf(i, b) = Events!ToEnd(b.delay - i.lower)
    BY <1>1, <1>2, <1>3, <1>4, <2>1, <2>3 DEF Events!Instant, Moment, Events!ToEnd
  <2> QED
    BY <1>4, <2>2, <2>3, BucketIs
<1>5. CASE ~Events!Folded(i)
  <2>1. Events!EventAt(i, b).timing = b
    BY <1>3, <1>5, BucketIs
  <2> QED
    BY <1>1, <1>2, <2>1 DEF Events!Instant, Moment
<1> QED
  BY <1>1, <1>2, <1>4, <1>5 DEF Moment

(* Folding a timing onto a constant duration leaves its moment alone.        *)
LEMMA BucketMoment ==
  ASSUME NEW i \in Items, NoneRefused(i), NEW d \in Events!Durations(i), NEW t \in Events!Timings(i)
  PROVE  /\ Events!Bucket(i, t) \in Events!Buckets(i)
         /\ Moment(Events!Bucket(i, t), d) = Moment(t, d)
<1>1. t.end \in BOOLEAN /\ t.delay \in Int /\ i.lower \in Int
  BY TimingsAre, ItemIs DEF Events!Timing, Events!ItemWellFormed
<1>2. d \in Int /\ (Events!Folded(i) => d = i.lower)
  BY DurationsAre
<1> QED
  BY <1>1, <1>2 DEF Events!Buckets, Events!Bucket, Events!At, Moment

-----------------------------------------------------------------------------
(* Events that the encoder calls too close are so, whatever the duration.    *)
LEMMA TooCloseIsRight ==
  ASSUME NEW i \in Items, ~i.timed, NoneRefused(i), NEW d \in Events!Durations(i),
         NEW a \in Events!Buckets(i), NEW b \in Events!Buckets(i), Events!Precedes(a, b),
         Events!TooClose(i, Events!TimingOf(i, a), Events!TimingOf(i, b))
  PROVE  Moment(b, d) - Moment(a, d) < Epsilon
<1>1. /\ a.end \in BOOLEAN /\ a.delay \in Int
      /\ b.end \in BOOLEAN /\ b.delay \in Int
  BY TimingsAre DEF Events!Timing
<1>2. /\ d \in Int /\ d <= Events!LongestKnown(i) /\ Epsilon \in Nat /\ Epsilon > 0
      /\ i.lower \in Nat /\ i.upper \in Nat /\ i.rightOpen \in BOOLEAN
  BY DurationsAre, ItemIs DEF Events!ItemWellFormed
<1>3. Events!LongestKnown(i) \in Int
  BY <1>2 DEF Events!LongestKnown
<1>4. CASE Events!Folded(i)
  <2>1. a.end = FALSE /\ b.end = FALSE /\ a.delay < b.delay
    BY <1>4, BucketIs DEF Events!Precedes
  <2>2. Moment(b, d) - Moment(a, d) = b.delay - a.delay
    BY <2>1 DEF Moment
  <2>3. Events!LongestKnown(i) = i.lower
    BY <1>4, DurationsAre
  <2>4. /\ Events!TimingOf(i, a) \in {a, Events!ToEnd(a.delay - i.lower)}
        /\ Events!TimingOf(i, b) \in {b, Events!ToEnd(b.delay - i.lower)}
    BY <1>4, BucketIs
  <2>5. CASE Events!TimingOf(i, a) = a /\ Events!TimingOf(i, b) = b
    <3>1. Events!TooClose(i, a, b)
      BY <2>5
    <3>2. b.delay - a.delay < Epsilon
      BY <2>1, <3>1 DEF Events!TooClose
    <3> QED
      BY <2>2, <3>2
  <2>6. CASE Events!TimingOf(i, a) = a /\ Events!TimingOf(i, b) = Events!ToEnd(b.delay - i.lower)
    <3> DEFINE e == Events!ToEnd(b.delay - i.lower)
    <3>1. Events!TooClose(i, a, e)
      BY <2>6
    <3>2. e.end = TRUE /\ e.delay = b.delay - i.lower
      BY DEF Events!ToEnd
    <3> HIDE DEF e
    <3>3. i.lower < a.delay - e.delay + Epsilon
      BY <2>1, <2>3, <3>1, <3>2 DEF Events!TooClose
    <3> QED
      BY <1>1, <1>2, <2>2, <3>2, <3>3
  <2>7. CASE Events!TimingOf(i, a) = Events!ToEnd(a.delay - i.lower) /\ Events!TimingOf(i, b) = b
    <3> DEFINE e == Events!ToEnd(a.delay - i.lower)
    <3>1. Events!TooClose(i, e, b)
      BY <2>7
    <3>2. e.end = TRUE /\ e.delay = a.delay - i.lower
      BY DEF Events!ToEnd
    <3> HIDE DEF e
    <3>3. i.lower < e.delay - b.delay + Epsilon
      BY <2>1, <2>3, <3>1, <3>2 DEF Events!TooClose
    <3> QED
      BY <1>1, <1>2, <2>2, <3>2, <3>3
  <2>8. CASE /\ Events!TimingOf(i, a) = Events!ToEnd(a.delay - i.lower)
             /\ Events!TimingOf(i, b) = Events!ToEnd(b.delay - i.lower)
    BY <1>1, <1>2, <2>1, <2>2, <2>8 DEF Events!TooClose, Events!ToEnd
  <2> QED
    BY <2>4, <2>5, <2>6, <2>7, <2>8
<1>5. CASE ~Events!Folded(i)
  <2>1. Events!TooClose(i, a, b)
    BY <1>5, BucketIs
  <2>2. CASE a.end = b.end
    BY <1>1, <1>2, <2>1, <2>2 DEF Events!TooClose, Moment
  <2>3. CASE a.end # b.end
    <3>1. a.end = FALSE /\ b.end = TRUE
      BY <1>1, <2>3 DEF Events!Precedes
    <3>2. Events!LongestKnown(i) < a.delay - b.delay + Epsilon
      BY <2>1, <3>1 DEF Events!TooClose
    <3>3. Moment(b, d) - Moment(a, d) = d + b.delay - a.delay
      BY <1>1, <1>2, <3>1 DEF Moment
    <3> QED
      BY <1>1, <1>2, <1>3, <3>2, <3>3
  <2> QED
    BY <2>2, <2>3
<1> QED
  BY <1>4, <1>5

(* Events that it does not call too close are apart when the item lasts as   *)
(* long as it can, if that is known.                                         *)
LEMMA TooCloseIsFound ==
  ASSUME NEW i \in Items, ~i.timed, i.known, ~Events!Folded(i), NoneRefused(i),
         NEW d \in Events!Durations(i), d = Events!LongestKnown(i),
         NEW a \in Events!Buckets(i), NEW b \in Events!Buckets(i), Events!Precedes(a, b),
         ~Events!TooClose(i, Events!TimingOf(i, a), Events!TimingOf(i, b))
  PROVE  Moment(b, d) - Moment(a, d) >= Epsilon
<1>1. /\ a.end \in BOOLEAN /\ a.delay \in Int
      /\ b.end \in BOOLEAN /\ b.delay \in Int
  BY TimingsAre DEF Events!Timing
<1>2. d \in Int /\ Epsilon \in Nat
  BY DurationsAre, ItemIs
<1>3. ~Events!TooClose(i, a, b)
  BY BucketIs
<1>4. CASE a.end = b.end
  BY <1>1, <1>2, <1>3, <1>4 DEF Events!TooClose, Moment
<1>5. CASE a.end # b.end
  <2>1. a.end = FALSE /\ b.end = TRUE
    BY <1>1, <1>5 DEF Events!Precedes
  <2>2. ~(d < a.delay - b.delay + Epsilon)
    BY <1>3, <2>1 DEF Events!TooClose
  <2>3. Moment(b, d) - Moment(a, d) = d + b.delay - a.delay
    BY <1>1, <1>2, <2>1 DEF Moment
  <2> QED
    BY <1>1, <1>2, <2>2, <2>3
<1> QED
  BY <1>4, <1>5

(* What never changes.                                                       *)
ChoiceInv ==
  /\ item \in Items
  /\ refusal = Events!Refused(item)
  /\ events = IF refusal = "none" THEN Events!EventsOf(item) ELSE <<>>
  /\ apart = (refusal = "none" /\ (item.timed \/ Events!Apart(item, events)))
  /\ duration \in Events!Durations(item)

(* The nth event of an item that is encoded.                                 *)
LEMMA EventIsAt ==
  ASSUME ChoiceInv, refusal = "none"
  PROVE  /\ NoneRefused(item)
         /\ Len(events) = Cardinality(Events!Buckets(item))
         /\ DOMAIN events = 1 .. Len(events) /\ Len(events) \in Nat /\ Len(events) > 0
         /\ \A n \in DOMAIN events :
              /\ Events!Nth(item, n) \in Events!Buckets(item)
              /\ events[n] = Events!EventAt(item, Events!Nth(item, n))
              /\ events[n].timing = Events!TimingOf(item, Events!Nth(item, n))
              /\ \A d \in Events!Durations(item) :
                   /\ Events!Instant(events[n], d) = Moment(Events!Nth(item, n), d)
                   /\ Moment(Events!Nth(item, n), d) \in Int
<1> DEFINE N == Cardinality(Events!Buckets(item))
<1>1. NoneRefused(item) /\ item \in Items
  BY NotRefused DEF ChoiceInv
<1>2. events = [n \in 1 .. N |-> Events!EventAt(item, Events!Nth(item, n))] /\ N \in Nat /\ N > 0
  BY EventsAre DEF ChoiceInv
<1>3. Len(events) = N /\ DOMAIN events = 1 .. N
  BY <1>2
<1>4. \A n \in 1 .. N : Events!Nth(item, n) \in Events!Buckets(item)
  BY <1>1, EventsAre
<1>5. \A n \in 1 .. N : /\ events[n] = Events!EventAt(item, Events!Nth(item, n))
                        /\ events[n].timing = Events!TimingOf(item, Events!Nth(item, n))
  BY <1>2 DEF Events!EventAt
<1>6. \A n \in 1 .. N, d \in Events!Durations(item) :
        /\ Events!Instant(events[n], d) = Moment(Events!Nth(item, n), d)
        /\ Moment(Events!Nth(item, n), d) \in Int
  BY <1>1, <1>4, <1>5, InstantIs
<1> QED
  BY <1>1, <1>2, <1>3, <1>4, <1>5, <1>6

(* Events called too close are apart for no duration.                        *)
LEMMA SeparationRight == ChoiceInv => Events!SeparationIsRight
<1> SUFFICES ASSUME ChoiceInv, refusal = "none", ~apart
             PROVE  ~Events!Placed(events, duration)
  BY DEF Events!SeparationIsRight
<1>1. item \in Items /\ ~item.timed /\ ~Events!Apart(item, events) /\ duration \in Events!Durations(item)
  BY DEF ChoiceInv
<1>2. PICK n \in 1 .. Len(events) - 1 : Events!TooClose(item, events[n].timing, events[n + 1].timing)
  BY <1>1 DEF Events!Apart
<1>3. n \in DOMAIN events /\ n + 1 \in DOMAIN events /\ n < n + 1
  BY <1>2, EventIsAt
<1> DEFINE a == Events!Nth(item, n)
           b == Events!Nth(item, n + 1)
<1>4. Events!Precedes(a, b) /\ a \in Events!Buckets(item) /\ b \in Events!Buckets(item)
  BY <1>1, <1>3, EventIsAt, EventsAre
<1>5. Moment(b, duration) - Moment(a, duration) < Epsilon
  BY <1>1, <1>2, <1>3, <1>4, EventIsAt, TooCloseIsRight
<1>6. Events!Instant(events[n + 1], duration) - Events!Instant(events[n], duration) < Epsilon
  BY <1>1, <1>3, <1>5, EventIsAt
<1>7. /\ Events!Instant(events[n + 1], duration) \in Int /\ Events!Instant(events[n], duration) \in Int
      /\ Epsilon \in Int
  BY <1>1, <1>3, EventIsAt, ItemIs
<1>8. ~(Events!Instant(events[n + 1], duration) - Events!Instant(events[n], duration) >= Epsilon)
  BY <1>6, <1>7
<1> QED
  BY <1>2, <1>8 DEF Events!Placed

(* Events not called too close are apart for some duration the item admits.  *)
LEMMA SeparationFound == ChoiceInv => Events!SeparationIsFound
<1> SUFFICES ASSUME ChoiceInv, apart, item.known, ~Events!Folded(item)
             PROVE  \E d \in Events!Durations(item) : Events!Placed(events, d)
  BY DEF Events!SeparationIsFound
<1>0. item \in Items /\ refusal = "none" /\ duration \in Events!Durations(item)
  BY DEF ChoiceInv
<1>1. NoneRefused(item) /\ Epsilon \in Int
  BY <1>0, EventIsAt, ItemIs
<1>2. \A n \in 1 .. Len(events) - 1 :
        /\ n \in DOMAIN events /\ n + 1 \in DOMAIN events
        /\ Events!Precedes(Events!Nth(item, n), Events!Nth(item, n + 1))
        /\ Events!Nth(item, n) \in Events!Buckets(item) /\ Events!Nth(item, n + 1) \in Events!Buckets(item)
  BY <1>0, EventIsAt, EventsAre
<1>3. CASE item.timed
  <2>1. \A n \in 1 .. Len(events) - 1 :
          Moment(Events!Nth(item, n + 1), duration) - Moment(Events!Nth(item, n), duration) >= Epsilon
    <3> TAKE n \in 1 .. Len(events) - 1
    <3> DEFINE a == Events!Nth(item, n)
               b == Events!Nth(item, n + 1)
    <3>1. a \in Events!Buckets(item) /\ b \in Events!Buckets(item) /\ Events!Precedes(a, b)
      BY <1>2
    <3> HIDE DEF a, b
    <3>2. a.end = FALSE /\ b.end = FALSE /\ a.delay \in Int /\ b.delay \in Int
      BY <1>0, <1>1, <1>3, <3>1, TimedFromStart, TimingsAre DEF Events!Timing
    <3>3. a.delay < b.delay
      BY <3>1, <3>2 DEF Events!Precedes
    <3>4. ~(b.delay - a.delay < Epsilon)
      BY <1>1, <1>3, <3>1, <3>3 DEF NoneRefused
    <3>5. Moment(b, duration) - Moment(a, duration) >= Epsilon
      BY <1>1, <3>2, <3>4 DEF Moment
    <3> QED
      BY <3>5 DEF a, b
  <2> QED
    BY <1>0, <1>2, <2>1, EventIsAt DEF Events!Placed
<1>4. CASE ~item.timed
  <2> DEFINE d == Events!LongestKnown(item)
  <2>1. d \in Events!Durations(item)
    BY <1>0, <1>1, <1>4, DurationsAre
  <2>2. \A n \in 1 .. Len(events) - 1 : ~Events!TooClose(item, events[n].timing, events[n + 1].timing)
    BY <1>4 DEF ChoiceInv, Events!Apart
  <2> HIDE DEF d
  <2>3. \A n \in 1 .. Len(events) - 1 :
          Moment(Events!Nth(item, n + 1), d) - Moment(Events!Nth(item, n), d) >= Epsilon
    BY <1>0, <1>1, <1>2, <1>4, <2>1, <2>2, EventIsAt, TooCloseIsFound DEF d
  <2> QED
    BY <1>0, <1>2, <2>1, <2>3, EventIsAt DEF Events!Placed
<1> QED
  BY <1>3, <1>4

-----------------------------------------------------------------------------
(* A non-empty set of natural numbers has a least one.                       *)
LEMMA LeastNumber ==
  ASSUME NEW S \in SUBSET Nat, S # {}
  PROVE  \E m \in S : \A k \in S : m <= k
<1> DEFINE R == OpToRel(<, Nat)
<1>1. PICK m \in S : \A k \in S : ~(<<k, m>> \in R)
  <2> HIDE DEF R
  <2>1. IsWellFoundedOn(R, Nat)
    BY NatLessThanWellFounded DEF R
  <2> QED
    BY <2>1, WFMin
<1>2. \A k \in S : ~(k < m)
  BY <1>1 DEF OpToRel
<1> QED
  BY <1>2

(* What grows from each place to the next grows throughout.                  *)
LEMMA Increasing ==
  ASSUME NEW N \in Nat, NEW f, NEW step \in Nat, step > 0,
         \A n \in 1 .. N : f[n] \in Int,
         \A n \in 1 .. N - 1 : f[n + 1] - f[n] >= step
  PROVE  \A m, n \in 1 .. N : m < n => f[m] < f[n]
<1> DEFINE Bad == {n \in 1 .. N : \E m \in 1 .. N : m < n /\ ~(f[m] < f[n])}
<1> SUFFICES ASSUME Bad # {}
             PROVE  FALSE
  OBVIOUS
<1>1. Bad \in SUBSET Nat
  OBVIOUS
<1>2. PICK n \in Bad : \A k \in Bad : n <= k
  <2> HIDE DEF Bad
  <2> QED
    BY <1>1, LeastNumber
<1>3. PICK m \in 1 .. N : m < n /\ ~(f[m] < f[n])
  BY <1>2
<1>4. n \in 1 .. N /\ n - 1 \in 1 .. N - 1 /\ n - 1 \in 1 .. N /\ m <= n - 1
  BY <1>2, <1>3
<1>5. f[n] - f[n - 1] >= step /\ f[n] \in Int /\ f[n - 1] \in Int /\ f[m] \in Int
  BY <1>4, <1>3
<1>6. n - 1 \notin Bad
  BY <1>2, <1>4
<1>7. m = n - 1 \/ f[m] < f[n - 1]
  BY <1>3, <1>4, <1>6
<1> QED
  BY <1>3, <1>5, <1>7

(* The first event is the start.                                             *)
LEMMA StartIsFirst ==
  ASSUME NEW i \in Items, NoneRefused(i), NEW b \in Events!Buckets(i)
  PROVE  b = Events!At(0) \/ Events!Precedes(Events!At(0), b)
<1>1. /\ b \in Events!Timing /\ b.end \in BOOLEAN /\ b.delay \in Int
      /\ Events!At(0).end = FALSE /\ Events!At(0).delay = 0 /\ Events!At(0) = [end |-> FALSE, delay |-> 0]
  BY TimingsAre DEF Events!At, Events!Timing
<1>4. b.end = FALSE /\ b.delay = 0 => b = Events!At(0)
  BY <1>1 DEF Events!Timing
<1>5. b.end = TRUE => Events!Precedes(Events!At(0), b)
  BY <1>1 DEF Events!Precedes
<1>6. b.end = FALSE /\ b.delay > 0 => Events!Precedes(Events!At(0), b)
  BY <1>1 DEF Events!Precedes
<1>2. CASE i.timed
  <2>1. b.end = FALSE
    BY <1>2, TimedFromStart
  <2>2. b \in Events!Timings(i) \/ b = Events!At(0)
    BY <1>2, TimedFromStart DEF Events!Buckets, Events!Bucket
  <2>3. b \in Events!Timings(i) => ~(b.delay < 0)
    BY <1>2 DEF NoneRefused
  <2> QED
    BY <1>1, <1>4, <1>6, <2>1, <2>2, <2>3
<1>3. CASE ~i.timed
  <2>1. b.end \/ ~(b.delay < 0)
    BY <1>3 DEF NoneRefused
  <2> QED
    BY <1>1, <1>4, <1>5, <1>6, <2>1
<1> QED
  BY <1>2, <1>3

(* Where the events of an item that runs lie: apart, and before the end of   *)
(* the plan.                                                                 *)
LEMMA InstantsAre ==
  ASSUME ChoiceInv, Events!Runs
  PROVE  /\ Events!PlanEnd \in Int
         /\ \A b \in Events!Buckets(item) :
              Moment(b, duration) \in Int /\ 0 <= Moment(b, duration) /\ Moment(b, duration) < Events!PlanEnd
         /\ \A a, b \in Events!Buckets(item) : Events!Precedes(a, b) => Moment(a, duration) < Moment(b, duration)
<1>0. /\ refusal = "none" /\ Events!Placed(events, duration) /\ item \in Items
      /\ duration \in Events!Durations(item)
  BY DEF Events!Runs, ChoiceInv
<1> DEFINE N == Len(events)
           f == [n \in 1 .. N |-> Events!Instant(events[n], duration)]
           D == {duration} \cup {Events!Instant(events[n], duration) : n \in DOMAIN events}
<1>1. N \in Nat /\ N > 0 /\ DOMAIN events = 1 .. N /\ NoneRefused(item) /\ N = Cardinality(Events!Buckets(item))
  BY <1>0, EventIsAt
<1>2. \A n \in 1 .. N : f[n] = Moment(Events!Nth(item, n), duration) /\ f[n] \in Int
  BY <1>0, <1>1, EventIsAt
<1>3. \A m, n \in 1 .. N : m < n => f[m] < f[n]
  <2>1. \A n \in 1 .. N - 1 : f[n + 1] - f[n] >= Epsilon
    <3> TAKE n \in 1 .. N - 1
    <3>1. n \in 1 .. N /\ n + 1 \in 1 .. N
      BY <1>1
    <3> QED
      BY <1>0, <3>1 DEF Events!Placed
  <2>2. Epsilon \in Nat /\ Epsilon > 0
    BY <1>0, ItemIs
  <2> HIDE DEF N, f
  <2> QED
    BY <1>1, <1>2, <2>1, <2>2, Increasing
<1>4. \A b \in Events!Buckets(item) : \E n \in 1 .. N : Events!Nth(item, n) = b
  BY <1>0, <1>1, EventsAre
<1>5. \A a, b \in Events!Buckets(item) : Events!Precedes(a, b) => Moment(a, duration) < Moment(b, duration)
  <2> SUFFICES ASSUME NEW a \in Events!Buckets(item), NEW b \in Events!Buckets(item), Events!Precedes(a, b)
               PROVE  Moment(a, duration) < Moment(b, duration)
    OBVIOUS
  <2>1. PICK m \in 1 .. N : Events!Nth(item, m) = a
    BY <1>4
  <2>2. PICK n \in 1 .. N : Events!Nth(item, n) = b
    BY <1>4
  <2>3. m < n
    BY <1>0, <1>1, <2>1, <2>2, EventsAre
  <2>4. f[m] < f[n]
    BY <1>3, <2>3
  <2> QED
    BY <1>2, <2>1, <2>2, <2>4
<1>6. \A b \in Events!Buckets(item) : Moment(b, duration) \in Int
  BY <1>2, <1>4
<1>7. \A b \in Events!Buckets(item) : 0 <= Moment(b, duration)
  <2> TAKE b \in Events!Buckets(item)
  <2>1. Events!At(0) \in Events!Buckets(item) /\ Moment(Events!At(0), duration) = 0
    BY DEF Events!Buckets, Events!At, Moment
  <2>2. b = Events!At(0) \/ Events!Precedes(Events!At(0), b)
    BY <1>0, <1>1, StartIsFirst
  <2> QED
    BY <1>5, <1>6, <2>1, <2>2
<1>8. Events!Max(D) \in Int /\ \A x \in D : x <= Events!Max(D)
  <2>1. duration \in Int
    BY <1>0, <1>1, DurationsAre
  <2>2. \A n \in 1 .. N : f[n] <= f[N]
    <3> TAKE n \in 1 .. N
    <3>1. n = N \/ n < N
      BY <1>1
    <3>2. N \in 1 .. N
      BY <1>1
    <3> QED
      BY <1>2, <1>3, <3>1, <3>2
  <2>3. D = {duration} \cup {f[n] : n \in 1 .. N} /\ N \in 1 .. N
    BY <1>1
  <2>4. f[N] \in Int
    BY <1>2, <2>3
  <2>5. \A x \in D : x \in Int
    BY <1>2, <2>1, <2>3
  <2> HIDE DEF D, f, N
  <2>6. \E x \in D : \A y \in D : x >= y
    <3>1. CASE duration >= f[N]
      BY <1>2, <2>1, <2>2, <2>3, <2>4, <3>1
    <3>2. CASE ~(duration >= f[N])
      BY <1>2, <2>1, <2>2, <2>3, <2>4, <3>2
    <3> QED
      BY <3>1, <3>2
  <2>7. Events!Max(D) \in D /\ \A y \in D : Events!Max(D) >= y
    BY <2>6 DEF Events!Max
  <2> QED
    BY <2>5, <2>7
<1>9. Events!PlanEnd = Events!Max(D) + 1
  BY DEF Events!PlanEnd
<1>10. \A b \in Events!Buckets(item) : Moment(b, duration) < Events!PlanEnd
  <2> TAKE b \in Events!Buckets(item)
  <2>1. PICK n \in 1 .. N : Events!Nth(item, n) = b
    BY <1>4
  <2>2. Moment(b, duration) \in D
    BY <1>1, <1>2, <2>1
  <2> HIDE DEF D
  <2> QED
    BY <1>6, <1>8, <1>9, <2>2
<1> QED
  BY <1>5, <1>6, <1>7, <1>8, <1>9, <1>10

-----------------------------------------------------------------------------
(* What is maintained, with how often.                                       *)
Bearing(A, l) == {c \in A : c.holds = l}

(* The multiset counts, for a literal, the intervals that bear it.           *)
LEMMA LiteralsAre ==
  ASSUME NEW A, IsFiniteSet(A)
  PROVE  /\ Events!Literals(A) = [l \in {c.holds : c \in A} |-> Cardinality(Bearing(A, l))]
         /\ \A l : IsFiniteSet(Bearing(A, l)) /\ Cardinality(Bearing(A, l)) \in Nat
         /\ \A l : l \in {c.holds : c \in A} <=> Cardinality(Bearing(A, l)) > 0
<1>1. \A l : IsFiniteSet(Bearing(A, l)) /\ Cardinality(Bearing(A, l)) \in Nat
  BY FS_Subset, FS_CardinalityType DEF Bearing
<1>2. \A l : Cardinality(Bearing(A, l)) = 0 <=> Bearing(A, l) = {}
  BY <1>1, FS_EmptySet
<1>3. \A l : l \in {c.holds : c \in A} <=> Bearing(A, l) # {}
  BY DEF Bearing
<1>4. Events!Literals(A) = [l \in {c.holds : c \in A} |-> Cardinality(Bearing(A, l))]
  BY EventSetsAre DEF Events!Literals, Bearing
<1> QED
  BY <1>1, <1>2, <1>3, <1>4

(* Starting intervals adds their literals to those of the others.            *)
LEMMA StartedIs ==
  ASSUME NEW A, NEW B, IsFiniteSet(A), IsFiniteSet(B), A \cap B = {}
  PROVE  Events!Started(Events!Literals(A), B) = Events!Literals(A \cup B)
<1> DEFINE D == {c.holds : c \in A}
           E == {c.holds : c \in B}
           F == {c.holds : c \in A \cup B}
<1>1. IsFiniteSet(A \cup B)
  BY FS_Union
<1>2. F = D \cup E
  OBVIOUS
<1>3. \A l : Cardinality(Bearing(A \cup B, l)) = Cardinality(Bearing(A, l)) + Cardinality(Bearing(B, l))
  <2> TAKE l
  <2>1. Bearing(A \cup B, l) = Bearing(A, l) \cup Bearing(B, l) /\ Bearing(A, l) \cap Bearing(B, l) = {}
    BY DEF Bearing
  <2>2. IsFiniteSet(Bearing(A, l)) /\ IsFiniteSet(Bearing(B, l))
    BY LiteralsAre
  <2>3. Cardinality(Bearing(A, l) \cup Bearing(B, l))
          = Cardinality(Bearing(A, l)) + Cardinality(Bearing(B, l)) - Cardinality(Bearing(A, l) \cap Bearing(B, l))
    BY <2>2, FS_Union
  <2>4. Cardinality(Bearing(A, l) \cap Bearing(B, l)) = 0
    BY <2>1, FS_EmptySet
  <2>5. Cardinality(Bearing(A, l)) \in Nat /\ Cardinality(Bearing(B, l)) \in Nat
    BY LiteralsAre
  <2>6. Cardinality(Bearing(A \cup B, l)) = Cardinality(Bearing(A, l) \cup Bearing(B, l))
    BY <2>1, Zenon
  <2> HIDE DEF D, E, F
  <2> QED
    BY <2>3, <2>4, <2>5, <2>6
<1>4. /\ Events!Literals(A) = [l \in D |-> Cardinality(Bearing(A, l))]
      /\ Events!Literals(B) = [l \in E |-> Cardinality(Bearing(B, l))]
      /\ Events!Literals(A \cup B) = [l \in F |-> Cardinality(Bearing(A \cup B, l))]
      /\ \A l : l \in D <=> Cardinality(Bearing(A, l)) > 0
      /\ \A l : l \in E <=> Cardinality(Bearing(B, l)) > 0
      /\ \A l : Cardinality(Bearing(A, l)) \in Nat /\ Cardinality(Bearing(B, l)) \in Nat
  BY <1>1, LiteralsAre
<1> HIDE DEF D, E, F
<1>5. Events!Started(Events!Literals(A), B)
        = [e \in D \cup E |-> (IF e \in D THEN Events!Literals(A)[e] ELSE 0)
                                + (IF e \in E THEN Events!Literals(B)[e] ELSE 0)]
  <2>1. DOMAIN Events!Literals(A) = D /\ DOMAIN Events!Literals(B) = E
    BY <1>4
  <2> QED
    BY <2>1 DEF Events!Started, Events!(+)
<1>6. \A e \in D \cup E : (IF e \in D THEN Events!Literals(A)[e] ELSE 0) + (IF e \in E THEN Events!Literals(B)[e] ELSE 0)
                            = Cardinality(Bearing(A \cup B, e))
  BY <1>3, <1>4
<1> QED
  BY <1>2, <1>4, <1>5, <1>6

(* Releasing intervals under way leaves the literals of the others.          *)
LEMMA ReleasedIs ==
  ASSUME NEW A, NEW B, IsFiniteSet(A), B \subseteq A
  PROVE  Events!Released(Events!Literals(A), B) = Events!Literals(A \ B)
<1> DEFINE D == {c.holds : c \in A}
           E == {c.holds : c \in B}
           F == {c.holds : c \in A \ B}
           count(l) == Cardinality(Bearing(A, l)) - Cardinality(Bearing(B, l))
<1>1. IsFiniteSet(A \ B) /\ IsFiniteSet(B)
  BY FS_Subset
<1>3. \A l : Cardinality(Bearing(A \ B, l)) = Cardinality(Bearing(A, l)) - Cardinality(Bearing(B, l))
  <2> TAKE l
  <2>1. Bearing(A \ B, l) = Bearing(A, l) \ Bearing(B, l) /\ Bearing(A, l) \cap Bearing(B, l) = Bearing(B, l)
    BY DEF Bearing
  <2>2. IsFiniteSet(Bearing(A, l))
    BY LiteralsAre
  <2> QED
    BY <2>1, <2>2, FS_Difference
<1>4. /\ Events!Literals(A) = [l \in D |-> Cardinality(Bearing(A, l))]
      /\ Events!Literals(B) = [l \in E |-> Cardinality(Bearing(B, l))]
      /\ Events!Literals(A \ B) = [l \in F |-> Cardinality(Bearing(A \ B, l))]
      /\ \A l : l \in D <=> Cardinality(Bearing(A, l)) > 0
      /\ \A l : l \in E <=> Cardinality(Bearing(B, l)) > 0
      /\ \A l : l \in F <=> Cardinality(Bearing(A \ B, l)) > 0
      /\ \A l : Cardinality(Bearing(A, l)) \in Nat /\ Cardinality(Bearing(B, l)) \in Nat
  BY <1>1, LiteralsAre
<1> HIDE DEF D, E, F
<1> DEFINE L == [e \in D |-> IF e \in E THEN Events!Literals(A)[e] - Events!Literals(B)[e]
                             ELSE Events!Literals(A)[e]]
<1>5. Events!Released(Events!Literals(A), B) = [e \in {d \in DOMAIN L : L[d] > 0} |-> L[e]]
  <2>1. DOMAIN Events!Literals(A) = D /\ DOMAIN Events!Literals(B) = E
    BY <1>4
  <2> QED
    BY <2>1 DEF Events!Released, Events!(-)
<1>6. DOMAIN L = D /\ \A e \in D : L[e] = Cardinality(Bearing(A \ B, e))
  <2>1. \A e : e \notin E => Cardinality(Bearing(B, e)) = 0
    BY <1>4
  <2>2. \A e \in D : Events!Literals(A)[e] = Cardinality(Bearing(A, e))
    BY <1>4
  <2>3. \A e \in E : Events!Literals(B)[e] = Cardinality(Bearing(B, e))
    BY <1>4
  <2>4. \A e \in D : L[e] = Cardinality(Bearing(A \ B, e))
    <3> TAKE e \in D
    <3>1. CASE e \in E
      BY <1>3, <2>2, <2>3, <3>1
    <3>2. CASE e \notin E
      <4>1. Cardinality(Bearing(B, e)) = 0 /\ Cardinality(Bearing(A, e)) \in Nat
        BY <1>4, <2>1, <3>2
      <4>2. Cardinality(Bearing(A \ B, e)) = Cardinality(Bearing(A, e))
        BY <1>3, <4>1
      <4>3. L[e] = Cardinality(Bearing(A, e))
        BY <2>2, <3>2
      <4> QED
        BY <4>2, <4>3
    <3> QED
      BY <3>1, <3>2
  <2> QED
    BY <2>4
<1>7. F \subseteq D
  BY DEF F, D
<1> HIDE DEF L
<1>8. {d \in DOMAIN L : L[d] > 0} = F
  BY <1>4, <1>6, <1>7
<1> QED
  BY <1>4, <1>5, <1>6, <1>7, <1>8

-----------------------------------------------------------------------------
(* The bounds of the intervals of an item that runs.                         *)
LEMMA WhenIs == \A t : Events!When(t) = Moment(t, duration)
BY DEF Events!When, Moment

(* The timings of an interval that is not dropped are among the item's.      *)
LEMMA TimingsOfKept ==
  ASSUME NEW i \in Items, NEW c \in Events!Kept(i)
  PROVE  /\ c.lower \in Events!Timings(i) /\ c.lower \in Events!Timing /\ c.upper \in Events!Timing
         /\ ~Events!Lasting(i, c) => c.upper \in Events!Timings(i)
         /\ c \in i.conditions
<1>1. c \in i.conditions
  BY DEF Events!Kept
<1> QED
  BY <1>1, ItemIs DEF Events!Timings, Events!ItemWellFormed

(* While the item runs, every timing falls within the plan, and on an        *)
(* event.                                                                    *)
LEMMA MomentIs ==
  ASSUME ChoiceInv, Events!Runs, NEW t \in Events!Timings(item)
  PROVE  /\ Moment(t, duration) \in Int /\ 0 <= Moment(t, duration) /\ Moment(t, duration) < Events!PlanEnd
         /\ Events!Bucket(item, t) \in Events!Buckets(item)
         /\ Moment(Events!Bucket(item, t), duration) = Moment(t, duration)
<1>1. item \in Items /\ NoneRefused(item) /\ duration \in Events!Durations(item)
  BY EventIsAt DEF Events!Runs, ChoiceInv
<1>2. /\ Events!Bucket(item, t) \in Events!Buckets(item)
      /\ Moment(Events!Bucket(item, t), duration) = Moment(t, duration)
  BY <1>1, BucketMoment
<1> QED
  BY <1>2, InstantsAre

(* An interval that is kept is not empty, and starts before it ends.         *)
LEMMA InOrder ==
  ASSUME ChoiceInv, Events!Runs, NEW c \in Events!Kept(item), ~Events!IsPoint(c), ~Events!Lasting(item, c)
  PROVE  Events!Precedes(Events!Bucket(item, c.lower), Events!Bucket(item, c.upper))
<1>1. item \in Items /\ NoneRefused(item)
  BY EventIsAt DEF Events!Runs, ChoiceInv
<1>2. /\ c \in item.conditions /\ c.lower \in Events!Timings(item) /\ c.upper \in Events!Timings(item)
      /\ c.lower.end \in BOOLEAN /\ c.lower.delay \in Int /\ c.upper.end \in BOOLEAN /\ c.upper.delay \in Int
      /\ c.lower.end = c.upper.end /\ c.lower.delay = c.upper.delay => c.lower = c.upper
  BY <1>1, TimingsOfKept DEF Events!Timing
<1>3. c.lower.end = c.upper.end /\ ~Events!Empty(c) => c.lower.delay < c.upper.delay
  BY <1>2 DEF Events!Empty, Events!IsPoint
<1>4. CASE item.timed
  <2>1. c.lower.end = FALSE /\ c.upper.end = FALSE /\ ~Events!Folded(item)
    BY <1>1, <1>2, <1>4, TimedFromStart
  <2>4. \A d \in item.conditions : d.upper.end \/ ~Events!Empty(d)
    BY <1>1, <1>4 DEF NoneRefused
  <2>2. ~Events!Empty(c)
    BY <1>2, <2>1, <2>4
  <2>3. c.lower.delay < c.upper.delay
    BY <1>3, <2>1, <2>2
  <2> QED
    BY <2>1, <2>3 DEF Events!Precedes, Events!Bucket
<1>5. CASE ~item.timed
  <2>1. ~Events!Empty(c)
    BY <1>5 DEF Events!Kept
  <2>2. /\ ~(c.lower.end /\ ~c.upper.end)
        /\ Events!Folded(item) => Events!Bucket(item, c.lower).delay < Events!Bucket(item, c.upper).delay
    BY <1>1, <1>5, ItemIs DEF Events!IntervalsFit
  <2>3. CASE Events!Folded(item)
    <3>1. /\ Events!Bucket(item, c.lower) \in Events!Buckets(item)
          /\ Events!Bucket(item, c.upper) \in Events!Buckets(item)
      BY <1>2, MomentIs
    <3>2. Events!Bucket(item, c.lower).end = FALSE /\ Events!Bucket(item, c.upper).end = FALSE
      BY <1>1, <2>3, <3>1, BucketIs
    <3> QED
      BY <2>2, <2>3, <3>2 DEF Events!Precedes
  <2>4. CASE ~Events!Folded(item)
    <3>1. Events!Bucket(item, c.lower) = c.lower /\ Events!Bucket(item, c.upper) = c.upper
      BY <2>4 DEF Events!Bucket
    <3>2. CASE c.lower.end = c.upper.end
      BY <1>3, <2>1, <3>1, <3>2 DEF Events!Precedes
    <3>3. CASE c.lower.end # c.upper.end
      BY <1>2, <2>2, <3>1, <3>3 DEF Events!Precedes
    <3> QED
      BY <3>2, <3>3
  <2> QED
    BY <2>3, <2>4
<1> QED
  BY <1>4, <1>5

(* The bounds of an interval that is not dropped, and their order.           *)
LEMMA BoundsAre ==
  ASSUME ChoiceInv, Events!Runs, NEW c \in Events!Kept(item)
  PROVE  /\ Events!LowerOf(c) = Moment(c.lower, duration)
         /\ Events!LowerOf(c) \in Int /\ 0 <= Events!LowerOf(c) /\ Events!LowerOf(c) < Events!PlanEnd
         /\ Events!UpperOf(c) \in Int
         /\ Events!Lasting(item, c) => Events!UpperOf(c) = Events!PlanEnd + 1
         /\ ~Events!Lasting(item, c) => /\ Events!UpperOf(c) = Moment(c.upper, duration)
                                        /\ Events!UpperOf(c) < Events!PlanEnd
         /\ Events!IsPoint(c) => ~Events!Lasting(item, c) /\ Events!UpperOf(c) = Events!LowerOf(c)
         /\ ~Events!IsPoint(c) => Events!LowerOf(c) < Events!UpperOf(c)
         /\ ~Events!NoInstant(c)
<1>1. item \in Items /\ NoneRefused(item) /\ Events!PlanEnd \in Int
  BY EventIsAt, InstantsAre DEF Events!Runs, ChoiceInv
<1>2. /\ c.lower \in Events!Timings(item) /\ c \in item.conditions
      /\ ~Events!Lasting(item, c) => c.upper \in Events!Timings(item)
  BY <1>1, TimingsOfKept
<1>3. /\ Events!LowerOf(c) = Moment(c.lower, duration)
      /\ Events!LowerOf(c) \in Int /\ 0 <= Events!LowerOf(c) /\ Events!LowerOf(c) < Events!PlanEnd
  BY <1>2, MomentIs, WhenIs DEF Events!LowerOf
<1>4. Events!Lasting(item, c) => Events!UpperOf(c) = Events!PlanEnd + 1
  BY DEF Events!UpperOf
<1>5. ~Events!Lasting(item, c) => /\ Events!UpperOf(c) = Moment(c.upper, duration)
                                  /\ Events!UpperOf(c) < Events!PlanEnd
                                  /\ Events!UpperOf(c) \in Int
  BY <1>2, MomentIs, WhenIs DEF Events!UpperOf
<1>6. Events!IsPoint(c) => ~Events!Lasting(item, c)
  <2> SUFFICES ASSUME Events!IsPoint(c), item.timed
               PROVE  ~c.upper.end
    BY DEF Events!Lasting
  <2> QED
    BY <1>1, <1>2, TimedFromStart DEF Events!IsPoint
<1>7. Events!IsPoint(c) => Events!UpperOf(c) = Events!LowerOf(c)
  BY <1>3, <1>5, <1>6 DEF Events!IsPoint
<1>8. ~Events!IsPoint(c) => Events!LowerOf(c) < Events!UpperOf(c)
  <2> SUFFICES ASSUME ~Events!IsPoint(c), ~Events!Lasting(item, c)
               PROVE  Events!LowerOf(c) < Events!UpperOf(c)
    BY <1>1, <1>3, <1>4
  <2>1. Events!Precedes(Events!Bucket(item, c.lower), Events!Bucket(item, c.upper))
    BY InOrder
  <2> QED
    BY <1>2, <1>3, <1>5, <2>1, InstantsAre, MomentIs
<1>9. ~Events!NoInstant(c)
  <2>1. CASE ~Events!IsPoint(c)
    BY <1>3, <1>4, <1>5, <1>1, <1>8, <2>1 DEF Events!NoInstant
  <2>2. CASE Events!IsPoint(c)
    <3>1. ~Events!Empty(c)
      BY <1>1, <1>2, <1>6, <2>2 DEF NoneRefused, Events!Kept, Events!Lasting
    <3>2. ~c.leftOpen /\ ~c.rightOpen
      BY <2>2, <3>1 DEF Events!Empty, Events!IsPoint
    <3> QED
      BY <1>3, <1>7, <2>2, <3>2 DEF Events!NoInstant
  <2> QED
    BY <2>1, <2>2
<1> QED
  BY <1>1, <1>3, <1>4, <1>5, <1>6, <1>7, <1>8, <1>9

(* Nothing but empty intervals is dropped.                                   *)
LEMMA KeptAre ==
  ASSUME ChoiceInv, Events!Runs, NEW c \in item.conditions
  PROVE  c \in Events!Kept(item) <=> ~Events!NoInstant(c)
<1>1. item \in Items /\ duration \in Int
  BY EventIsAt, DurationsAre DEF Events!Runs, ChoiceInv
<1>2. c \in Events!Kept(item) => ~Events!NoInstant(c)
  BY BoundsAre
<1>3. ASSUME c \notin Events!Kept(item) PROVE Events!NoInstant(c)
  <2>1. ~item.timed /\ Events!Empty(c)
    BY <1>3 DEF Events!Kept
  <2>2. /\ c.lower.delay \in Int /\ c.upper.delay \in Int /\ c.lower.end = c.upper.end
        /\ c.lower.end \in BOOLEAN
        /\ \/ c.lower.delay > c.upper.delay
           \/ c.lower.delay = c.upper.delay /\ (c.leftOpen \/ c.rightOpen)
    BY <1>1, <2>1, ItemIs DEF Events!ItemWellFormed, Events!Timing, Events!Empty
  <2>3. Events!LowerOf(c) = Moment(c.lower, duration) /\ Events!UpperOf(c) = Moment(c.upper, duration)
    BY <2>1, WhenIs DEF Events!LowerOf, Events!UpperOf, Events!Lasting
  <2>4. \/ Events!LowerOf(c) > Events!UpperOf(c)
        \/ Events!LowerOf(c) = Events!UpperOf(c) /\ (c.leftOpen \/ c.rightOpen)
    <3>1. CASE c.lower.end = TRUE
      BY <1>1, <2>2, <2>3, <3>1 DEF Moment
    <3>2. CASE c.lower.end = FALSE
      BY <1>1, <2>2, <2>3, <3>2 DEF Moment
    <3> QED
      BY <2>2, <3>1, <3>2
  <2> QED
    BY <2>4 DEF Events!NoInstant
<1> QED
  BY <1>2, <1>3

(* The parts of an event, by the instant it happens at.                      *)
LEMMA SameInstant ==
  ASSUME ChoiceInv, Events!Runs, NEW t \in Events!Timings(item), NEW b \in Events!Buckets(item)
  PROVE  Events!Bucket(item, t) = b <=> Moment(t, duration) = Moment(b, duration)
<1>1. item \in Items
  BY DEF ChoiceInv
<1>2. /\ Events!Bucket(item, t) \in Events!Buckets(item)
      /\ Moment(Events!Bucket(item, t), duration) = Moment(t, duration)
      /\ Moment(t, duration) \in Int /\ Moment(b, duration) \in Int
  BY MomentIs, InstantsAre
<1>3. Events!Buckets(item) \subseteq Events!Timing
  BY <1>1, TimingsAre
<1>4. ASSUME Events!Bucket(item, t) # b PROVE Moment(t, duration) # Moment(b, duration)
  BY <1>2, <1>3, <1>4, PrecedesIs, InstantsAre
<1> QED
  BY <1>2, <1>4

ChecksAt(T) ==
  {c \in Events!Kept(item) :
     \/ Events!LowerOf(c) = T /\ (Events!IsPoint(c) \/ ~c.leftOpen)
     \/ Events!UpperOf(c) = T /\ ~Events!Lasting(item, c) /\ (Events!IsPoint(c) \/ ~c.rightOpen)}
StartsAt(T) == {c \in Events!Kept(item) : ~Events!IsPoint(c) /\ Events!LowerOf(c) = T}
EndsAt(T) ==
  {c \in Events!Kept(item) : ~Events!IsPoint(c) /\ Events!UpperOf(c) = T /\ ~Events!Lasting(item, c)}

(* What an event checks, starts and releases is what its instant asks for.   *)
LEMMA PartsAre ==
  ASSUME ChoiceInv, Events!Runs, NEW n \in DOMAIN events
  PROVE  LET T == Events!Instant(events[n], duration) IN
         /\ T \in Int /\ 0 <= T /\ T < Events!PlanEnd
         /\ events[n].checks = ChecksAt(T)
         /\ events[n].starts = StartsAt(T)
         /\ events[n].ends = EndsAt(T)
<1> DEFINE b == Events!Nth(item, n)
           T == Events!Instant(events[n], duration)
           Here == {u \in Events!Timings(item) : Events!Bucket(item, u) = b}
<1>1. item \in Items /\ refusal = "none" /\ duration \in Events!Durations(item)
  BY DEF Events!Runs, ChoiceInv
<1>2. b \in Events!Buckets(item) /\ events[n] = Events!EventAt(item, b) /\ T = Moment(b, duration)
  BY <1>1, EventIsAt
<1>3. T \in Int /\ 0 <= T /\ T < Events!PlanEnd
  BY <1>2, InstantsAre
<1>4. \A u \in Events!Timings(item) : u \in Here <=> Moment(u, duration) = T
  BY <1>2, SameInstant
<1>5. \A c \in Events!Kept(item) :
        /\ c.lower \in Here <=> Events!LowerOf(c) = T
        /\ ~Events!Lasting(item, c) => (c.upper \in Here <=> Events!UpperOf(c) = T)
  BY <1>1, <1>4, TimingsOfKept, BoundsAre
<1>6. /\ events[n].checks = UNION {Events!Checked(item, t) : t \in Here}
      /\ events[n].starts = UNION {Events!Starting(item, t) : t \in Here}
      /\ events[n].ends = UNION {Events!Ending(item, t) : t \in Here}
  BY <1>2 DEF Events!EventAt, Events!Merged
<1> HIDE DEF Here, T
<1>7. UNION {Events!Checked(item, t) : t \in Here} = ChecksAt(T)
  BY <1>5 DEF Events!Checked, ChecksAt
<1>8. UNION {Events!Starting(item, t) : t \in Here} = StartsAt(T)
  BY <1>5 DEF Events!Starting, StartsAt
<1>9. UNION {Events!Ending(item, t) : t \in Here} = EndsAt(T)
  BY <1>5 DEF Events!Ending, EndsAt
<1> QED
  BY <1>3, <1>6, <1>7, <1>8, <1>9 DEF T

(* Every timing of the item has an event.                                    *)
LEMMA EveryTiming ==
  ASSUME ChoiceInv, Events!Runs, NEW t \in Events!Timings(item)
  PROVE  \E n \in DOMAIN events : Events!Instant(events[n], duration) = Moment(t, duration)
<1>1. item \in Items /\ refusal = "none" /\ duration \in Events!Durations(item)
  BY DEF Events!Runs, ChoiceInv
<1>2. /\ Events!Bucket(item, t) \in Events!Buckets(item)
      /\ Moment(Events!Bucket(item, t), duration) = Moment(t, duration)
  BY MomentIs
<1>3. PICK n \in 1 .. Cardinality(Events!Buckets(item)) : Events!Nth(item, n) = Events!Bucket(item, t)
  BY <1>1, <1>2, EventsAre
<1>4. n \in DOMAIN events
  BY <1>1, EventIsAt
<1> QED
  BY <1>1, <1>2, <1>3, <1>4, EventIsAt

(* Every bound has an event.                                                 *)
LEMMA EveryBound ==
  ASSUME ChoiceInv, Events!Runs, NEW c \in Events!Kept(item)
  PROVE  /\ \E n \in DOMAIN events : Events!Instant(events[n], duration) = Events!LowerOf(c)
         /\ ~Events!Lasting(item, c) =>
              \E n \in DOMAIN events : Events!Instant(events[n], duration) = Events!UpperOf(c)
<1>1. item \in Items /\ refusal = "none" /\ duration \in Events!Durations(item)
  BY DEF Events!Runs, ChoiceInv
<1> QED
  BY <1>1, EveryTiming, TimingsOfKept, BoundsAre

(* What is maintained after an instant.                                      *)
Maintained(T) == {c \in Events!Kept(item) : Events!LowerOf(c) <= T /\ T < Events!UpperOf(c)}

(* From one instant to the next, what ends is released and what starts is    *)
(* added.                                                                    *)
LEMMA MaintainedIs ==
  ASSUME ChoiceInv, Events!Runs, NEW T \in Int, T <= Events!PlanEnd
  PROVE  /\ IsFiniteSet(Maintained(T)) /\ IsFiniteSet(Maintained(T - 1)) /\ IsFiniteSet(StartsAt(T))
         /\ EndsAt(T) \subseteq Maintained(T - 1)
         /\ (Maintained(T - 1) \ EndsAt(T)) \cap StartsAt(T) = {}
         /\ Maintained(T) = (Maintained(T - 1) \ EndsAt(T)) \cup StartsAt(T)
         /\ T < 0 => Maintained(T) = {}
<1>1. item \in Items /\ Events!PlanEnd \in Int
  BY InstantsAre DEF ChoiceInv
<1>2. \A c \in Events!Kept(item) :
        /\ Events!LowerOf(c) \in Int /\ 0 <= Events!LowerOf(c) /\ Events!LowerOf(c) < Events!PlanEnd
        /\ Events!UpperOf(c) \in Int
        /\ Events!Lasting(item, c) => Events!UpperOf(c) = Events!PlanEnd + 1
        /\ Events!IsPoint(c) => Events!UpperOf(c) = Events!LowerOf(c)
        /\ ~Events!IsPoint(c) => Events!LowerOf(c) < Events!UpperOf(c)
  BY BoundsAre
<1>3. IsFiniteSet(Maintained(T)) /\ IsFiniteSet(Maintained(T - 1)) /\ IsFiniteSet(StartsAt(T))
  BY <1>1, KeptFinite DEF Maintained, StartsAt
<1>4. EndsAt(T) \subseteq Maintained(T - 1)
  BY <1>2 DEF EndsAt, Maintained
<1>5. (Maintained(T - 1) \ EndsAt(T)) \cap StartsAt(T) = {}
  BY <1>2 DEF StartsAt, Maintained
<1>6. \A c \in Events!Kept(item) :
        c \in Maintained(T) <=> c \in (Maintained(T - 1) \ EndsAt(T)) \cup StartsAt(T)
  BY <1>1, <1>2 DEF EndsAt, StartsAt, Maintained
<1>7. T < 0 => Maintained(T) = {}
  BY <1>2 DEF Maintained
<1>8. Maintained(T) = (Maintained(T - 1) \ EndsAt(T)) \cup StartsAt(T)
  BY <1>6 DEF EndsAt, StartsAt, Maintained
<1> QED
  BY <1>3, <1>4, <1>5, <1>7, <1>8

-----------------------------------------------------------------------------
(* The two verdicts agree at every step.                                     *)
Lits(A) == {c.holds : c \in A}
VerdictInv ==
  /\ ChoiceInv
  /\ clock \in Int /\ 0 <= clock /\ due \in BOOLEAN
  /\ verdict \in BOOLEAN /\ truth = verdict
  /\ ~due => Events!Runs /\ clock <= Events!PlanEnd
  /\ Events!Runs => active = Events!Literals(Maintained(IF due THEN clock - 1 ELSE clock))
  /\ Events!Runs /\ truth =>
       Events!AllHold(Lits(Maintained(IF due THEN clock - 1 ELSE clock)), state)

(* The multiset's elements are the literals.                                 *)
LEMMA ToSetIs ==
  ASSUME NEW A
  PROVE  Events!BagToSet(Events!Literals(A)) = Lits(A)
BY DEF Events!BagToSet, Events!Literals, Lits

(* What the intervals require at an instant and on finding it.               *)
LEMMA MaintainedInIs ==
  ASSUME ChoiceInv, Events!Runs, NEW T
  PROVE  /\ Events!MaintainedIn(T) = Lits(Maintained(T))
         /\ Events!FoundAt(T) = Lits({c \in Events!Kept(item) : ~c.leftOpen /\ Events!LowerOf(c) = T})
<1>1. Events!Kept(item) \subseteq item.conditions
  BY DEF Events!Kept
<1>2. {d \in item.conditions : ~Events!NoInstant(d) /\ Events!LowerOf(d) <= T /\ T < Events!UpperOf(d)} = Maintained(T)
  BY <1>1, KeptAre DEF Maintained
<1>3. {d \in item.conditions : ~Events!NoInstant(d) /\ ~d.leftOpen /\ Events!LowerOf(d) = T}
        = {c \in Events!Kept(item) : ~c.leftOpen /\ Events!LowerOf(c) = T}
  BY <1>1, KeptAre
<1> QED
  BY <1>2, <1>3 DEF Events!MaintainedIn, Events!FoundAt, Lits

(* What an event checks is what its instant finds, apart from what was       *)
(* maintained until then.                                                    *)
LEMMA ChecksAre ==
  ASSUME ChoiceInv, Events!Runs, NEW T \in Int, NEW s,
         Events!AllHold(Lits(Maintained(T - 1)), s)
  PROVE  Events!AllHold(Lits(ChecksAt(T)), s) <=> Events!AllHold(Events!FoundAt(T), s)
<1>1. \A c \in Events!Kept(item) :
        /\ Events!LowerOf(c) \in Int /\ Events!UpperOf(c) \in Int
        /\ Events!IsPoint(c) => Events!UpperOf(c) = Events!LowerOf(c)
        /\ ~Events!IsPoint(c) => Events!LowerOf(c) < Events!UpperOf(c)
        /\ ~Events!NoInstant(c)
  BY BoundsAre
<1>2. \A c \in Events!Kept(item) : Events!IsPoint(c) => ~c.leftOpen
  BY <1>1 DEF Events!NoInstant
<1> DEFINE Found == {c \in Events!Kept(item) : ~c.leftOpen /\ Events!LowerOf(c) = T}
<1>3. Found \subseteq ChecksAt(T)
  BY DEF ChecksAt
<1>4. \A c \in ChecksAt(T) : c \in Found \/ c \in Maintained(T - 1)
  BY <1>1, <1>2 DEF ChecksAt, Maintained
<1>5. Events!FoundAt(T) = Lits(Found)
  BY MaintainedInIs
<1> HIDE DEF Found
<1> QED
  BY <1>3, <1>4, <1>5 DEF Events!AllHold, Lits

(* The invariant holds before the first instant.                             *)
LEMMA VerdictInit == Events!Init => VerdictInv
<1> SUFFICES ASSUME Events!Init PROVE VerdictInv
  OBVIOUS
<1>1. ChoiceInv
  BY DEF Events!Init, ChoiceInv
<1>2. clock = 0 /\ due = TRUE /\ verdict = TRUE /\ truth = TRUE
  BY DEF Events!Init
<1>3. ASSUME Events!Runs
      PROVE  active = Events!Literals(Maintained(clock - 1)) /\ Events!AllHold(Lits(Maintained(clock - 1)), state)
  <2>1. Maintained(-1) = {}
    <3>1. -1 <= Events!PlanEnd
      <4>1. Events!At(0) \in Events!Buckets(item)
        BY DEF Events!Buckets
      <4> QED
        BY <1>1, <1>3, <4>1, InstantsAre
    <3> QED
      BY <1>1, <1>3, <3>1, MaintainedIs
  <2>2. active = Events!EmptyBag
    BY DEF Events!Init
  <2>3. Events!EmptyBag = Events!Literals({})
    BY DEF Events!EmptyBag, Events!SetToBag, Events!Literals
  <2> QED
    BY <1>2, <2>1, <2>2, <2>3 DEF Events!AllHold, Lits
<1> QED
  BY <1>1, <1>2, <1>3 DEF VerdictInv

(* The instants stay where they are.                                         *)
LEMMA SameChoice ==
  ASSUME ChoiceInv, UNCHANGED Events!choice
  PROVE  /\ ChoiceInv' /\ Events!Runs' = Events!Runs /\ Events!PlanEnd' = Events!PlanEnd
         /\ \A T : Maintained(T)' = Maintained(T)
<1>1. item' = item /\ events' = events /\ refusal' = refusal /\ apart' = apart /\ duration' = duration
  BY DEF Events!choice
<1>2. ChoiceInv'
  BY <1>1 DEF ChoiceInv, Events!Apart
<1>3. Events!Runs' = Events!Runs
  BY <1>1 DEF Events!Runs, Events!Placed
<1>4. Events!PlanEnd' = Events!PlanEnd
  BY <1>1 DEF Events!PlanEnd
<1>5. \A T : Maintained(T)' = Maintained(T)
  BY <1>1, <1>4 DEF Maintained, Events!LowerOf, Events!UpperOf, Events!When
<1> QED
  BY <1>2, <1>3, <1>4, <1>5

(* An instant: the event that is due happens, if there is one.               *)
LEMMA NoEventAt ==
  ASSUME ChoiceInv, Events!Runs, NEW T \in Int, T <= Events!PlanEnd,
         \A n \in DOMAIN events : Events!Instant(events[n], duration) # T
  PROVE  Maintained(T) = Maintained(T - 1) /\ Events!FoundAt(T) = {}
<1>1. \A c \in Events!Kept(item) : Events!LowerOf(c) # T /\ (~Events!Lasting(item, c) => Events!UpperOf(c) # T)
  BY EveryBound
<1>2. StartsAt(T) = {} /\ EndsAt(T) = {}
  BY <1>1 DEF StartsAt, EndsAt
<1>3. Maintained(T) = Maintained(T - 1)
  BY <1>2, MaintainedIs
<1>4. {c \in Events!Kept(item) : ~c.leftOpen /\ Events!LowerOf(c) = T} = {}
  BY <1>1
<1> QED
  BY <1>3, <1>4, MaintainedInIs DEF Lits

(* An instant at which an event fires, or none does, preserves the           *)
(* invariant.                                                                *)
LEMMA TickKeeps ==
  ASSUME VerdictInv, Events!Tick
  PROVE  VerdictInv'
<1> DEFINE T == clock
<1>1. Events!Runs /\ due = TRUE /\ T <= Events!PlanEnd /\ UNCHANGED <<Events!choice, clock>> /\ due' = FALSE
  BY DEF Events!Tick, VerdictInv
<1>2. /\ ChoiceInv' /\ Events!Runs' = Events!Runs /\ Events!PlanEnd' = Events!PlanEnd
      /\ \A t : Maintained(t)' = Maintained(t)
  BY <1>1, SameChoice DEF VerdictInv
<1>3. /\ ChoiceInv /\ T \in Int /\ 0 <= T /\ verdict \in BOOLEAN /\ truth = verdict
      /\ active = Events!Literals(Maintained(T - 1))
      /\ truth => Events!AllHold(Lits(Maintained(T - 1)), state)
  BY <1>1 DEF VerdictInv
<1>4. truth' = (truth /\ Events!AllHold(Events!FoundAt(T), state) /\ Events!AllHold(Lits(Maintained(T)), state'))
  BY <1>1, <1>3, MaintainedInIs DEF Events!Tick
<1>5. CASE Events!EventNow = {}
  <2>1. state' = state /\ active' = active /\ verdict' = verdict
    BY <1>5 DEF Events!Tick
  <2>2. Maintained(T) = Maintained(T - 1) /\ Events!FoundAt(T) = {}
    BY <1>1, <1>3, <1>5, NoEventAt DEF Events!EventNow
  <2>3. truth' = truth
    BY <1>3, <1>4, <2>1, <2>2 DEF Events!AllHold
  <2>4. active' = Events!Literals(Maintained(T)) /\ (truth' => Events!AllHold(Lits(Maintained(T)), state'))
    BY <1>3, <2>1, <2>2, <2>3
  <2>5. verdict' \in BOOLEAN /\ truth' = verdict'
    BY <1>3, <2>1, <2>3
  <2> QED
    BY <1>1, <1>2, <1>3, <2>4, <2>5 DEF VerdictInv
<1>6. CASE Events!EventNow # {}
  <2> DEFINE n == CHOOSE m \in Events!EventNow : TRUE
  <2>1. n \in DOMAIN events /\ Events!Instant(events[n], duration) = T /\ Events!Fire(events[n])
    <3>1. n \in Events!EventNow
      BY <1>6
    <3>2. Events!Fire(events[n])
      BY <1>6 DEF Events!Tick
    <3> QED
      BY <3>1, <3>2 DEF Events!EventNow
  <2> HIDE DEF n
  <2>2. events[n].checks = ChecksAt(T) /\ events[n].starts = StartsAt(T) /\ events[n].ends = EndsAt(T)
    BY <1>1, <1>3, <2>1, PartsAre
  <2>3. active' = Events!Literals(Maintained(T))
    <3>1. active' = Events!Started(Events!Released(active, EndsAt(T)), StartsAt(T))
      BY <2>1, <2>2 DEF Events!Fire
    <3>2. /\ IsFiniteSet(Maintained(T - 1)) /\ IsFiniteSet(StartsAt(T)) /\ EndsAt(T) \subseteq Maintained(T - 1)
          /\ (Maintained(T - 1) \ EndsAt(T)) \cap StartsAt(T) = {}
          /\ Maintained(T) = (Maintained(T - 1) \ EndsAt(T)) \cup StartsAt(T)
      BY <1>1, <1>3, MaintainedIs
    <3>3. Events!Released(active, EndsAt(T)) = Events!Literals(Maintained(T - 1) \ EndsAt(T))
      BY <1>3, <3>2, ReleasedIs
    <3>4. IsFiniteSet(Maintained(T - 1) \ EndsAt(T))
      BY <3>2, FS_Subset
    <3>5. Events!Started(Events!Literals(Maintained(T - 1) \ EndsAt(T)), StartsAt(T))
            = Events!Literals((Maintained(T - 1) \ EndsAt(T)) \cup StartsAt(T))
      BY <3>2, <3>4, StartedIs
    <3> QED
      BY <3>1, <3>2, <3>3, <3>5
  <2>4. verdict' = (verdict /\ Events!AllHold(Lits(ChecksAt(T)), state) /\ Events!AllHold(Lits(Maintained(T)), state'))
    <3>1. verdict' = (/\ verdict
                      /\ Events!AllHold({c.holds : c \in events[n].checks}, state)
                      /\ Events!AllHold(Events!BagToSet(active'), state'))
      BY <2>1 DEF Events!Fire
    <3>2. Events!BagToSet(active') = Lits(Maintained(T))
      BY <2>3, ToSetIs
    <3> QED
      BY <2>2, <3>1, <3>2 DEF Lits
  <2>5. truth => (Events!AllHold(Lits(ChecksAt(T)), state) <=> Events!AllHold(Events!FoundAt(T), state))
    BY <1>1, <1>3, ChecksAre
  <2>6. verdict' \in BOOLEAN /\ truth' = verdict'
    BY <1>3, <1>4, <2>4, <2>5
  <2>7. truth' => Events!AllHold(Lits(Maintained(T)), state')
    BY <1>4
  <2> QED
    BY <1>1, <1>2, <1>3, <2>3, <2>6, <2>7 DEF VerdictInv
<1> QED
  BY <1>5, <1>6

(* Between two instants, both look at what is maintained.                    *)
LEMMA InterfereKeeps ==
  ASSUME VerdictInv, Events!Interfere
  PROVE  VerdictInv'
<1>1. due = FALSE /\ UNCHANGED <<Events!choice, clock, due, active>>
  BY DEF Events!Interfere, VerdictInv
<1>2. /\ ChoiceInv' /\ Events!Runs' = Events!Runs /\ Events!PlanEnd' = Events!PlanEnd
      /\ \A t : Maintained(t)' = Maintained(t)
  BY <1>1, SameChoice DEF VerdictInv
<1>3. /\ ChoiceInv /\ Events!Runs /\ clock <= Events!PlanEnd /\ verdict \in BOOLEAN /\ truth = verdict
      /\ clock \in Int /\ 0 <= clock /\ active = Events!Literals(Maintained(clock))
  BY <1>1 DEF VerdictInv
<1>4. verdict' = (verdict /\ Events!AllHold(Lits(Maintained(clock)), state'))
  BY <1>3, ToSetIs DEF Events!Interfere
<1>5. truth' = (truth /\ Events!AllHold(Lits(Maintained(clock)), state'))
  BY <1>3, MaintainedInIs DEF Events!Interfere
<1>6. verdict' \in BOOLEAN /\ truth' = verdict'
  BY <1>3, <1>4, <1>5
<1> QED
  BY <1>1, <1>2, <1>3, <1>5, <1>6 DEF VerdictInv

(* Passing to the next instant preserves the invariant.                      *)
LEMMA WaitKeeps ==
  ASSUME VerdictInv, Events!Wait
  PROVE  VerdictInv'
<1>1. due = FALSE /\ due' = TRUE /\ clock' = clock + 1 /\ UNCHANGED <<Events!choice, state, active, verdict, truth>>
  BY DEF Events!Wait, VerdictInv
<1>2. /\ ChoiceInv' /\ Events!Runs' = Events!Runs /\ Events!PlanEnd' = Events!PlanEnd
      /\ \A t : Maintained(t)' = Maintained(t)
  BY <1>1, SameChoice DEF VerdictInv
<1>3. /\ ChoiceInv /\ clock \in Int /\ 0 <= clock /\ verdict \in BOOLEAN /\ truth = verdict
      /\ Events!Runs => active = Events!Literals(Maintained(clock))
      /\ Events!Runs /\ truth => Events!AllHold(Lits(Maintained(clock)), state)
  BY <1>1 DEF VerdictInv
<1>4. clock' \in Int /\ 0 <= clock' /\ clock' - 1 = clock
  BY <1>1, <1>3
<1> QED
  BY <1>1, <1>2, <1>3, <1>4 DEF VerdictInv

(* Every step of the item preserves the invariant.                           *)
LEMMA VerdictNext == VerdictInv /\ Events!Next => VerdictInv'
BY TickKeeps, InterfereKeeps, WaitKeeps DEF Events!Next

(* So does a step of another analysis.                                       *)
LEMMA VerdictStutter ==
  VerdictInv /\ UNCHANGED <<ofEvents, state>> => VerdictInv'
<1> SUFFICES ASSUME VerdictInv, UNCHANGED <<ofEvents, state>>
             PROVE  VerdictInv'
  OBVIOUS
<1>1. UNCHANGED <<Events!choice, clock, due, active, verdict, truth, state>>
  BY DEF ofEvents, Events!choice
<1>2. /\ ChoiceInv' /\ Events!Runs' = Events!Runs /\ Events!PlanEnd' = Events!PlanEnd
      /\ \A t : Maintained(t)' = Maintained(t)
  BY <1>1, SameChoice DEF VerdictInv
<1> QED
  BY <1>1, <1>2 DEF VerdictInv

EInv == analysis = "events" => VerdictInv

(* The invariant of the events under every step of the encoder.              *)
LEMMA NextEInv == EInv /\ [Next]_vars => EInv'
<1> SUFFICES ASSUME EInv, [Next]_vars
             PROVE  EInv'
  OBVIOUS
<1>1. CASE EventsStep
  BY <1>1, VerdictNext DEF EventsStep, EInv
<1>2. CASE RelevanceStep
  BY <1>2 DEF RelevanceStep, EInv
<1>3. CASE SymmetryStep
  BY <1>3 DEF SymmetryStep, EInv
<1>4. CASE CompressionStep
  BY <1>4 DEF CompressionStep, EInv
<1>5. CASE ExpressionsStep
  BY <1>5 DEF ExpressionsStep, EInv
<1>6. CASE UNCHANGED vars
  BY <1>6, VerdictStutter DEF vars, EInv
<1> QED
  BY <1>1, <1>2, <1>3, <1>4, <1>5, <1>6 DEF Next

(* It holds initially.                                                       *)
LEMMA InitEInv == Init => EInv
BY VerdictInit DEF Init, EInv

(* It implies what the runs check of events.                                 *)
LEMMA EInvImplies == EInv => SameVerdict /\ Separation
<1> SUFFICES ASSUME VerdictInv, analysis = "events"
             PROVE  /\ Events!SameVerdict /\ Events!AllReleased
                    /\ Events!SeparationIsRight /\ Events!SeparationIsFound
  BY DEF EInv, SameVerdict, Separation
<1>1. ASSUME Events!Finished
      PROVE  (Events!Accepted <=> truth) /\ Events!BagToSet(active) = Events!FinalGoals(item)
  <2>1. due = FALSE /\ clock = Events!PlanEnd /\ Events!Runs
    BY <1>1 DEF Events!Finished, VerdictInv
  <2>2. /\ ChoiceInv /\ verdict = truth /\ active = Events!Literals(Maintained(Events!PlanEnd))
        /\ truth => Events!AllHold(Lits(Maintained(Events!PlanEnd)), state)
    BY <2>1 DEF VerdictInv
  <2>3. Lits(Maintained(Events!PlanEnd)) = Events!FinalGoals(item)
    <3>1. \A c \in Events!Kept(item) :
            /\ Events!LowerOf(c) \in Int /\ Events!LowerOf(c) < Events!PlanEnd
            /\ Events!UpperOf(c) \in Int /\ Events!PlanEnd \in Int
            /\ Events!Lasting(item, c) => Events!UpperOf(c) = Events!PlanEnd + 1
            /\ ~Events!Lasting(item, c) => Events!UpperOf(c) < Events!PlanEnd
      BY <2>1, <2>2, BoundsAre, InstantsAre
    <3>2. \A c \in Events!Kept(item) : c \in Maintained(Events!PlanEnd) <=> Events!Lasting(item, c)
      BY <3>1 DEF Maintained
    <3>3. {d \in item.conditions : Events!Lasting(item, d)} \subseteq Events!Kept(item)
      BY DEF Events!Kept, Events!Lasting
    <3>4. Maintained(Events!PlanEnd) = {d \in item.conditions : Events!Lasting(item, d)}
      BY <3>2, <3>3 DEF Maintained, Events!Kept
    <3> QED
      BY <3>4 DEF Lits, Events!FinalGoals
  <2> QED
    BY <2>2, <2>3, ToSetIs DEF Events!Accepted
<1>2. ChoiceInv
  BY DEF VerdictInv
<1> QED
  BY <1>1, <1>2, SeparationRight, SeparationFound DEF Events!SameVerdict, Events!AllReleased

(* Splitting intervals over events loses nothing and adds nothing: for every *)
(* item and duration, and whatever else happens between the instants, the    *)
(* events' checks succeed exactly when every interval is respected           *)
(* (_build_events, _group_timed_events).                                     *)
THEOREM EventsAreFaithful == Spec => []SameVerdict
<1>1. Init => EInv
  BY InitEInv
<1>2. EInv /\ [Next]_vars => EInv'
  BY NextEInv
<1>3. EInv => SameVerdict
  BY EInvImplies
<1> QED
  BY <1>1, <1>2, <1>3, PTL DEF Spec

(* Events are called too close exactly when no duration keeps them apart, as *)
(* far as it is known and timings are not folded (_event_separation_problem).*)
THEOREM SeparationDecides == Spec => []Separation
<1>1. Init => EInv
  BY InitEInv
<1>2. EInv /\ [Next]_vars => EInv'
  BY NextEInv
<1>3. EInv => Separation
  BY EInvImplies
<1> QED
  BY <1>1, <1>2, <1>3, PTL DEF Spec

-----------------------------------------------------------------------------
(* What effects add up to.                                                   *)

(* A sum is the last of its partial sums.                                    *)
Partial(v, g, N) == g = [n \in 0 .. N |-> IF n = 0 THEN 0 ELSE g[n - 1] + v[n]]

(* There are partial sums, and they are numbers.                             *)
LEMMA PartialSums ==
  ASSUME NEW N \in Nat, NEW v \in [1 .. N -> Int]
  PROVE  \E g \in [0 .. N -> Int] : Partial(v, g, N)
<1> DEFINE Stuck == {m \in 0 .. N : ~\E g \in [0 .. m -> Int] : Partial(v, g, m)}
<1>1. Stuck = {}
  <2> SUFFICES ASSUME Stuck # {} PROVE FALSE
    OBVIOUS
  <2>1. Stuck \in SUBSET Nat
    OBVIOUS
  <2>2. PICK m \in Stuck : \A k \in Stuck : m <= k
    <3> HIDE DEF Stuck
    <3> QED
      BY <2>1, LeastNumber
  <2>3. m \in 0 .. N /\ ~\E g \in [0 .. m -> Int] : Partial(v, g, m)
    OBVIOUS
  <2>4. m # 0
    <3> SUFFICES ASSUME m = 0 PROVE FALSE
      OBVIOUS
    <3> DEFINE g == [n \in 0 .. 0 |-> 0]
    <3>1. g \in [0 .. 0 -> Int]
      OBVIOUS
    <3>2. Partial(v, g, 0)
      <4>1. \A n \in 0 .. 0 : 0 = IF n = 0 THEN 0 ELSE g[n - 1] + v[n]
        OBVIOUS
      <4> QED
        BY <4>1 DEF Partial
    <3> HIDE DEF g
    <3> QED
      BY <2>3, <3>1, <3>2
  <2>5. m - 1 \in 0 .. N /\ m - 1 \notin Stuck /\ m \in 1 .. N
    BY <2>2, <2>3, <2>4
  <2>6. PICK h \in [0 .. m - 1 -> Int] : Partial(v, h, m - 1)
    BY <2>5
  <2> DEFINE g == [n \in 0 .. m |-> IF n = m THEN h[m - 1] + v[m] ELSE h[n]]
  <2>7. g \in [0 .. m -> Int]
    <3>1. h[m - 1] \in Int /\ v[m] \in Int
      BY <2>5, <2>6
    <3>2. \A n \in 0 .. m : n # m => n \in 0 .. m - 1
      BY <2>5
    <3> QED
      BY <2>6, <3>1, <3>2
  <2>8. \A n \in 0 .. m - 1 : h[n] = IF n = 0 THEN 0 ELSE h[n - 1] + v[n]
    <3> HIDE DEF g
    <3> QED
      BY <2>6 DEF Partial
  <2>9. \A n \in 0 .. m : g[n] = IF n = 0 THEN 0 ELSE g[n - 1] + v[n]
    <3> TAKE n \in 0 .. m
    <3>1. CASE n = m
      <4>1. g[n] = h[m - 1] + v[m] /\ m - 1 \in 0 .. m /\ m - 1 # m
        BY <2>5, <3>1
      <4>2. g[n - 1] = h[m - 1]
        BY <3>1, <4>1
      <4> QED
        BY <2>4, <3>1, <4>1, <4>2
    <3>2. CASE n # m
      <4>1. n \in 0 .. m - 1 /\ g[n] = h[n]
        BY <2>5, <3>2
      <4>2. n # 0 => n - 1 \in 0 .. m /\ n - 1 # m
        BY <2>5, <4>1
      <4>3. n # 0 => g[n - 1] = h[n - 1]
        BY <4>2
      <4> QED
        BY <2>8, <4>1, <4>3
    <3> QED
      BY <3>1, <3>2
  <2>10. g = [n \in 0 .. m |-> g[n]]
    OBVIOUS
  <2>11. Partial(v, g, m)
    <3> HIDE DEF g
    <3> QED
      BY <2>9, <2>10 DEF Partial
  <2> HIDE DEF g
  <2> QED
    BY <2>3, <2>7, <2>11
<1> QED
  <2>1. N \in 0 .. N /\ N \notin Stuck
    BY <1>1
  <2> QED
    BY <2>1

(* A sum is computed by such a function.                                     *)
LEMMA AddedIs ==
  ASSUME NEW N \in Nat, NEW v \in [1 .. N -> Int]
  PROVE  \E g \in [0 .. N -> Int] :
           /\ g[0] = 0 /\ \A n \in 1 .. N : g[n] = g[n - 1] + v[n]
           /\ Events!Added(v) = g[N]
<1>1. Len(v) = N
  OBVIOUS
<1> DEFINE G == CHOOSE g : Partial(v, g, N)
<1>2. Events!Added(v) = G[N]
  BY <1>1 DEF Events!Added, Partial
<1>3. PICK h \in [0 .. N -> Int] : Partial(v, h, N)
  BY PartialSums
<1>4. Partial(v, G, N)
  BY <1>3
<1> HIDE DEF G
<1>5. /\ DOMAIN G = 0 .. N /\ G[0] = 0 /\ G = [n \in 0 .. N |-> G[n]]
      /\ \A n \in 1 .. N : G[n] = G[n - 1] + v[n]
  BY <1>4 DEF Partial
<1> DEFINE Bad == {n \in 0 .. N : G[n] \notin Int}
<1>6. Bad = {}
  <2> SUFFICES ASSUME Bad # {} PROVE FALSE
    OBVIOUS
  <2>1. Bad \in SUBSET Nat
    OBVIOUS
  <2>2. PICK m \in Bad : \A k \in Bad : m <= k
    <3> HIDE DEF Bad
    <3> QED
      BY <2>1, LeastNumber
  <2>3. m \in 0 .. N /\ G[m] \notin Int
    OBVIOUS
  <2>4. m # 0
    BY <1>5, <2>3
  <2>5. m \in 1 .. N /\ m - 1 \in 0 .. N /\ m - 1 \notin Bad
    BY <2>2, <2>3, <2>4
  <2>6. G[m - 1] \in Int /\ v[m] \in Int /\ G[m] = G[m - 1] + v[m]
    BY <1>5, <2>5
  <2> QED
    BY <2>3, <2>6
<1>7. G \in [0 .. N -> Int]
  BY <1>5, <1>6
<1> QED
  BY <1>2, <1>5, <1>7

(* The sum of differences is the difference of the sums.                     *)
LEMMA AddedApart ==
  ASSUME NEW N \in Nat, NEW a \in [1 .. N -> Int], NEW b \in [1 .. N -> Int], NEW c \in [1 .. N -> Int],
         \A n \in 1 .. N : c[n] = a[n] - b[n]
  PROVE  /\ Events!Added(a) \in Int /\ Events!Added(b) \in Int
         /\ Events!Added(c) = Events!Added(a) - Events!Added(b)
<1>1. PICK f \in [0 .. N -> Int] : /\ f[0] = 0 /\ \A n \in 1 .. N : f[n] = f[n - 1] + a[n]
                                   /\ Events!Added(a) = f[N]
  BY AddedIs
<1>2. PICK g \in [0 .. N -> Int] : /\ g[0] = 0 /\ \A n \in 1 .. N : g[n] = g[n - 1] + b[n]
                                   /\ Events!Added(b) = g[N]
  BY AddedIs
<1>3. PICK h \in [0 .. N -> Int] : /\ h[0] = 0 /\ \A n \in 1 .. N : h[n] = h[n - 1] + c[n]
                                   /\ Events!Added(c) = h[N]
  BY AddedIs
<1> DEFINE Bad == {n \in 0 .. N : h[n] # f[n] - g[n]}
<1>4. Bad = {}
  <2> SUFFICES ASSUME Bad # {} PROVE FALSE
    OBVIOUS
  <2>1. Bad \in SUBSET Nat
    OBVIOUS
  <2>2. PICK m \in Bad : \A k \in Bad : m <= k
    <3> HIDE DEF Bad
    <3> QED
      BY <2>1, LeastNumber
  <2>3. m \in 0 .. N /\ h[m] # f[m] - g[m] /\ m # 0
    BY <1>1, <1>2, <1>3
  <2>4. m \in 1 .. N /\ m - 1 \in 0 .. N /\ m - 1 \notin Bad
    BY <2>2, <2>3
  <2>5. h[m - 1] = f[m - 1] - g[m - 1]
    BY <2>4
  <2>6. /\ f[m] = f[m - 1] + a[m] /\ g[m] = g[m - 1] + b[m] /\ h[m] = h[m - 1] + c[m] /\ c[m] = a[m] - b[m]
        /\ f[m - 1] \in Int /\ g[m - 1] \in Int /\ a[m] \in Int /\ b[m] \in Int
    BY <1>1, <1>2, <1>3, <2>4
  <2>7. PICK x \in Int : x = f[m - 1]
    BY <2>6
  <2>8. PICK y \in Int : y = g[m - 1]
    BY <2>6
  <2>9. PICK p \in Int : p = a[m]
    BY <2>6
  <2>10. PICK q \in Int : q = b[m]
    BY <2>6
  <2>11. f[m] = x + p /\ g[m] = y + q /\ h[m] = (x - y) + (p - q)
    BY <2>5, <2>6, <2>7, <2>8, <2>9, <2>10, Zenon
  <2>12. (x - y) + (p - q) = (x + p) - (y + q)
    OBVIOUS
  <2> QED
    BY <2>3, <2>11, <2>12, Zenon
<1>5. N \in 0 .. N /\ f[N] \in Int /\ g[N] \in Int
  OBVIOUS
<1>6. h[N] = f[N] - g[N]
  BY <1>4, <1>5
<1> QED
  BY <1>1, <1>2, <1>3, <1>5, <1>6, Zenon

(* Every fluent holds what it may, and every effect gives its fluent what it *)
(* may hold.                                                                 *)
EventsTyped ==
  /\ Events!Typed(item, state)
  /\ \A x \in DOMAIN item.effects : Events!EffectTyped(item, item.effects[x], state)
ValueNow(x) == Events!EffectValue(item.effects[x].value, state)

(* The value of an effect is one its fluent may hold.                        *)
LEMMA ValueTyped ==
  ASSUME EventsTyped, NEW x \in DOMAIN item.effects
  PROVE  ValueNow(x) \in Events!ValuesOf(item, item.effects[x].fluent)
<1> DEFINE e == item.effects[x]
<1>1. Events!EffectTyped(item, e, state)
  BY DEF EventsTyped
<1> HIDE DEF e
<1>2. CASE Events!IsConstant(e.value)
  BY <1>1, <1>2 DEF Events!EffectTyped, Events!EffectValue, ValueNow, e
<1>3. CASE ~Events!IsConstant(e.value)
  <2>1. /\ e.value.reads \in DOMAIN state
        /\ e.value.reads \in item.numeric <=> e.fluent \in item.numeric
    BY <1>1, <1>3 DEF Events!EffectTyped
  <2>2. ValueNow(x) = state[e.value.reads]
    BY <1>3 DEF Events!EffectValue, ValueNow, e
  <2>3. state[e.value.reads] \in Events!ValuesOf(item, e.value.reads)
    BY <2>1 DEF EventsTyped, Events!Typed
  <2> QED
    BY <2>1, <2>2, <2>3 DEF Events!ValuesOf, e
<1> QED
  BY <1>2, <1>3

(* An event that assigns a fluent gives it a value it assigns; a Boolean one *)
(* that is set is TRUE.                                                      *)
LEMMA AssignedValue ==
  ASSUME EventsTyped, NEW e, e.effects \subseteq DOMAIN item.effects, IsFiniteSet(e.effects),
         ~Events!Conflict(item, e), NEW f, Events!On(item, e, f, "assign") # {}
  PROVE  LET new == Events!NewValue(item, e, f, state)
             assigns == Events!On(item, e, f, "assign")
         IN  /\ \E x \in assigns : new = ValueNow(x)
             /\ f \notin item.numeric => \A x \in assigns : ValueNow(x) = TRUE => new = TRUE
<1> DEFINE assigns == Events!On(item, e, f, "assign")
           sets == Events!Sets(item, assigns)
           varying == Events!Varying(item, assigns)
           chosen == IF f \in item.numeric THEN assigns
                     ELSE IF sets # {} THEN sets ELSE IF varying # {} THEN varying ELSE assigns
           pick == CHOOSE x \in chosen : TRUE
           new == Events!NewValue(item, e, f, state)
<1>1. new = ValueNow(pick)
  BY DEF Events!NewValue, ValueNow
<1>2. assigns # {} /\ chosen \subseteq assigns /\ chosen # {}
  BY DEF Events!Sets, Events!Varying
<1>3. assigns \subseteq e.effects /\ \A x \in assigns : item.effects[x].fluent = f
  BY DEF Events!On
<1> HIDE DEF assigns, new
<1>4. pick \in chosen /\ pick \in assigns
  BY <1>2
<1>5. ASSUME f \notin item.numeric, NEW x \in assigns, ValueNow(x) = TRUE
      PROVE  ValueNow(pick) = TRUE
  <2>1. \A y \in assigns : Events!IsConstant(item.effects[y].value) => (y \in sets <=> ValueNow(y) = TRUE)
    <3> TAKE y \in assigns
    <3> HAVE Events!IsConstant(item.effects[y].value)
    <3>1. item.effects[y].value = Events!Constant(item.effects[y].value.is)
      BY <1>3 DEF EventsTyped, Events!EffectTyped
    <3>2. ValueNow(y) = item.effects[y].value.is
      BY DEF ValueNow, Events!EffectValue
    <3>3. Events!Constant(TRUE).is = TRUE
      BY DEF Events!Constant
    <3> QED
      BY <3>1, <3>2, <3>3 DEF Events!Sets
  <2>2. CASE sets # {}
    <3>1. pick \in sets
      BY <1>4, <1>5, <2>2
    <3>2. Events!IsConstant(item.effects[pick].value)
      BY <3>1 DEF Events!Sets, Events!IsConstant, Events!Constant
    <3> QED
      BY <1>4, <2>1, <3>1, <3>2
  <2>3. CASE sets = {}
    <3>1. x \in varying
      BY <1>5, <2>1, <2>3 DEF Events!Varying
    <3>2. pick \in varying
      BY <1>4, <1>5, <2>3, <3>1
    <3>3. \A y, z \in varying : y = z
      <4>1. ~(Cardinality(varying) > 1)
        <5>1. item.effects[x].fluent = f /\ x \in e.effects
          BY <1>3, <1>5
        <5>2. ~(f \notin item.numeric /\ sets = {} /\ Events!Cardinality(varying) > 1)
          BY <5>1, Zenon DEF Events!Conflict, assigns
        <5> QED
          BY <1>5, <2>3, <5>2, EventSetsAre
      <4>2. IsFiniteSet(varying)
        BY <1>3, FS_Subset DEF Events!Varying
      <4> HIDE DEF varying, sets, pick
      <4> SUFFICES ASSUME NEW y \in varying, NEW z \in varying, y # z
                   PROVE  FALSE
        OBVIOUS
      <4>3. /\ Cardinality(varying) \in Nat
            /\ IsFiniteSet(varying \ {y}) /\ Cardinality(varying \ {y}) = Cardinality(varying) - 1
        BY <4>2, FS_CardinalityType, FS_RemoveElement
      <4>4. Cardinality(varying \ {y}) \in Nat /\ Cardinality(varying \ {y}) # 0
        BY <4>3, FS_CardinalityType, FS_EmptySet
      <4> QED
        BY <4>1, <4>3, <4>4
    <3> QED
      BY <1>5, <3>1, <3>2, <3>3
  <2> QED
    BY <2>2, <2>3
<1> HIDE DEF pick
<1> QED
  BY <1>1, <1>4, <1>5 DEF new, assigns

(* An event that increases and decreases a fluent changes it by all of that. *)
LEMMA ChangedValue ==
  ASSUME EventsTyped, item \in Items, NEW e, e.effects \subseteq DOMAIN item.effects,
         NEW f \in DOMAIN state, NEW told, told = {x \in e.effects : item.effects[x].fluent = f}, told # {},
         Events!On(item, e, f, "assign") = {}
  PROVE  /\ Events!NewValue(item, e, f, state)
              = state[f] + Events!Added([x \in DOMAIN item.effects |->
                                           IF x \notin told THEN 0
                                           ELSE IF item.effects[x].kind = "increase" THEN ValueNow(x) ELSE -ValueNow(x)])
         /\ Events!NewValue(item, e, f, state) \in Int /\ f \in item.numeric
<1> DEFINE up == Events!On(item, e, f, "increase")
           down == Events!On(item, e, f, "decrease")
           D == DOMAIN item.effects
           N == Len(item.effects)
           a == [x \in D |-> IF x \in up THEN ValueNow(x) ELSE 0]
           b == [x \in D |-> IF x \in down THEN ValueNow(x) ELSE 0]
           c == [x \in D |-> IF x \notin told THEN 0
                             ELSE IF item.effects[x].kind = "increase" THEN ValueNow(x) ELSE -ValueNow(x)]
<1>1. D = 1 .. N /\ N \in Nat
  BY ItemIs DEF Events!ItemWellFormed
<1>2. \A x \in told : x \in D /\ x \in e.effects /\ item.effects[x].fluent = f
  OBVIOUS
<1>3. \A x \in told : /\ item.effects[x].kind \in {"increase", "decrease"} /\ f \in item.numeric
                      /\ x \in up <=> item.effects[x].kind = "increase"
                      /\ x \in down <=> item.effects[x].kind = "decrease"
  <2> TAKE x \in told
  <2>1. Events!EffectTyped(item, item.effects[x], state) /\ item.effects[x].fluent = f /\ x \in e.effects
    BY DEF EventsTyped
  <2>2. item.effects[x].kind # "assign"
    BY <2>1 DEF Events!On
  <2> QED
    BY <2>1, <2>2 DEF Events!EffectTyped, Events!On
<1>4. up \subseteq told /\ down \subseteq told
  BY DEF Events!On
<1>5. f \in item.numeric
  BY <1>3
<1>6. \A x \in told : ValueNow(x) \in Int
  BY <1>2, <1>5, ValueTyped DEF Events!ValuesOf
<1>7. state[f] \in Int
  BY <1>5 DEF EventsTyped, Events!Typed, Events!ValuesOf
<1>8. Events!NewValue(item, e, f, state) = state[f] + Events!Added(a) - Events!Added(b)
  BY DEF Events!NewValue, Events!Total, ValueNow
<1> HIDE DEF up, down, D, N
<1>9. a \in [1 .. N -> Int] /\ b \in [1 .. N -> Int]
  BY <1>1, <1>4, <1>6
<1>10. c \in [1 .. N -> Int]
  BY <1>1, <1>2, <1>6
<1>11. \A x \in 1 .. N : c[x] = a[x] - b[x]
  <2> TAKE x \in 1 .. N
  <2>1. x \in D
    BY <1>1
  <2>2. CASE x \notin told
    <3>1. a[x] = 0 /\ b[x] = 0 /\ c[x] = 0
      BY <1>4, <2>1, <2>2
    <3> QED
      BY <3>1
  <2>3. CASE x \in told /\ item.effects[x].kind = "increase"
    <3>1. a[x] = ValueNow(x) /\ b[x] = 0 /\ c[x] = ValueNow(x)
      BY <1>3, <2>1, <2>3
    <3> QED
      BY <1>6, <2>3, <3>1
  <2>4. CASE x \in told /\ item.effects[x].kind = "decrease"
    <3>1. a[x] = 0 /\ b[x] = ValueNow(x) /\ c[x] = -ValueNow(x)
      BY <1>3, <2>1, <2>4
    <3> QED
      BY <1>6, <2>4, <3>1
  <2> QED
    BY <1>3, <2>2, <2>3, <2>4
<1> HIDE DEF a, b, c
<1>12. /\ Events!Added(a) \in Int /\ Events!Added(b) \in Int
       /\ Events!Added(c) = Events!Added(a) - Events!Added(b)
  BY <1>1, <1>9, <1>10, <1>11, AddedApart, Zenon
<1>13. Events!NewValue(item, e, f, state) = state[f] + Events!Added(c)
  BY <1>7, <1>8, <1>12
<1> QED
  BY <1>5, <1>7, <1>12, <1>13 DEF c, D

(* The effects of an event are those the item has at its instant.            *)
LEMMA EffectsNow ==
  ASSUME ChoiceInv, Events!Runs, NEW n \in DOMAIN events
  PROVE  /\ events[n].effects = {x \in DOMAIN item.effects :
                                   Events!When(item.effects[x].at) = Events!Instant(events[n], duration)}
         /\ ~Events!Conflict(item, events[n])
<1> DEFINE b == Events!Nth(item, n)
           T == Events!Instant(events[n], duration)
           Here == {u \in Events!Timings(item) : Events!Bucket(item, u) = b}
<1>1. item \in Items /\ refusal = "none" /\ duration \in Events!Durations(item)
  BY DEF Events!Runs, ChoiceInv
<1>2. b \in Events!Buckets(item) /\ events[n] = Events!EventAt(item, b) /\ T = Moment(b, duration)
  BY <1>1, EventIsAt
<1>3. \A u \in Events!Timings(item) : u \in Here <=> Moment(u, duration) = T
  BY <1>2, SameInstant
<1>4. \A x \in DOMAIN item.effects : item.effects[x].at \in Events!Timings(item)
  BY DEF Events!Timings
<1>5. events[n].effects = UNION {Events!EffectsAt(item, t) : t \in Here}
  BY <1>2 DEF Events!EventAt, Events!Merged
<1>6. ~Events!Conflict(item, events[n])
  <2>1. events = Events!EventsOf(item) /\ Events!Refused(item) = "none"
    BY <1>1 DEF ChoiceInv
  <2>2. ~(\E m \in DOMAIN Events!EventsOf(item) : Events!Conflict(item, Events!EventsOf(item)[m]))
    <3>1. Events!Refusal(item) = "none"
      BY <2>1, Zenon DEF Events!Refused
    <3> QED
      BY <2>1, <3>1, Zenon DEF Events!Refused
  <2> QED
    BY <2>1, <2>2, Zenon
<1> HIDE DEF Here, T
<1>7. UNION {Events!EffectsAt(item, t) : t \in Here}
        = {x \in DOMAIN item.effects : Events!When(item.effects[x].at) = T}
  <2>1. \A x : x \in UNION {Events!EffectsAt(item, t) : t \in Here}
                 <=> x \in DOMAIN item.effects /\ item.effects[x].at \in Here
    BY DEF Events!EffectsAt
  <2> QED
    BY <1>3, <1>4, <2>1, WhenIs
<1> QED
  BY <1>5, <1>6, <1>7 DEF T

(* At an instant without an event no effect is due.                          *)
LEMMA NoEffectsNow ==
  ASSUME ChoiceInv, Events!Runs, Events!EventNow = {}, NEW x \in DOMAIN item.effects
  PROVE  Events!When(item.effects[x].at) # clock
<1>1. item.effects[x].at \in Events!Timings(item)
  BY DEF Events!Timings
<1>2. PICK n \in DOMAIN events : Events!Instant(events[n], duration) = Moment(item.effects[x].at, duration)
  BY <1>1, EveryTiming
<1>3. n \notin Events!EventNow
  OBVIOUS
<1> QED
  BY <1>2, <1>3, WhenIs DEF Events!EventNow

(* An instant does to every fluent what its effects add up to.               *)
LEMMA TickAddsUp ==
  ASSUME ChoiceInv, EventsTyped, Events!Tick
  PROVE  /\ DOMAIN state' = DOMAIN state
         /\ \A f \in DOMAIN state : state'[f] \in Events!Intended(f) /\ state'[f] \in Events!ValuesOf(item, f)
<1>1. Events!Runs /\ item \in Items /\ refusal = "none"
  BY DEF Events!Tick, Events!Runs, ChoiceInv
<1> DEFINE Due == {x \in DOMAIN item.effects : Events!When(item.effects[x].at) = clock}
<1>2. \A f \in DOMAIN state : state[f] \in Events!ValuesOf(item, f)
  BY DEF EventsTyped, Events!Typed
<1>3. \A f : Events!Together(f) = {x \in Due : item.effects[x].fluent = f}
  BY DEF Events!Together
<1>4. \A f \in DOMAIN state : Events!Together(f) = {} => Events!Intended(f) = {state[f]}
  BY Zenon DEF Events!Intended
<1>5. CASE Events!EventNow = {}
  <2>1. state' = state
    BY <1>5 DEF Events!Tick
  <2>2. Due = {}
    BY <1>1, <1>5, NoEffectsNow
  <2>3. \A f : Events!Together(f) = {}
    BY <1>3, <2>2
  <2> QED
    BY <1>2, <1>4, <2>1, <2>3
<1>6. CASE Events!EventNow # {}
  <2> DEFINE n == CHOOSE m \in Events!EventNow : TRUE
             e == events[n]
  <2>1. n \in DOMAIN events /\ Events!Instant(e, duration) = clock /\ Events!Fire(e)
    <3>1. n \in Events!EventNow
      BY <1>6
    <3>2. Events!Fire(e)
      BY <1>6 DEF Events!Tick
    <3> QED
      BY <3>1, <3>2 DEF Events!EventNow
  <2> HIDE DEF n
  <2>2. e.effects = Due /\ ~Events!Conflict(item, e)
    BY <1>1, <2>1, EffectsNow
  <2>3. IsFiniteSet(Due) /\ Due \subseteq DOMAIN item.effects
    <3>1. IsFiniteSet(DOMAIN item.effects)
      BY <1>1, ItemEffectsFinite
    <3> QED
      BY <3>1, FS_Subset
  <2>4. state' = Events!After(item, e, state)
    BY <2>1 DEF Events!Fire
  <2> HIDE DEF e
  <2>5. DOMAIN state' = DOMAIN state
    BY <2>4 DEF Events!After
  <2>6. ASSUME NEW f \in DOMAIN state
        PROVE  state'[f] \in Events!Intended(f) /\ state'[f] \in Events!ValuesOf(item, f)
    <3> DEFINE told == Events!Together(f)
               assigns == Events!On(item, e, f, "assign")
               new == Events!NewValue(item, e, f, state)
    <3>1. told = {x \in e.effects : item.effects[x].fluent = f} /\ told \subseteq DOMAIN item.effects
      BY <1>3, <2>2
    <3>2. CASE told = {}
      <4>1. f \notin Events!Written(item, e)
        BY <3>1, <3>2 DEF Events!Written
      <4>2. state'[f] = state[f]
        BY <2>4, <4>1 DEF Events!After
      <4> QED
        BY <1>2, <1>4, <3>2, <4>2
    <3>3. CASE told # {}
      <4>1. state'[f] = new
        <5>1. f \in Events!Written(item, e)
          BY <3>1, <3>3 DEF Events!Written
        <5> QED
          BY <2>4, <5>1 DEF Events!After
      <4> DEFINE assigned == {Events!EffectValue(item.effects[x].value, state) :
                                x \in {y \in told : item.effects[y].kind = "assign"}}
      <4>2. assigned = {ValueNow(x) : x \in assigns} /\ assigns = {y \in told : item.effects[y].kind = "assign"}
        BY <3>1 DEF Events!On, ValueNow
      <4>3. CASE assigns # {}
        <5>1. /\ \E x \in assigns : new = ValueNow(x)
              /\ f \notin item.numeric => \A x \in assigns : ValueNow(x) = TRUE => new = TRUE
          BY <2>2, <2>3, <4>3, AssignedValue
        <5>2. new \in assigned /\ assigned # {} /\ (f \notin item.numeric /\ TRUE \in assigned => new = TRUE)
          BY <4>2, <5>1
        <5>3. Events!Intended(f) = IF f \in item.numeric \/ TRUE \notin assigned THEN assigned ELSE {TRUE}
          BY <3>3, <5>2, Zenon DEF Events!Intended
        <5>4. new \in Events!ValuesOf(item, f)
          BY <3>1, <4>2, <5>1, ValueTyped
        <5> HIDE DEF assigned, new
        <5> QED
          BY <4>1, <5>2, <5>3, <5>4
      <4>4. CASE assigns = {}
        <5>1. assigned = {}
          BY <4>2, <4>4
        <5> DEFINE c == [x \in DOMAIN item.effects |->
                           IF x \notin told THEN 0
                           ELSE IF item.effects[x].kind = "increase" THEN ValueNow(x) ELSE -ValueNow(x)]
        <5>2. new = state[f] + Events!Added(c) /\ new \in Int /\ f \in item.numeric
          <6> HIDE DEF told
          <6>1. e.effects \subseteq DOMAIN item.effects
            BY <2>2
          <6> QED
            BY <1>1, <3>1, <3>3, <4>4, <6>1, ChangedValue
        <5>3. Events!Intended(f) = {state[f] + Events!Added(c)}
          BY <3>3, <5>1, Zenon DEF Events!Intended, ValueNow
        <5> QED
          BY <4>1, <5>2, <5>3 DEF Events!ValuesOf
      <4> QED
        BY <4>3, <4>4
    <3> QED
      BY <3>2, <3>3
  <2> QED
    BY <2>5, <2>6
<1> QED
  BY <1>5, <1>6

(* Before the first instant, everything has its type.                        *)
LEMMA TypedInit == Events!Init => EventsTyped
BY EncoderAssumption DEF Events!Init, EventsTyped, Events!EncodingAssumption

(* It keeps it.                                                              *)
LEMMA TypedStays ==
  ASSUME EventsTyped, item' = item, DOMAIN state' = DOMAIN state,
         \A f \in DOMAIN state : state'[f] \in Events!ValuesOf(item, f)
  PROVE  EventsTyped'
BY DEF EventsTyped, Events!Typed, Events!EffectTyped, Events!ValuesOf

(* Every step of the item preserves the types.                               *)
LEMMA TypedNext ==
  ASSUME ChoiceInv, EventsTyped, Events!Next
  PROVE  EventsTyped'
<1>1. item' = item
  BY DEF Events!Next, Events!Tick, Events!Interfere, Events!Wait, Events!choice
<1>2. \A f \in DOMAIN state : state[f] \in Events!ValuesOf(item, f)
  BY DEF EventsTyped, Events!Typed
<1>3. CASE Events!Tick
  BY <1>1, <1>3, TickAddsUp, TypedStays
<1>4. CASE Events!Interfere
  <2>1. PICK f \in DOMAIN state \ item.numeric : state' = [state EXCEPT ![f] = ~@]
    BY <1>4 DEF Events!Interfere
  <2>2. DOMAIN state' = DOMAIN state /\ \A g \in DOMAIN state : state'[g] \in Events!ValuesOf(item, g)
    BY <1>2, <2>1 DEF Events!ValuesOf
  <2> QED
    BY <1>1, <2>2, TypedStays
<1>5. CASE Events!Wait
  <2>1. state' = state
    BY <1>5 DEF Events!Wait
  <2> QED
    BY <1>1, <1>2, <2>1, TypedStays
<1> QED
  BY <1>3, <1>4, <1>5 DEF Events!Next

TInv == EInv /\ (analysis = "events" => EventsTyped)

(* The types under every step of the encoder.                                *)
LEMMA NextTInv == TInv /\ [Next]_vars => TInv'
<1> SUFFICES ASSUME TInv, [Next]_vars
             PROVE  analysis' = "events" => EventsTyped'
  BY NextEInv DEF TInv
<1>1. CASE EventsStep
  BY <1>1, TypedNext DEF EventsStep, TInv, EInv, VerdictInv
<1>2. CASE RelevanceStep
  BY <1>2 DEF RelevanceStep
<1>3. CASE SymmetryStep
  BY <1>3 DEF SymmetryStep
<1>4. CASE CompressionStep
  BY <1>4 DEF CompressionStep
<1>5. CASE ExpressionsStep
  BY <1>5 DEF ExpressionsStep
<1>6. CASE UNCHANGED vars
  <2>1. analysis' = analysis /\ item' = item /\ state' = state
    BY <1>6 DEF vars, ofEvents
  <2> QED
    BY <2>1 DEF TInv, EventsTyped
<1> QED
  BY <1>1, <1>2, <1>3, <1>4, <1>5, <1>6 DEF Next

(* Effects that meet in one instant are merged rightly, from whichever end   *)
(* of the action they were counted: for every item, duration and state, an   *)
(* instant does to each fluent what the effects at that instant add up to    *)
(* (_convert_effects).                                                       *)
THEOREM MergingIsRight == Spec => EffectsAddUp
<1>1. Init => TInv
  BY InitEInv, TypedInit DEF Init, TInv
<1>2. TInv /\ [Next]_vars => TInv'
  BY NextTInv
<1>3. TInv /\ [Next]_vars => [EventsStep => Events!AddsUp]_vars
  <2> SUFFICES ASSUME TInv, EventsStep, Events!Tick
               PROVE  \A f \in DOMAIN state : state'[f] \in Events!Intended(f)
    BY DEF Events!AddsUp
  <2>1. ChoiceInv /\ EventsTyped
    BY DEF EventsStep, TInv, EInv, VerdictInv
  <2> QED
    BY <2>1, TickAddsUp
<1> QED
  BY <1>1, <1>2, <1>3, PTL DEF Spec, EffectsAddUp

-----------------------------------------------------------------------------
Os == Symmetry!Objects
Ground == Symmetry!GroundFluents
IsValue(v) == Symmetry!IsValue(problem, v)
TypeOf(o) == Symmetry!TypeOf(o)
Renamed(t, names) == Symmetry!Renamed(t, names)
Swap(t, a, b) == Symmetry!Swap(t, a, b)
Exchange(a, b) == Symmetry!Exchange(a, b)
Given == problem \in SymmetryProblems

(* A name and the objects it is applied to.                                  *)
IsTerm(t) == t = <<t[1], t[2]>> /\ t[2] \in [DOMAIN t[2] -> Os]
(* Names that do not change types, and those that are different for          *)
(* different objects.                                                        *)
Naming(names) == names \in [Os -> Os] /\ \A o \in Os : TypeOf(names[o]) = TypeOf(o)
OneToOne(names) == \A a, b \in Os : names[a] = names[b] => a = b

(* The finite sets of the instance are those of the library.                 *)
LEMMA SymmetrySetsAre ==
  \A S : Symmetry!Cardinality(S) = Cardinality(S) /\ Symmetry!IsFiniteSet(S) = IsFiniteSet(S)
BY DEF Symmetry!Cardinality, Cardinality, Symmetry!IsFiniteSet, IsFiniteSet

(* A problem is as the assumption says.                                      *)
LEMMA GivenIs ==
  ASSUME Given
  PROVE  Symmetry!ProblemWellFormed(problem) /\ Symmetry!Lifted(problem)
BY EncoderAssumption DEF Given, Symmetry!SymmetryAssumption

(* The objects are listed once, in the order of the problem and in that of   *)
(* their names.                                                              *)
LEMMA ListedOnce ==
  ASSUME Given
  PROVE  /\ problem.objects \in Seq(Os) /\ Os = {problem.objects[i] : i \in DOMAIN problem.objects}
         /\ \A i, j \in DOMAIN problem.objects : problem.objects[i] = problem.objects[j] => i = j
BY GivenIs DEF Symmetry!ProblemWellFormed, Os, Symmetry!Objects, Symmetry!ToSet

LEMMA NextIsNew ==
  ASSUME Given, NEW k \in 0 .. Len(problem.objects), k < Len(problem.objects)
  PROVE  /\ problem.objects[k + 1] \in Os /\ k + 1 \in DOMAIN problem.objects
         /\ k + 1 \in 0 .. Len(problem.objects) /\ k \in Nat
         /\ \A i \in 1 .. k : problem.objects[k + 1] # problem.objects[i]
<1> DEFINE s == problem.objects
<1>1. s \in Seq(Os) /\ \A i, j \in DOMAIN s : s[i] = s[j] => i = j
  BY ListedOnce
<1> HIDE DEF s
<1>2. Len(s) \in Nat /\ DOMAIN s = 1 .. Len(s) /\ \A i \in 1 .. Len(s) : s[i] \in Os
  BY <1>1
<1>3. k \in Nat /\ k + 1 \in 1 .. Len(s) /\ k + 1 \in 0 .. Len(s)
  BY <1>2 DEF s
<1>4. \A i \in 1 .. k : i \in DOMAIN s /\ i # k + 1
  BY <1>2, <1>3
<1>5. \A i \in 1 .. k : s[k + 1] # s[i]
  BY <1>1, <1>2, <1>3, <1>4
<1> QED
  BY <1>2, <1>3, <1>5 DEF s

LEMMA NamedOnce ==
  ASSUME Given
  PROVE  /\ problem.byName \in Seq(Os) /\ Os = {problem.byName[i] : i \in DOMAIN problem.byName}
         /\ \A i, j \in DOMAIN problem.byName : problem.byName[i] = problem.byName[j] => i = j
<1>1. problem.byName \in Seq(Os) /\ Symmetry!ToSet(problem.byName) = Os
      /\ \A i, j \in DOMAIN problem.byName : problem.byName[i] = problem.byName[j] => i = j
  BY GivenIs DEF Symmetry!ProblemWellFormed, Os, Symmetry!Objects
<1> QED
  BY <1>1 DEF Symmetry!ToSet

(* Ground fluents and values are terms.                                      *)
LEMMA GroundIs ==
  ASSUME NEW t
  PROVE  t \in Ground <=> /\ IsTerm(t) /\ t[1] \in DOMAIN problem.fluents
                          /\ DOMAIN t[2] = DOMAIN problem.fluents[t[1]]
                          /\ \A i \in DOMAIN t[2] : problem.fluents[t[1]][i] \in problem.above[TypeOf(t[2][i])]
<1> DEFINE Args(f) == Symmetry!Arguments(problem, problem.fluents[f])
           D(f) == DOMAIN problem.fluents[f]
<1>1. t \in Ground <=> \E f \in DOMAIN problem.fluents : \E args \in Args(f) : t = <<f, args>>
  BY DEF Ground, Symmetry!GroundFluents, Symmetry!Groundings, Symmetry!Term
<1>2. \A f, args : args \in Args(f) <=> /\ args \in [D(f) -> Os]
                                        /\ \A i \in D(f) : problem.fluents[f][i] \in problem.above[TypeOf(args[i])]
  BY DEF Symmetry!Arguments, Os, Symmetry!Objects, TypeOf, Symmetry!TypeOf
<1> HIDE DEF Args
<1>3. ASSUME NEW f \in DOMAIN problem.fluents, NEW args \in Args(f), t = <<f, args>>
      PROVE  /\ IsTerm(t) /\ t[1] \in DOMAIN problem.fluents
             /\ DOMAIN t[2] = DOMAIN problem.fluents[t[1]]
             /\ \A i \in DOMAIN t[2] : problem.fluents[t[1]][i] \in problem.above[TypeOf(t[2][i])]
  <2>1. t[1] = f /\ t[2] = args /\ args \in [D(f) -> Os]
    BY <1>2, <1>3
  <2> QED
    BY <2>1, <1>2, <1>3 DEF IsTerm
<1>4. ASSUME IsTerm(t), t[1] \in DOMAIN problem.fluents,
             DOMAIN t[2] = DOMAIN problem.fluents[t[1]],
             \A i \in DOMAIN t[2] : problem.fluents[t[1]][i] \in problem.above[TypeOf(t[2][i])]
      PROVE  \E f \in DOMAIN problem.fluents : \E args \in Args(f) : t = <<f, args>>
  BY <1>2, <1>4 DEF IsTerm
<1> QED
  BY <1>1, <1>3, <1>4

(* The values are objects and constants.                                     *)
LEMMA ValueTerm ==
  ASSUME NEW v, IsValue(v)
  PROVE  /\ IsTerm(v)
         /\ Symmetry!IsObj(v) => /\ \E o \in Os : v = Symmetry!Obj(o)
                                 /\ v[2][1] \in Os /\ v = Symmetry!Obj(v[2][1])
         /\ ~Symmetry!IsObj(v) => v = <<v[1], <<>>>>
<1>1. CASE Symmetry!IsObj(v)
  <2>1. PICK o \in Os : v = <<"object", <<o>>>>
    BY <1>1 DEF IsValue, Symmetry!IsValue, Symmetry!Obj, Symmetry!Term, Os, Symmetry!Objects
  <2> QED
    BY <1>1, <2>1 DEF IsTerm, Symmetry!Obj, Symmetry!Term
<1>2. CASE ~Symmetry!IsObj(v)
  <2>1. v = <<v[1], <<>>>>
    BY <1>2 DEF IsValue, Symmetry!IsValue, Symmetry!Term
  <2>2. v[2] = <<>>
    BY <2>1
  <2>3. <<>> \in [DOMAIN <<>> -> Os]
    OBVIOUS
  <2>4. v = <<v[1], v[2]>>
    BY <2>1, <2>2
  <2> QED
    BY <1>2, <2>1, <2>2, <2>3, <2>4 DEF IsTerm
<1> QED
  BY <1>1, <1>2

(* A term of other names.                                                    *)
LEMMA RenamedIs ==
  ASSUME NEW t, IsTerm(t), NEW names \in [Os -> Os]
  PROVE  /\ IsTerm(Renamed(t, names)) /\ Renamed(t, names)[1] = t[1]
         /\ DOMAIN Renamed(t, names)[2] = DOMAIN t[2]
         /\ \A i \in DOMAIN t[2] : Renamed(t, names)[2][i] = names[t[2][i]]
<1> DEFINE args == [i \in DOMAIN t[2] |-> names[t[2][i]]]
<1>1. Renamed(t, names) = <<t[1], args>>
  BY DEF Renamed, Symmetry!Renamed, Symmetry!Term
<1>2. args \in [DOMAIN t[2] -> Os]
  BY DEF IsTerm
<1>3. \A i \in DOMAIN t[2] : args[i] = names[t[2][i]]
  OBVIOUS
<1> HIDE DEF args
<1> QED
  BY <1>1, <1>2, <1>3 DEF IsTerm

(* Equal terms.                                                              *)
LEMMA TermsEqual ==
  ASSUME NEW t, NEW u, IsTerm(t), IsTerm(u), t[1] = u[1], DOMAIN t[2] = DOMAIN u[2],
         \A i \in DOMAIN t[2] : t[2][i] = u[2][i]
  PROVE  t = u
<1>1. t[2] = u[2]
  BY DEF IsTerm
<1> QED
  BY <1>1 DEF IsTerm

(* Other names for ground fluents and values.                                *)
LEMMA RenamedGround ==
  ASSUME NEW t \in Ground, NEW names, Naming(names)
  PROVE  Renamed(t, names) \in Ground
<1>1. IsTerm(t) /\ names \in [Os -> Os]
  BY GroundIs DEF Naming
<1>2. \A i \in DOMAIN t[2] : TypeOf(names[t[2][i]]) = TypeOf(t[2][i])
  BY <1>1 DEF Naming, IsTerm
<1> QED
  BY <1>1, <1>2, RenamedIs, GroundIs

(* Other names for values: objects get theirs, constants stay.               *)
LEMMA RenamedValue ==
  ASSUME NEW v, IsValue(v), NEW names \in [Os -> Os]
  PROVE  /\ IsValue(Renamed(v, names))
         /\ Symmetry!IsObj(Renamed(v, names)) <=> Symmetry!IsObj(v)
         /\ Symmetry!IsObj(v) => Renamed(v, names) = Symmetry!Obj(names[v[2][1]])
         /\ ~Symmetry!IsObj(v) => Renamed(v, names) = v
<1>0. IsTerm(v) /\ IsTerm(Renamed(v, names)) /\ Renamed(v, names)[1] = v[1]
  BY ValueTerm, RenamedIs
<1>1. CASE Symmetry!IsObj(v)
  <2>1. PICK o \in Os : v = <<"object", <<o>>>>
    BY <1>1, ValueTerm DEF Symmetry!Obj, Symmetry!Term
  <2>2. names[o] \in Os /\ v[2] = <<o>> /\ v[1] = "object" /\ v[2][1] = o
    BY <2>1
  <2>3. Renamed(v, names) = <<"object", [i \in {1} |-> names[<<o>>[i]]]>>
    BY <2>2 DEF Renamed, Symmetry!Renamed, Symmetry!Term
  <2>4. [i \in {1} |-> names[<<o>>[i]]] = <<names[o]>>
    OBVIOUS
  <2>5. Renamed(v, names) = Symmetry!Obj(names[o])
    BY <2>3, <2>4 DEF Symmetry!Obj, Symmetry!Term
  <2>6. Symmetry!IsObj(Renamed(v, names))
    BY <1>0, <2>2 DEF Symmetry!IsObj
  <2> QED
    BY <1>1, <2>2, <2>5, <2>6 DEF IsValue, Symmetry!IsValue, Os, Symmetry!Objects
<1>2. CASE ~Symmetry!IsObj(v)
  <2>1. v = <<v[1], <<>>>> /\ v[2] = <<>>
    BY <1>2, ValueTerm
  <2>2. DOMAIN Renamed(v, names)[2] = DOMAIN v[2] /\ DOMAIN v[2] = {}
    BY <1>0, <2>1, RenamedIs
  <2>3. Renamed(v, names) = v
    BY <1>0, <2>2, TermsEqual
  <2> QED
    BY <1>2, <2>3
<1> QED
  BY <1>1, <1>2

(* Naming twice is naming by the composition.                                *)
Composed(names, more) == [o \in Os |-> more[names[o]]]

(* A term renamed twice.                                                     *)
LEMMA RenamedTwice ==
  ASSUME NEW t, IsTerm(t), NEW names \in [Os -> Os], NEW more \in [Os -> Os]
  PROVE  Composed(names, more) \in [Os -> Os]
         /\ Renamed(Renamed(t, names), more) = Renamed(t, Composed(names, more))
<1>1. Composed(names, more) \in [Os -> Os]
  BY DEF Composed
<1>2. \A i \in DOMAIN t[2] : t[2][i] \in Os
  BY DEF IsTerm
<1> DEFINE u == Renamed(t, names)
           w == Renamed(u, more)
           x == Renamed(t, Composed(names, more))
<1>3. IsTerm(u) /\ u[1] = t[1] /\ DOMAIN u[2] = DOMAIN t[2] /\ \A i \in DOMAIN t[2] : u[2][i] = names[t[2][i]]
  BY RenamedIs
<1>4. IsTerm(x) /\ x[1] = t[1] /\ DOMAIN x[2] = DOMAIN t[2]
      /\ \A i \in DOMAIN t[2] : x[2][i] = Composed(names, more)[t[2][i]]
  BY <1>1, RenamedIs
<1> HIDE DEF u, x
<1>5. IsTerm(w) /\ w[1] = u[1] /\ DOMAIN w[2] = DOMAIN u[2] /\ \A i \in DOMAIN u[2] : w[2][i] = more[u[2][i]]
  BY <1>3, RenamedIs
<1> HIDE DEF w
<1>6. \A i \in DOMAIN t[2] : w[2][i] = x[2][i]
  <2> TAKE i \in DOMAIN t[2]
  <2>1. t[2][i] \in Os /\ u[2][i] = names[t[2][i]]
    BY <1>2, <1>3
  <2>2. w[2][i] = more[names[t[2][i]]]
    BY <1>3, <1>5, <2>1
  <2>3. x[2][i] = Composed(names, more)[t[2][i]]
    BY <1>4
  <2>4. Composed(names, more)[t[2][i]] = more[names[t[2][i]]]
    BY <2>1 DEF Composed
  <2> QED
    BY <2>2, <2>3, <2>4
<1>7. w = x
  BY <1>3, <1>4, <1>5, <1>6, TermsEqual
<1> QED
  BY <1>1, <1>7 DEF u, w, x

(* Different terms stay different.                                           *)
LEMMA RenamedApart ==
  ASSUME NEW t, NEW u, IsTerm(t), IsTerm(u), NEW names \in [Os -> Os], OneToOne(names),
         Renamed(t, names) = Renamed(u, names)
  PROVE  t = u
<1>1. t[1] = u[1] /\ DOMAIN t[2] = DOMAIN u[2]
      /\ \A i \in DOMAIN t[2] : names[t[2][i]] = names[u[2][i]]
  BY RenamedIs
<1>2. \A i \in DOMAIN t[2] : t[2][i] = u[2][i]
  BY <1>1 DEF OneToOne, IsTerm
<1> QED
  BY <1>1, <1>2, TermsEqual

(* A name kept for every object of a term leaves the term alone.             *)
LEMMA RenamedSame ==
  ASSUME NEW t, IsTerm(t), NEW names \in [Os -> Os], NEW more \in [Os -> Os],
         \A i \in DOMAIN t[2] : names[t[2][i]] = more[t[2][i]]
  PROVE  Renamed(t, names) = Renamed(t, more)
BY RenamedIs, TermsEqual

(* Names that stay leave a term alone.                                       *)
LEMMA RenamedAlone ==
  ASSUME NEW t, IsTerm(t), NEW names \in [Os -> Os], \A i \in DOMAIN t[2] : names[t[2][i]] = t[2][i]
  PROVE  Renamed(t, names) = t
BY RenamedIs, TermsEqual

(* Exchanging two objects.                                                   *)
LEMMA ExchangeIs ==
  ASSUME NEW a \in Os, NEW b \in Os
  PROVE  /\ Exchange(a, b) \in [Os -> Os] /\ OneToOne(Exchange(a, b))
         /\ Exchange(a, b) = Exchange(b, a)
         /\ Exchange(a, b)[a] = b /\ Exchange(a, b)[b] = a
         /\ \A o \in Os : /\ o \notin {a, b} => Exchange(a, b)[o] = o
                          /\ Exchange(a, b)[Exchange(a, b)[o]] = o
         /\ TypeOf(a) = TypeOf(b) => Naming(Exchange(a, b))
<1> DEFINE E(c, d) == [o \in Os |-> IF o = c THEN d ELSE IF o = d THEN c ELSE o]
<1>1. Exchange(a, b) = E(a, b) /\ Exchange(b, a) = E(b, a)
  BY DEF Exchange, Symmetry!Exchange, Os
<1>2. E(a, b) = E(b, a)
  OBVIOUS
<1>3. E(a, b) \in [Os -> Os] /\ E(a, b)[a] = b /\ E(a, b)[b] = a
      /\ \A o \in Os : o \notin {a, b} => E(a, b)[o] = o
  OBVIOUS
<1> HIDE DEF E
<1> QED
  BY <1>1, <1>2, <1>3 DEF OneToOne, Naming

(* What an object is exchanged for.                                          *)
LEMMA ExchangeAt ==
  ASSUME NEW a \in Os, NEW b \in Os, NEW o \in Os
  PROVE  Exchange(a, b)[o] = IF o = a THEN b ELSE IF o = b THEN a ELSE o
BY DEF Exchange, Symmetry!Exchange, Os

(* Swapping is its own inverse.                                              *)
LEMMA SwapIs ==
  ASSUME NEW t, IsTerm(t), NEW a \in Os, NEW b \in Os
  PROVE  /\ Swap(t, a, b) = Renamed(t, Exchange(a, b)) /\ Swap(t, a, b) = Swap(t, b, a)
         /\ IsTerm(Swap(t, a, b))
         /\ Swap(Swap(t, a, b), a, b) = t /\ Swap(t, a, a) = t
         /\ (\A i \in DOMAIN t[2] : t[2][i] \notin {a, b}) => Swap(t, a, b) = t
<1> DEFINE E == Exchange(a, b)
           C == Composed(E, E)
<1>1. \A u, c, d : Swap(u, c, d) = Renamed(u, Exchange(c, d))
  BY DEF Swap, Symmetry!Swap, Renamed, Exchange
<1>2. E \in [Os -> Os] /\ Exchange(b, a) = E /\ (\A o \in Os : E[E[o]] = o)
      /\ \A o \in Os : o \notin {a, b} => E[o] = o
  <2>1. E \in [Os -> Os] /\ Exchange(b, a) = E
    BY ExchangeIs, Zenon
  <2>2. \A o \in Os : (o \notin {a, b} => E[o] = o) /\ E[E[o]] = o
    BY ExchangeAt
  <2> HIDE DEF E
  <2> QED
    BY <2>1, <2>2
<1>3. Exchange(a, a) \in [Os -> Os] /\ \A o \in Os : Exchange(a, a)[o] = o
  <2>1. Exchange(a, a) \in [Os -> Os] /\ Exchange(a, a)[a] = a
    BY ExchangeIs, Zenon
  <2>2. \A o \in Os : o \notin {a, a} => Exchange(a, a)[o] = o
    BY ExchangeIs, Zenon
  <2> QED
    BY <2>1, <2>2
<1> HIDE DEF E
<1>4. \A i \in DOMAIN t[2] : t[2][i] \in Os
  BY DEF IsTerm
<1>5. IsTerm(Renamed(t, E))
  BY <1>2, RenamedIs
<1>6. C \in [Os -> Os] /\ Renamed(Renamed(t, E), E) = Renamed(t, C)
  BY <1>2, RenamedTwice
<1>7. \A i \in DOMAIN t[2] : C[t[2][i]] = t[2][i]
  BY <1>2, <1>4 DEF Composed
<1> HIDE DEF C
<1>8. Renamed(t, C) = t
  BY <1>6, <1>7, RenamedAlone
<1>9. Renamed(t, Exchange(a, a)) = t
  BY <1>3, <1>4, RenamedAlone
<1>10. (\A i \in DOMAIN t[2] : t[2][i] \notin {a, b}) => Renamed(t, E) = t
  <2> SUFFICES ASSUME \A i \in DOMAIN t[2] : t[2][i] \notin {a, b} PROVE Renamed(t, E) = t
    OBVIOUS
  <2>1. \A i \in DOMAIN t[2] : E[t[2][i]] = t[2][i]
    BY <1>2, <1>4
  <2> QED
    BY <2>1, <1>2, RenamedAlone
<1>11. Swap(t, a, b) = Renamed(t, E) /\ Swap(Swap(t, a, b), a, b) = Renamed(Renamed(t, E), E)
       /\ Swap(t, a, a) = Renamed(t, Exchange(a, a)) /\ Swap(t, b, a) = Renamed(t, E)
  BY <1>1, <1>2 DEF E
<1> QED
  BY <1>5, <1>6, <1>8, <1>9, <1>10, <1>11 DEF E

(* The initial value of a ground fluent is a value.                          *)
LEMMA InitialIs ==
  ASSUME Given, NEW f \in Ground
  PROVE  IsValue(Symmetry!InitialValue(f))
<1>1. f[1] \in DOMAIN problem.fluents
  BY GroundIs
<1> QED
  BY <1>1, GivenIs DEF Symmetry!InitialValue, Symmetry!ProblemWellFormed, Symmetry!Assigns, IsValue

(* Conjuncts of the goal, and conjuncts of other names.                      *)
IsConjunct(c) ==
  /\ c = [op |-> c.op, terms |-> c.terms]
  /\ \A x \in c.terms : x = <<x[1], x[2]>> /\ IsTerm(x[2])
RenamedIn(terms, names) == {<<x[1], Renamed(x[2], names)>> : x \in terms}
RenamedConjunct(c, names) == [op |-> c.op, terms |-> RenamedIn(c.terms, names)]

(* A conjunct is a comparison of a ground fluent with another or a value.    *)
LEMMA ConjunctIs ==
  ASSUME Given, NEW c \in problem.goal
  PROVE  /\ IsTerm(c.terms[1]) /\ IsTerm(c.terms[2])
         /\ Symmetry!Canonical(c) =
              [op |-> c.op, terms |-> IF c.op = "equals" THEN {<<0, c.terms[1]>>, <<0, c.terms[2]>>}
                                      ELSE {<<1, c.terms[1]>>, <<2, c.terms[2]>>}]
<1>1. Symmetry!IsConjunct(problem, c)
  BY GivenIs DEF Symmetry!ProblemWellFormed
<1>2. DOMAIN c.terms = {1, 2} /\ c.terms[1] \in Ground /\ (c.terms[2] \in Ground \/ IsValue(c.terms[2]))
  BY <1>1 DEF Symmetry!IsConjunct, Ground, Symmetry!GroundFluents, IsValue
<1>3. {<<0, c.terms[i]>> : i \in DOMAIN c.terms} = {<<0, c.terms[1]>>, <<0, c.terms[2]>>}
  BY <1>2
<1>4. {<<i, c.terms[i]>> : i \in DOMAIN c.terms} = {<<1, c.terms[1]>>, <<2, c.terms[2]>>}
  BY <1>2
<1> QED
  BY <1>2, <1>3, <1>4, GroundIs, ValueTerm DEF Symmetry!Canonical

(* The goal consists of conjuncts.                                           *)
LEMMA GoalIs ==
  ASSUME Given, NEW c \in Symmetry!Goal
  PROVE  IsConjunct(c)
<1>1. PICK d \in problem.goal : c = Symmetry!Canonical(d)
  BY DEF Symmetry!Goal
<1> DEFINE ts == IF d.op = "equals" THEN {<<0, d.terms[1]>>, <<0, d.terms[2]>>}
                 ELSE {<<1, d.terms[1]>>, <<2, d.terms[2]>>}
<1>2. IsTerm(d.terms[1]) /\ IsTerm(d.terms[2]) /\ c = [op |-> d.op, terms |-> ts]
  BY <1>1, ConjunctIs
<1>3. \A x \in ts : x = <<x[1], x[2]>> /\ x[2] \in {d.terms[1], d.terms[2]}
  OBVIOUS
<1> HIDE DEF ts
<1> QED
  BY <1>2, <1>3 DEF IsConjunct

(* A renamed conjunct is one.                                                *)
LEMMA RenamedConjunctIs ==
  ASSUME NEW c, IsConjunct(c), NEW names \in [Os -> Os]
  PROVE  IsConjunct(RenamedConjunct(c, names))
<1>1. \A x \in RenamedIn(c.terms, names) : x = <<x[1], x[2]>> /\ IsTerm(x[2])
  BY RenamedIs DEF RenamedIn, IsConjunct
<1> QED
  BY <1>1 DEF RenamedConjunct, IsConjunct

(* A conjunct renamed twice.                                                 *)
LEMMA ConjunctTwice ==
  ASSUME NEW c, IsConjunct(c), NEW names \in [Os -> Os], NEW more \in [Os -> Os]
  PROVE  RenamedConjunct(RenamedConjunct(c, names), more) = RenamedConjunct(c, Composed(names, more))
<1>1. \A x \in c.terms : IsTerm(x[2]) /\ Renamed(Renamed(x[2], names), more) = Renamed(x[2], Composed(names, more))
  BY RenamedTwice DEF IsConjunct
<1>2. RenamedIn(RenamedIn(c.terms, names), more) = RenamedIn(c.terms, Composed(names, more))
  <2>1. ASSUME NEW y \in RenamedIn(RenamedIn(c.terms, names), more)
        PROVE  y \in RenamedIn(c.terms, Composed(names, more))
    <3>1. PICK z \in RenamedIn(c.terms, names) : y = <<z[1], Renamed(z[2], more)>>
      BY <2>1 DEF RenamedIn
    <3>2. PICK x \in c.terms : z = <<x[1], Renamed(x[2], names)>>
      BY DEF RenamedIn
    <3> QED
      BY <1>1, <3>1, <3>2 DEF RenamedIn
  <2>2. ASSUME NEW x \in c.terms
        PROVE  <<x[1], Renamed(x[2], Composed(names, more))>> \in RenamedIn(RenamedIn(c.terms, names), more)
    <3> DEFINE z == <<x[1], Renamed(x[2], names)>>
    <3>1. z \in RenamedIn(c.terms, names)
      BY DEF RenamedIn
    <3>2. z[1] = x[1] /\ z[2] = Renamed(x[2], names)
      OBVIOUS
    <3> HIDE DEF z
    <3>3. <<z[1], Renamed(z[2], more)>> \in RenamedIn(RenamedIn(c.terms, names), more)
      BY <3>1 DEF RenamedIn
    <3> QED
      BY <1>1, <3>2, <3>3
  <2> QED
    BY <2>1, <2>2 DEF RenamedIn
<1> QED
  BY <1>2 DEF RenamedConjunct

(* Names that stay leave a conjunct alone.                                   *)
LEMMA ConjunctAlone ==
  ASSUME NEW c, IsConjunct(c), NEW names \in [Os -> Os],
         \A x \in c.terms : \A i \in DOMAIN x[2][2] : names[x[2][2][i]] = x[2][2][i]
  PROVE  RenamedConjunct(c, names) = c
<1>1. \A x \in c.terms : <<x[1], Renamed(x[2], names)>> = x
  BY RenamedAlone DEF IsConjunct
<1>2. RenamedIn(c.terms, names) = c.terms
  BY <1>1 DEF RenamedIn
<1> QED
  BY <1>2 DEF RenamedConjunct, IsConjunct

(* Names under which the initial state and the goal are as they were.        *)
KeepsStart(names) ==
  \A f \in Ground : Symmetry!InitialValue(Renamed(f, names)) = Renamed(Symmetry!InitialValue(f), names)
KeepsGoal(names) == {RenamedConjunct(c, names) : c \in Symmetry!Goal} = Symmetry!Goal
Keeps(names) == Naming(names) /\ KeepsStart(names) /\ KeepsGoal(names)

(* Two namings that keep the goal keep it one after the other.               *)
LEMMA GoalComposed ==
  ASSUME Given, NEW names \in [Os -> Os], NEW more \in [Os -> Os], KeepsGoal(names), KeepsGoal(more)
  PROVE  KeepsGoal(Composed(names, more))
<1>1. \A c \in Symmetry!Goal :
        RenamedConjunct(RenamedConjunct(c, names), more) = RenamedConjunct(c, Composed(names, more))
  BY GoalIs, ConjunctTwice
<1>2. \A c \in Symmetry!Goal : RenamedConjunct(c, Composed(names, more)) \in Symmetry!Goal
  BY <1>1 DEF KeepsGoal
<1>3. ASSUME NEW c \in Symmetry!Goal
      PROVE  \E d \in Symmetry!Goal : c = RenamedConjunct(d, Composed(names, more))
  <2>1. PICK e \in Symmetry!Goal : c = RenamedConjunct(e, more)
    BY DEF KeepsGoal
  <2>2. PICK d \in Symmetry!Goal : e = RenamedConjunct(d, names)
    BY DEF KeepsGoal
  <2> QED
    BY <1>1, <2>1, <2>2
<1> QED
  BY <1>2, <1>3 DEF KeepsGoal

(* So do those that keep the initial state too.                              *)
LEMMA KeepsComposed ==
  ASSUME Given, NEW names, NEW more, Keeps(names), Keeps(more)
  PROVE  Keeps(Composed(names, more))
<1>1. names \in [Os -> Os] /\ more \in [Os -> Os] /\ Naming(names) /\ Naming(more)
  BY DEF Keeps, Naming
<1>2. Naming(Composed(names, more))
  BY <1>1 DEF Naming, Composed
<1>3. KeepsStart(Composed(names, more))
  <2> SUFFICES ASSUME NEW f \in Ground
               PROVE  Symmetry!InitialValue(Renamed(f, Composed(names, more)))
                        = Renamed(Symmetry!InitialValue(f), Composed(names, more))
    BY DEF KeepsStart
  <2>1. IsTerm(f) /\ IsTerm(Symmetry!InitialValue(f)) /\ Renamed(f, names) \in Ground
    BY <1>1, GroundIs, InitialIs, ValueTerm, RenamedGround
  <2>2. Renamed(f, Composed(names, more)) = Renamed(Renamed(f, names), more)
    BY <1>1, <2>1, RenamedTwice
  <2>3. Renamed(Symmetry!InitialValue(f), Composed(names, more))
          = Renamed(Renamed(Symmetry!InitialValue(f), names), more)
    BY <1>1, <2>1, RenamedTwice
  <2>4. Symmetry!InitialValue(Renamed(Renamed(f, names), more))
          = Renamed(Symmetry!InitialValue(Renamed(f, names)), more)
    BY <2>1 DEF Keeps, KeepsStart
  <2>5. Symmetry!InitialValue(Renamed(f, names)) = Renamed(Symmetry!InitialValue(f), names)
    BY DEF Keeps, KeepsStart
  <2> QED
    BY <2>2, <2>3, <2>4, <2>5
<1> QED
  BY <1>1, <1>2, <1>3, GoalComposed DEF Keeps

(* Exchanging two objects is a naming.                                       *)
LEMMA SwapConjunctIs ==
  ASSUME NEW c, IsConjunct(c), NEW a, NEW b
  PROVE  Symmetry!SwapConjunct(c, a, b) = RenamedConjunct(c, Exchange(a, b))
<1>1. \A x : Symmetry!Swap(x, a, b) = Renamed(x, Exchange(a, b))
  BY DEF Symmetry!Swap, Renamed, Exchange
<1>2. {<<x[1], Symmetry!Swap(x[2], a, b)>> : x \in c.terms} = RenamedIn(c.terms, Exchange(a, b))
  BY <1>1 DEF RenamedIn
<1>3. c = [op |-> c.op, terms |-> c.terms]
  BY DEF IsConjunct
<1>4. [[op |-> c.op, terms |-> c.terms] EXCEPT !.terms = RenamedIn(c.terms, Exchange(a, b))]
        = [op |-> c.op, terms |-> RenamedIn(c.terms, Exchange(a, b))]
  OBVIOUS
<1>5. Symmetry!SwapConjunct(c, a, b) = [c EXCEPT !.terms = RenamedIn(c.terms, Exchange(a, b))]
  BY <1>2 DEF Symmetry!SwapConjunct
<1> QED
  BY <1>3, <1>4, <1>5 DEF RenamedConjunct

(* Interchangeable objects: exchanging them keeps both.                      *)
LEMMA InterchangeableIs ==
  ASSUME Given, NEW a \in Os, NEW b \in Os
  PROVE  Symmetry!Interchangeable(a, b) <=> TypeOf(a) = TypeOf(b) /\ Keeps(Exchange(a, b))
<1>1. {Symmetry!SwapConjunct(c, a, b) : c \in Symmetry!Goal}
        = {RenamedConjunct(c, Exchange(a, b)) : c \in Symmetry!Goal}
  BY GoalIs, SwapConjunctIs
<1>2. \A x : Symmetry!Swap(x, a, b) = Renamed(x, Exchange(a, b))
  BY DEF Symmetry!Swap, Renamed, Exchange
<1>3. TypeOf(a) = TypeOf(b) => Naming(Exchange(a, b))
  BY ExchangeIs
<1> QED
  BY <1>1, <1>2, <1>3 DEF Symmetry!Interchangeable, Keeps, KeepsStart, KeepsGoal, TypeOf, Ground

(* Being interchangeable is an equivalence.                                  *)
LEMMA InterchangeableBack ==
  ASSUME Given, NEW a \in Os, NEW b \in Os, Symmetry!Interchangeable(a, b)
  PROVE  Symmetry!Interchangeable(b, a)
BY InterchangeableIs, ExchangeIs

(* Exchanging a with c goes by way of b.                                     *)
LEMMA ExchangeAround ==
  ASSUME NEW a \in Os, NEW b \in Os, NEW c \in Os, a # b, b # c, a # c
  PROVE  Exchange(a, c) = Composed(Composed(Exchange(a, b), Exchange(b, c)), Exchange(a, b))
<1> DEFINE C == Composed(Exchange(a, b), Exchange(b, c))
<1>1. \A o \in Os : Composed(C, Exchange(a, b))[o] = Exchange(a, b)[C[o]] /\ C[o] = Exchange(b, c)[Exchange(a, b)[o]]
  BY DEF Composed
<1>2. C \in [Os -> Os] /\ Composed(C, Exchange(a, b)) \in [Os -> Os] /\ Exchange(a, c) \in [Os -> Os]
  <2>1. Exchange(a, b) \in [Os -> Os] /\ Exchange(b, c) \in [Os -> Os] /\ Exchange(a, c) \in [Os -> Os]
    BY ExchangeIs
  <2> QED
    BY <2>1 DEF Composed
<1> HIDE DEF C
<1>3. \A o \in Os : Exchange(a, c)[o] = Composed(C, Exchange(a, b))[o]
  BY <1>1, ExchangeAt
<1> QED
  BY <1>2, <1>3 DEF C

(* So interchangeability passes on.                                          *)
LEMMA InterchangeableOn ==
  ASSUME Given, NEW a \in Os, NEW b \in Os, NEW c \in Os,
         Symmetry!Interchangeable(a, b), Symmetry!Interchangeable(b, c), a # c
  PROVE  Symmetry!Interchangeable(a, c)
<1>1. CASE a = b \/ b = c
  BY <1>1
<1>2. CASE a # b /\ b # c
  <2>1. Keeps(Exchange(a, b)) /\ Keeps(Exchange(b, c)) /\ TypeOf(a) = TypeOf(c)
    BY InterchangeableIs
  <2>2. Keeps(Composed(Composed(Exchange(a, b), Exchange(b, c)), Exchange(a, b)))
    BY <2>1, KeepsComposed
  <2> QED
    BY <1>2, <2>1, <2>2, ExchangeAround, InterchangeableIs
<1> QED
  BY <1>1, <1>2

(* A term, a value or a conjunct without either object is left alone.        *)
Untouched(t, a, b) == \A i \in DOMAIN t[2] : t[2][i] # a /\ t[2][i] # b

(* Exchanging does not change it.                                            *)
LEMMA UntouchedStays ==
  ASSUME NEW t, IsTerm(t), NEW a \in Os, NEW b \in Os, Untouched(t, a, b)
  PROVE  Renamed(t, Exchange(a, b)) = t
<1>1. \A i \in DOMAIN t[2] : t[2][i] \in Os /\ Exchange(a, b)[t[2][i]] = t[2][i]
  BY ExchangeAt DEF IsTerm, Untouched
<1> DEFINE E == Exchange(a, b)
<1>2. E \in [Os -> Os]
  BY ExchangeIs
<1>3. \A i \in DOMAIN t[2] : E[t[2][i]] = t[2][i]
  BY <1>1
<1> HIDE DEF E
<1>4. Renamed(t, E) = t
  BY <1>2, <1>3, RenamedAlone
<1> QED
  BY <1>4 DEF E

(* Exchanging twice changes nothing.                                         *)
LEMMA ExchangeBack ==
  ASSUME NEW a \in Os, NEW b \in Os
  PROVE  /\ \A t : IsTerm(t) => Renamed(Renamed(t, Exchange(a, b)), Exchange(a, b)) = t
         /\ \A c : IsConjunct(c) =>
              RenamedConjunct(RenamedConjunct(c, Exchange(a, b)), Exchange(a, b)) = c
<1> DEFINE E == Exchange(a, b)
           C == Composed(E, E)
<1>1. E \in [Os -> Os]
  BY ExchangeIs
<1>2. \A o \in Os : E[E[o]] = o
  <2> TAKE o \in Os
  <2>1. E[o] = (IF o = a THEN b ELSE IF o = b THEN a ELSE o) /\ E[o] \in Os
    BY <1>1, ExchangeAt
  <2>2. E[E[o]] = (IF E[o] = a THEN b ELSE IF E[o] = b THEN a ELSE E[o])
    BY <2>1, ExchangeAt
  <2> QED
    BY <2>1, <2>2
<1> HIDE DEF E
<1>3. C \in [Os -> Os] /\ \A o \in Os : C[o] = o
  BY <1>1, <1>2 DEF Composed
<1> HIDE DEF C
<1>4. ASSUME NEW t, IsTerm(t)
      PROVE  Renamed(Renamed(t, E), E) = t
  <2>1. Renamed(Renamed(t, E), E) = Renamed(t, C)
    BY <1>1, <1>4, RenamedTwice DEF C
  <2>2. \A i \in DOMAIN t[2] : C[t[2][i]] = t[2][i]
    BY <1>3, <1>4 DEF IsTerm
  <2> QED
    BY <1>3, <1>4, <2>1, <2>2, RenamedAlone
<1>5. ASSUME NEW c, IsConjunct(c)
      PROVE  RenamedConjunct(RenamedConjunct(c, E), E) = c
  <2>1. RenamedConjunct(RenamedConjunct(c, E), E) = RenamedConjunct(c, C)
    BY <1>1, <1>5, ConjunctTwice DEF C
  <2>2. \A x \in c.terms : \A i \in DOMAIN x[2][2] : C[x[2][2][i]] = x[2][2][i]
    BY <1>3, <1>5 DEF IsConjunct, IsTerm
  <2> QED
    BY <1>3, <1>5, <2>1, <2>2, ConjunctAlone
<1> QED
  BY <1>4, <1>5 DEF E

(* Only conjuncts with one of the two objects need looking at.               *)
LEMMA GoalUnchangedIs ==
  ASSUME Given, NEW a \in Os, NEW b \in Os
  PROVE  Symmetry!GoalUnchanged(a, b) <=> KeepsGoal(Exchange(a, b))
<1> DEFINE G == Symmetry!Goal
           R(c) == RenamedConjunct(c, Exchange(a, b))
<1>1. \A c \in G : Symmetry!SwapConjunct(c, a, b) = R(c) /\ IsConjunct(c)
  BY GoalIs, SwapConjunctIs
<1>2. \A c \in G : c \in Symmetry!ConjunctsWith(a) \cup Symmetry!ConjunctsWith(b)
                     <=> \E x \in c.terms : a \in Symmetry!ObjectsIn(x[2]) \/ b \in Symmetry!ObjectsIn(x[2])
  BY DEF Symmetry!ConjunctsWith, Symmetry!ConjunctObjects
<1>3. \A t, o : o \in Symmetry!ObjectsIn(t) <=> \E i \in DOMAIN t[2] : t[2][i] = o
  BY DEF Symmetry!ObjectsIn, Symmetry!ToSet
<1>4. Symmetry!ConjunctsWith(a) \cup Symmetry!ConjunctsWith(b) \subseteq G
  BY DEF Symmetry!ConjunctsWith
<1>5. ASSUME KeepsGoal(Exchange(a, b))
      PROVE  Symmetry!GoalUnchanged(a, b)
  BY <1>1, <1>4, <1>5 DEF KeepsGoal, Symmetry!GoalUnchanged
<1>6. ASSUME Symmetry!GoalUnchanged(a, b)
      PROVE  KeepsGoal(Exchange(a, b))
  <2>1. ASSUME NEW c \in G
        PROVE  R(c) \in G
    <3>1. CASE c \in Symmetry!ConjunctsWith(a) \cup Symmetry!ConjunctsWith(b)
      BY <1>1, <1>6, <3>1 DEF Symmetry!GoalUnchanged
    <3>2. CASE c \notin Symmetry!ConjunctsWith(a) \cup Symmetry!ConjunctsWith(b)
      <4>1. \A x \in c.terms : \A i \in DOMAIN x[2][2] : x[2][2][i] # a /\ x[2][2][i] # b
        BY <1>2, <1>3, <3>2
      <4>2. \A x \in c.terms : \A i \in DOMAIN x[2][2] : x[2][2][i] \in Os
        BY <1>1 DEF IsConjunct, IsTerm
      <4> DEFINE E == Exchange(a, b)
      <4>3. \A x \in c.terms : \A i \in DOMAIN x[2][2] : E[x[2][2][i]] = x[2][2][i]
        BY <4>1, <4>2, ExchangeAt
      <4>4. E \in [Os -> Os] /\ IsConjunct(c)
        BY <1>1, ExchangeIs
      <4> HIDE DEF E
      <4>5. RenamedConjunct(c, E) = c
        BY <4>3, <4>4, ConjunctAlone
      <4> QED
        BY <4>5 DEF E
    <3> QED
      BY <3>1, <3>2
  <2>2. \A c \in G : R(R(c)) = c
    BY <1>1, ExchangeBack
  <2> HIDE DEF R
  <2>3. {R(c) : c \in G} = G
    BY <2>1, <2>2
  <2> QED
    BY <2>3 DEF KeepsGoal, R
<1> QED
  BY <1>5, <1>6

(* Explicit assignments are the values that are not the default.             *)
LEMMA ExplicitIs ==
  ASSUME Given
  PROVE  /\ \A x : x \in Symmetry!ExplicitOnes <=>
                     \E f \in Ground : /\ x = <<f, Symmetry!InitialValue(f)>>
                                       /\ Symmetry!InitialValue(f) # problem.defaults[f[1]]
         /\ \A f \in Ground : IsValue(problem.defaults[f[1]])
         /\ \A f \in Ground : \A o : o \in Symmetry!ObjectsIn(problem.defaults[f[1]]) => o \in Symmetry!DefaultObjects
<1>1. \A f \in DOMAIN problem.explicit : f \in Ground
  BY GivenIs DEF Symmetry!ProblemWellFormed, Symmetry!Assigns, Ground, Symmetry!GroundFluents
<1>2. \A f \in Ground : f[1] \in DOMAIN problem.fluents /\ f[1] \in DOMAIN problem.defaults
  BY GroundIs, GivenIs DEF Symmetry!ProblemWellFormed
<1>3. \A f \in DOMAIN problem.explicit : Symmetry!InitialValue(f) = problem.explicit[f]
  BY DEF Symmetry!InitialValue
<1>4. \A f : f \notin DOMAIN problem.explicit => Symmetry!InitialValue(f) = problem.defaults[f[1]]
  BY DEF Symmetry!InitialValue
<1>5. \A x : x \in Symmetry!ExplicitOnes <=>
               \E f \in DOMAIN problem.explicit : /\ x = <<f, problem.explicit[f]>>
                                                  /\ problem.explicit[f] # problem.defaults[f[1]]
  BY DEF Symmetry!ExplicitOnes
<1>6. \A f \in Ground : IsValue(problem.defaults[f[1]])
  BY <1>2, GivenIs DEF Symmetry!ProblemWellFormed, IsValue
<1>7. \A f \in Ground : \A o : o \in Symmetry!ObjectsIn(problem.defaults[f[1]]) => o \in Symmetry!DefaultObjects
  BY <1>2 DEF Symmetry!DefaultObjects
<1>8. \A x : x \in Symmetry!ExplicitOnes <=>
                     \E f \in Ground : /\ x = <<f, Symmetry!InitialValue(f)>>
                                       /\ Symmetry!InitialValue(f) # problem.defaults[f[1]]
  BY <1>1, <1>3, <1>4, <1>5
<1> QED
  BY <1>6, <1>7, <1>8

(* An assignment that mentions one of two objects involves one of them.      *)
LEMMA InvolvingIs ==
  ASSUME NEW S, NEW x, NEW a \in Os, NEW b \in Os, IsTerm(x[1]), IsValue(x[2])
  PROVE  /\ x \in S /\ ~Untouched(x[1], a, b) => x \in Symmetry!Involving(S, a) \cup Symmetry!Involving(S, b)
         /\ x \in S /\ ~Untouched(x[2], a, b) => x \in Symmetry!Involving(S, a) \cup Symmetry!Involving(S, b)
<1>1. \A t, o : o \in Symmetry!ObjectsIn(t) <=> \E i \in DOMAIN t[2] : t[2][i] = o
  BY DEF Symmetry!ObjectsIn, Symmetry!ToSet
<1>2. ~Symmetry!IsObj(x[2]) => DOMAIN x[2][2] = {}
  <2> SUFFICES ASSUME ~Symmetry!IsObj(x[2]) PROVE DOMAIN x[2][2] = {}
    OBVIOUS
  <2>1. x[2] = <<x[2][1], <<>>>>
    BY ValueTerm
  <2>2. x[2][2] = <<>>
    BY <2>1
  <2> QED
    BY <2>2
<1> QED
  BY <1>1, <1>2 DEF Untouched, Symmetry!Involving

(* A value that is not the default is explicit, and the default is known not *)
(* to change unless it is one of the two: so the assignments that are        *)
(* compared are enough.                                                      *)
LEMMA InitUnchangedIs ==
  ASSUME Given, NEW a \in Os, NEW b \in Os, TypeOf(a) = TypeOf(b)
  PROVE  Symmetry!InitUnchanged(a, b) <=> KeepsStart(Exchange(a, b))
<1> DEFINE I(f) == Symmetry!InitialValue(f)
           R(t) == Renamed(t, Exchange(a, b))
           D(f) == problem.defaults[f[1]]
           S == Symmetry!Compared(a, b)
           seen == Symmetry!Involving(S, a) \cup Symmetry!Involving(S, b)
<1>1. \A t : Symmetry!Swap(t, a, b) = R(t)
  BY DEF Symmetry!Swap, Renamed, Exchange
<1>2. \A f \in Ground : /\ IsTerm(f) /\ IsValue(I(f)) /\ IsTerm(I(f)) /\ R(f) \in Ground /\ R(R(f)) = f
                        /\ R(R(I(f))) = I(f) /\ R(f)[1] = f[1] /\ IsTerm(R(f))
  <2> DEFINE E == Exchange(a, b)
  <2> TAKE f \in Ground
  <2>1. E \in [Os -> Os] /\ Naming(E)
    BY ExchangeIs
  <2>2. IsTerm(f) /\ IsValue(I(f)) /\ IsTerm(I(f))
    BY GroundIs, InitialIs, ValueTerm
  <2>3. R(R(f)) = f /\ R(R(I(f))) = I(f)
    BY <2>2, ExchangeBack
  <2> HIDE DEF E
  <2>4. Renamed(f, E) \in Ground /\ Renamed(f, E)[1] = f[1] /\ IsTerm(Renamed(f, E))
    BY <2>1, <2>2, RenamedGround, RenamedIs
  <2> QED
    BY <2>2, <2>3, <2>4 DEF E
<1>3. \A x \in S : \E f \in Ground : x = <<f, I(f)>>
  BY ExplicitIs DEF Symmetry!Compared, Symmetry!AllOnes, Ground
<1>4. seen \subseteq S
  BY DEF Symmetry!Involving
<1>5. Symmetry!InitUnchanged(a, b) <=> \A x \in seen : I(R(x[1])) = R(x[2])
  BY <1>1 DEF Symmetry!InitUnchanged
<1>6. ASSUME KeepsStart(Exchange(a, b))
      PROVE  \A x \in seen : I(R(x[1])) = R(x[2])
  BY <1>3, <1>4, <1>6 DEF KeepsStart
<1>7. ASSUME \A x \in seen : I(R(x[1])) = R(x[2]), NEW f \in Ground, <<f, I(f)>> \in S
      PROVE  I(R(f)) = R(I(f))
  <2> DEFINE x == <<f, I(f)>>
  <2>1. x[1] = f /\ x[2] = I(f)
    OBVIOUS
  <2>2. CASE x \in seen
    BY <1>7, <2>1, <2>2
  <2>3. CASE x \notin seen
    <3>1. Untouched(f, a, b) /\ Untouched(I(f), a, b)
      BY <1>2, <1>7, <2>1, <2>3, InvolvingIs
    <3>2. R(f) = f /\ R(I(f)) = I(f)
      BY <1>2, <3>1, UntouchedStays
    <3> QED
      BY <3>2
  <2> QED
    BY <2>2, <2>3
<1>8. ASSUME \A x \in seen : I(R(x[1])) = R(x[2]), NEW f \in Ground, <<f, I(f)>> \notin S
      PROVE  I(R(f)) = R(I(f))
  <2>1. S = Symmetry!ExplicitOnes /\ a \notin Symmetry!DefaultObjects /\ b \notin Symmetry!DefaultObjects
    BY <1>8 DEF Symmetry!Compared, Symmetry!AllOnes, Ground
  <2>2. I(f) = D(f)
    BY <1>8, <2>1, ExplicitIs
  <2>3. Untouched(D(f), a, b)
    BY <2>1, ExplicitIs DEF Untouched, Symmetry!ObjectsIn, Symmetry!ToSet
  <2>4. R(I(f)) = I(f)
    BY <1>2, <2>2, <2>3, UntouchedStays
  <2>5. ASSUME I(R(f)) # D(f)
        PROVE  FALSE
    <3>1. D(R(f)) = D(f) /\ R(f) \in Ground
      BY <1>2
    <3>2. <<R(f), I(R(f))>> \in S
      BY <2>1, <2>5, <3>1, ExplicitIs
    <3>3. I(R(R(f))) = R(I(R(f)))
      BY <1>7, <1>8, <3>1, <3>2
    <3>4. I(f) = R(I(R(f)))
      BY <1>2, <3>3
    <3>5. R(I(f)) = I(R(f))
      BY <1>2, <3>1, <3>4
    <3> QED
      BY <2>2, <2>4, <2>5, <3>5
  <2> QED
    BY <2>2, <2>4, <2>5
<1> QED
  BY <1>5, <1>6, <1>7, <1>8 DEF KeepsStart

(* The comparison is the relation.                                           *)
LEMMA EquivalentIs ==
  ASSUME Given, NEW a \in Os, NEW b \in Os, TypeOf(a) = TypeOf(b)
  PROVE  Symmetry!AreEquivalent(a, b) <=> Symmetry!Interchangeable(a, b)
<1>1. Naming(Exchange(a, b))
  BY ExchangeIs
<1> QED
  BY <1>1, InitUnchangedIs, GoalUnchangedIs, InterchangeableIs DEF Symmetry!AreEquivalent, Keeps

(* How often each value of a function is taken.                              *)
Times(F, v) == Symmetry!Cardinality({x \in DOMAIN F : F[x] = v})
Tally(F) == {<<v, Times(F, v)>> : v \in {F[x] : x \in DOMAIN F}}

(* It is the same for another function with the same values at elements that *)
(* correspond.                                                               *)
Corresponds(F, G, h, k) ==
  /\ h \in [DOMAIN F -> DOMAIN G] /\ k \in [DOMAIN G -> DOMAIN F]
  /\ \A x \in DOMAIN F : k[h[x]] = x /\ G[h[x]] = F[x]
  /\ \A y \in DOMAIN G : h[k[y]] = y

(* Corresponding functions have one tally.                                   *)
LEMMA TallySame ==
  ASSUME NEW F, NEW G, IsFiniteSet(DOMAIN F), NEW h, NEW k, Corresponds(F, G, h, k)
  PROVE  Tally(F) = Tally(G)
<1> DEFINE S == DOMAIN F
           T == DOMAIN G
<1>0. /\ h \in [S -> T] /\ k \in [T -> S]
      /\ \A x \in S : k[h[x]] = x /\ G[h[x]] = F[x]
      /\ \A y \in T : h[k[y]] = y
  BY DEF Corresponds
<1> DEFINE A(v) == {x \in S : F[x] = v}
           B(v) == {y \in T : G[y] = v}
<1>1. \A y \in T : F[k[y]] = G[y]
  BY <1>0
<1>2. {F[x] : x \in S} = {G[y] : y \in T}
  BY <1>0, <1>1
<1>3. ASSUME NEW v
      PROVE  Cardinality(A(v)) = Cardinality(B(v))
  <2> DEFINE g == [x \in A(v) |-> h[x]]
  <2>1. IsFiniteSet(A(v))
    BY FS_Subset
  <2>2. g \in [A(v) -> B(v)]
    BY <1>0
  <2>3. \A x, y \in A(v) : g[x] = g[y] => x = y
    BY <1>0
  <2>4. \A y \in B(v) : \E x \in A(v) : g[x] = y
    <3> TAKE y \in B(v)
    <3>1. k[y] \in A(v) /\ h[k[y]] = y
      BY <1>0, <1>1
    <3> QED
      BY <3>1
  <2> HIDE DEF g, A, B
  <2>5. g \in Surjection(A(v), B(v)) /\ g \in Injection(A(v), B(v))
    BY <2>2, <2>3, <2>4 DEF Surjection, Injection, IsInjective
  <2> QED
    BY <2>1, <2>5, FS_Surjection
<1>4. ASSUME NEW v
      PROVE  Times(F, v) = Times(G, v)
  <2>1. Times(F, v) = Symmetry!Cardinality(A(v)) /\ Times(G, v) = Symmetry!Cardinality(B(v))
    BY DEF Times
  <2> HIDE DEF A, B
  <2> QED
    BY <1>3, <2>1, SymmetrySetsAre
<1> QED
  BY <1>2, <1>4 DEF Tally

(* The parts of a signature are tallies.                                     *)
FeatureOf(o) == [x \in Symmetry!Involving(Symmetry!ExplicitOnes, o) |-> Symmetry!Feature(x, o)]
Named(c) == {x \in c.terms : x[2][1] \notin {"object", "true", "false"}}
NameOf(c) == [x \in Named(c) |-> x[2][1]]
NamesOf(o) == [c \in Symmetry!ConjunctsWith(o) |-> Tally(NameOf(c))]

(* Both parts of a signature are tallies.                                    *)
LEMMA SignatureIs ==
  ASSUME NEW o
  PROVE  Symmetry!Signature(o) = <<Tally(FeatureOf(o)), Tally(NamesOf(o))>>
<1>1. \A c : Symmetry!FluentsOf(c) = Tally(NameOf(c))
  <2> TAKE c
  <2>1. Symmetry!FluentsOf(c) = {<<v, Symmetry!Cardinality({x \in Named(c) : x[2][1] = v})>> : v \in {x[2][1] : x \in Named(c)}}
    BY DEF Symmetry!FluentsOf, Symmetry!Counted, Named
  <2>2. DOMAIN NameOf(c) = Named(c) /\ \A x \in Named(c) : NameOf(c)[x] = x[2][1]
    BY DEF NameOf
  <2>3. {x[2][1] : x \in Named(c)} = {NameOf(c)[x] : x \in DOMAIN NameOf(c)}
    BY <2>2
  <2> DEFINE n(v) == Symmetry!Cardinality({x \in Named(c) : x[2][1] = v})
  <2>4. ASSUME NEW v
        PROVE  n(v) = Times(NameOf(c), v)
    <3>1. {x \in Named(c) : x[2][1] = v} = {x \in DOMAIN NameOf(c) : NameOf(c)[x] = v}
      BY <2>2
    <3> QED
      BY <3>1 DEF Times
  <2>5. Symmetry!FluentsOf(c) = {<<v, n(v)>> : v \in {x[2][1] : x \in Named(c)}}
    BY <2>1
  <2> HIDE DEF n
  <2> QED
    BY <2>3, <2>4, <2>5 DEF Tally
<1>2. Symmetry!Signature(o) =
        <<{<<v, Symmetry!Cardinality({x \in Symmetry!Involving(Symmetry!ExplicitOnes, o) : Symmetry!Feature(x, o) = v})>> :
             v \in {Symmetry!Feature(x, o) : x \in Symmetry!Involving(Symmetry!ExplicitOnes, o)}},
          {<<v, Symmetry!Cardinality({c \in Symmetry!ConjunctsWith(o) : Symmetry!FluentsOf(c) = v})>> :
             v \in {Symmetry!FluentsOf(c) : c \in Symmetry!ConjunctsWith(o)}}>>
  BY DEF Symmetry!Signature, Symmetry!Counted
<1>3. {<<v, Symmetry!Cardinality({x \in Symmetry!Involving(Symmetry!ExplicitOnes, o) : Symmetry!Feature(x, o) = v})>> :
             v \in {Symmetry!Feature(x, o) : x \in Symmetry!Involving(Symmetry!ExplicitOnes, o)}} = Tally(FeatureOf(o))
  <2> DEFINE S == Symmetry!Involving(Symmetry!ExplicitOnes, o)
             F(x) == Symmetry!Feature(x, o)
  <2>2. DOMAIN FeatureOf(o) = S /\ \A x \in S : FeatureOf(o)[x] = F(x)
    BY DEF FeatureOf
  <2> HIDE DEF S, F
  <2>3. {F(x) : x \in S} = {FeatureOf(o)[x] : x \in DOMAIN FeatureOf(o)}
    BY <2>2
  <2> DEFINE n(v) == Symmetry!Cardinality({x \in S : F(x) = v})
  <2>4. ASSUME NEW v
        PROVE  n(v) = Times(FeatureOf(o), v)
    <3>1. {x \in S : F(x) = v} = {x \in DOMAIN FeatureOf(o) : FeatureOf(o)[x] = v}
      BY <2>2
    <3> QED
      BY <3>1 DEF Times
  <2> HIDE DEF n
  <2>5. {<<v, n(v)>> : v \in {F(x) : x \in S}} = Tally(FeatureOf(o))
    BY <2>3, <2>4 DEF Tally
  <2> QED
    BY <2>5 DEF S, F, n
<1>4. {<<v, Symmetry!Cardinality({c \in Symmetry!ConjunctsWith(o) : Symmetry!FluentsOf(c) = v})>> :
             v \in {Symmetry!FluentsOf(c) : c \in Symmetry!ConjunctsWith(o)}} = Tally(NamesOf(o))
  <2> DEFINE S == Symmetry!ConjunctsWith(o)
             F(c) == Symmetry!FluentsOf(c)
  <2>2. DOMAIN NamesOf(o) = S /\ \A x \in S : NamesOf(o)[x] = F(x)
    BY <1>1 DEF NamesOf
  <2> HIDE DEF S, F
  <2>3. {F(x) : x \in S} = {NamesOf(o)[x] : x \in DOMAIN NamesOf(o)}
    BY <2>2
  <2> DEFINE n(v) == Symmetry!Cardinality({x \in S : F(x) = v})
  <2>4. ASSUME NEW v
        PROVE  n(v) = Times(NamesOf(o), v)
    <3>1. {x \in S : F(x) = v} = {x \in DOMAIN NamesOf(o) : NamesOf(o)[x] = v}
      BY <2>2
    <3> QED
      BY <3>1 DEF Times
  <2> HIDE DEF n
  <2>5. {<<v, n(v)>> : v \in {F(x) : x \in S}} = Tally(NamesOf(o))
    BY <2>3, <2>4 DEF Tally
  <2> QED
    BY <2>5 DEF S, F, n
<1> QED
  BY <1>2, <1>3, <1>4

(* How an object appears is how the one it is exchanged with appears then.   *)
LEMMA AbstractMoves ==
  ASSUME NEW a \in Os, NEW b \in Os, TypeOf(a) = TypeOf(b), NEW t, IsTerm(t)
  PROVE  Symmetry!Abstract(Renamed(t, Exchange(a, b)), b) = Symmetry!Abstract(t, a)
<1> DEFINE u == Renamed(t, Exchange(a, b))
           E == Exchange(a, b)
<1>1. E \in [Os -> Os]
  BY ExchangeIs
<1>2. \A i \in DOMAIN t[2] : t[2][i] \in Os
  BY DEF IsTerm
<1>3. \A o \in Os : E[o] = IF o = a THEN b ELSE IF o = b THEN a ELSE o
  BY ExchangeAt
<1> HIDE DEF E
<1>4. DOMAIN Renamed(t, E)[2] = DOMAIN t[2] /\ \A i \in DOMAIN t[2] : Renamed(t, E)[2][i] = E[t[2][i]]
  BY <1>1, RenamedIs
<1>5. DOMAIN u[2] = DOMAIN t[2] /\ \A i \in DOMAIN t[2] : u[2][i] = E[t[2][i]]
  BY <1>4 DEF E
<1> HIDE DEF u
<1>6. \A i \in DOMAIN t[2] : /\ u[2][i] = b <=> t[2][i] = a
                             /\ TypeOf(u[2][i]) = TypeOf(t[2][i])
  BY <1>2, <1>3, <1>5
<1>7. Symmetry!Abstract(u, b) = [i \in DOMAIN u[2] |-> IF u[2][i] = b THEN "self" ELSE TypeOf(u[2][i])]
  BY DEF Symmetry!Abstract, TypeOf
<1>8. Symmetry!Abstract(t, a) = [i \in DOMAIN t[2] |-> IF t[2][i] = a THEN "self" ELSE TypeOf(t[2][i])]
  BY DEF Symmetry!Abstract, TypeOf
<1>9. Symmetry!Abstract(u, b) = Symmetry!Abstract(t, a)
  BY <1>5, <1>6, <1>7, <1>8
<1> QED
  BY <1>9 DEF u

(* An assignment of one object becomes one of the other.                     *)
Moved(x, a, b) == <<Renamed(x[1], Exchange(a, b)), Renamed(x[2], Exchange(a, b))>>
NoDefault(a, b) == \A f \in Ground : Untouched(problem.defaults[f[1]], a, b)

(* Explicit assignments of one object move to the other.                     *)
LEMMA AssignmentMoves ==
  ASSUME Given, NEW a \in Os, NEW b \in Os, Symmetry!Interchangeable(a, b), NoDefault(a, b),
         NEW x \in Symmetry!Involving(Symmetry!ExplicitOnes, a)
  PROVE  /\ Moved(x, a, b) \in Symmetry!Involving(Symmetry!ExplicitOnes, b)
         /\ Symmetry!Feature(Moved(x, a, b), b) = Symmetry!Feature(x, a)
         /\ Moved(Moved(x, a, b), b, a) = x
<1> DEFINE I(f) == Symmetry!InitialValue(f)
           R(t) == Renamed(t, Exchange(a, b))
<1>1. TypeOf(a) = TypeOf(b) /\ Naming(Exchange(a, b)) /\ KeepsStart(Exchange(a, b))
      /\ Exchange(a, b) = Exchange(b, a) /\ Exchange(a, b) \in [Os -> Os]
  BY InterchangeableIs, ExchangeIs DEF Keeps
<1>2. PICK f \in Ground : x = <<f, I(f)>> /\ I(f) # problem.defaults[f[1]]
  BY ExplicitIs DEF Symmetry!Involving
<1>3. IsTerm(f) /\ IsValue(I(f)) /\ IsTerm(I(f)) /\ IsValue(problem.defaults[f[1]]) /\ IsTerm(problem.defaults[f[1]])
  BY GroundIs, InitialIs, ValueTerm, ExplicitIs
<1>4. R(R(f)) = f /\ R(R(I(f))) = I(f) /\ R(problem.defaults[f[1]]) = problem.defaults[f[1]]
  BY <1>3, ExchangeBack, UntouchedStays DEF NoDefault
<1>5. R(f) \in Ground /\ R(f)[1] = f[1] /\ I(R(f)) = R(I(f))
  <2>1. R(f) \in Ground
    BY <1>1, RenamedGround
  <2>2. R(f)[1] = f[1]
    BY <1>1, <1>3, RenamedIs
  <2> QED
    BY <1>1, <2>1, <2>2 DEF KeepsStart
<1>6. Moved(x, a, b) = <<R(f), R(I(f))>> /\ Moved(x, a, b)[1] = R(f) /\ Moved(x, a, b)[2] = R(I(f))
  BY <1>2 DEF Moved
<1>7. x[1] = f /\ x[2] = I(f)
  BY <1>2
<1>8. R(I(f)) # problem.defaults[f[1]]
  BY <1>2, <1>4
<1>9. Moved(x, a, b) \in Symmetry!ExplicitOnes
  BY <1>5, <1>6, <1>8, ExplicitIs
<1>10. \A t, o : o \in Symmetry!ObjectsIn(t) <=> \E i \in DOMAIN t[2] : t[2][i] = o
  BY DEF Symmetry!ObjectsIn, Symmetry!ToSet
<1>11. ASSUME NEW t, IsTerm(t), a \in Symmetry!ObjectsIn(t)
       PROVE  b \in Symmetry!ObjectsIn(R(t))
  <2>1. PICK i \in DOMAIN t[2] : t[2][i] = a
    BY <1>10, <1>11
  <2>2. i \in DOMAIN R(t)[2] /\ R(t)[2][i] = Exchange(a, b)[a]
    BY <1>1, <1>11, <2>1, RenamedIs
  <2>3. Exchange(a, b)[a] = b
    BY ExchangeAt
  <2> QED
    BY <1>10, <2>2, <2>3
<1>12. Symmetry!IsObj(R(I(f))) <=> Symmetry!IsObj(I(f))
  BY <1>1, <1>3, RenamedValue
<1>13. Moved(x, a, b) \in Symmetry!Involving(Symmetry!ExplicitOnes, b)
  BY <1>3, <1>6, <1>7, <1>9, <1>11, <1>12 DEF Symmetry!Involving
<1>14. Symmetry!Abstract(R(f), b) = Symmetry!Abstract(f, a) /\ Symmetry!Abstract(R(I(f)), b) = Symmetry!Abstract(I(f), a)
       /\ R(I(f))[1] = I(f)[1]
  BY <1>1, <1>3, AbstractMoves, RenamedIs
<1>15. Symmetry!AbstractValue(R(I(f)), b) = Symmetry!AbstractValue(I(f), a)
  BY <1>12, <1>14 DEF Symmetry!AbstractValue
<1> HIDE DEF R, I
<1>16. Symmetry!Feature(Moved(x, a, b), b) = Symmetry!Feature(x, a)
  BY <1>5, <1>6, <1>7, <1>14, <1>15 DEF Symmetry!Feature
<1>17. Moved(Moved(x, a, b), b, a) = <<R(R(f)), R(R(I(f)))>>
  <2>1. Moved(Moved(x, a, b), b, a) = <<R(Moved(x, a, b)[1]), R(Moved(x, a, b)[2])>>
    BY <1>1 DEF Moved, R
  <2> QED
    BY <2>1, <1>6
<1> QED
  BY <1>2, <1>4, <1>13, <1>16, <1>17

(* So does a conjunct, and the fluents in it are the same.                   *)
LEMMA ConjunctMoves ==
  ASSUME Given, NEW a \in Os, NEW b \in Os, Symmetry!Interchangeable(a, b),
         NEW c \in Symmetry!ConjunctsWith(a)
  PROVE  /\ RenamedConjunct(c, Exchange(a, b)) \in Symmetry!ConjunctsWith(b)
         /\ Tally(NameOf(RenamedConjunct(c, Exchange(a, b)))) = Tally(NameOf(c))
         /\ RenamedConjunct(RenamedConjunct(c, Exchange(a, b)), Exchange(b, a)) = c
<1> DEFINE E == Exchange(a, b)
           d == RenamedConjunct(c, E)
           k(x) == <<x[1], Renamed(x[2], E)>>
<1>1. E \in [Os -> Os] /\ Exchange(b, a) = E /\ KeepsGoal(E)
  BY InterchangeableIs, ExchangeIs DEF Keeps
<1>2. c \in Symmetry!Goal /\ a \in Symmetry!ConjunctObjects(c)
  BY DEF Symmetry!ConjunctsWith
<1>3. IsConjunct(c) /\ RenamedConjunct(d, E) = c
  BY <1>2, GoalIs, ExchangeBack
<1>4. E[a] = b /\ \A t : IsTerm(t) => Renamed(Renamed(t, E), E) = t
  BY ExchangeAt, ExchangeBack
<1> HIDE DEF E
<1>5. d \in Symmetry!Goal /\ d.terms = {k(x) : x \in c.terms} /\ IsConjunct(d)
  BY <1>1, <1>2, <1>3, RenamedConjunctIs DEF KeepsGoal, RenamedConjunct, RenamedIn
<1>6. \A x \in c.terms : /\ x = <<x[1], x[2]>> /\ IsTerm(x[2]) /\ IsTerm(k(x)[2]) /\ k(x)[1] = x[1] /\ k(x)[2][1] = x[2][1]
                         /\ k(k(x)) = x
  <2> TAKE x \in c.terms
  <2>1. x = <<x[1], x[2]>> /\ IsTerm(x[2])
    BY <1>3 DEF IsConjunct
  <2>2. k(x)[1] = x[1] /\ k(x)[2] = Renamed(x[2], E)
    OBVIOUS
  <2>3. IsTerm(Renamed(x[2], E)) /\ Renamed(x[2], E)[1] = x[2][1]
    BY <1>1, <2>1, RenamedIs
  <2>4. k(k(x)) = <<x[1], Renamed(Renamed(x[2], E), E)>>
    OBVIOUS
  <2> QED
    BY <1>4, <2>1, <2>2, <2>3, <2>4
<1>7. d \in Symmetry!ConjunctsWith(b)
  <2>1. \A e, o : o \in Symmetry!ConjunctObjects(e) <=> \E x \in e.terms : \E i \in DOMAIN x[2][2] : x[2][2][i] = o
    BY DEF Symmetry!ConjunctObjects, Symmetry!ObjectsIn, Symmetry!ToSet
  <2>2. PICK x \in c.terms : \E i \in DOMAIN x[2][2] : x[2][2][i] = a
    BY <1>2, <2>1
  <2>3. PICK i \in DOMAIN x[2][2] : x[2][2][i] = a
    BY <2>2
  <2>4. i \in DOMAIN Renamed(x[2], E)[2] /\ Renamed(x[2], E)[2][i] = E[a]
    BY <1>1, <1>6, <2>3, RenamedIs
  <2>5. k(x) \in d.terms /\ k(x)[2] = Renamed(x[2], E)
    BY <1>5
  <2>6. b \in Symmetry!ConjunctObjects(d)
    BY <1>4, <2>1, <2>4, <2>5
  <2> QED
    BY <1>5, <2>6 DEF Symmetry!ConjunctsWith
<1>8. Tally(NameOf(c)) = Tally(NameOf(d))
  <2> DEFINE S == Named(c)
             T == Named(d)
             h == [x \in S |-> k(x)]
             g == [y \in T |-> k(y)]
  <2>0. IsFiniteSet(S)
    <3>1. PICK e \in problem.goal : c = Symmetry!Canonical(e)
      BY <1>2 DEF Symmetry!Goal
    <3>2. \E p, q : c.terms = {p, q}
      <4>1. CASE e.op = "equals"
        <5>1. c.terms = {<<0, e.terms[1]>>, <<0, e.terms[2]>>}
          BY <3>1, <4>1, ConjunctIs
        <5> QED
          BY <5>1
      <4>2. CASE e.op # "equals"
        <5>1. c.terms = {<<1, e.terms[1]>>, <<2, e.terms[2]>>}
          BY <3>1, <4>2, ConjunctIs
        <5> QED
          BY <5>1
      <4> QED
        BY <4>1, <4>2
    <3>3. PICK p, q : c.terms = {p, q}
      BY <3>2
    <3>4. IsFiniteSet({p} \cup {q})
      BY FS_Singleton, FS_Union
    <3>5. c.terms = {p} \cup {q} /\ S \subseteq c.terms
      BY <3>3 DEF Named
    <3> HIDE DEF S
    <3> QED
      BY <3>4, <3>5, FS_Subset
  <2>1. \A x \in S : k(x) \in T /\ k(k(x)) = x /\ k(x)[2][1] = x[2][1]
    BY <1>5, <1>6 DEF Named
  <2>2. \A y \in T : k(y) \in S /\ k(k(y)) = y
    <3> TAKE y \in T
    <3>1. PICK x \in c.terms : y = k(x)
      BY <1>5 DEF Named
    <3>2. k(y) = x /\ x[2][1] = y[2][1]
      BY <1>6, <3>1
    <3> QED
      BY <3>1, <3>2 DEF Named
  <2>3. DOMAIN NameOf(c) = S /\ DOMAIN NameOf(d) = T
        /\ (\A x \in S : NameOf(c)[x] = x[2][1]) /\ (\A y \in T : NameOf(d)[y] = y[2][1])
    BY DEF NameOf
  <2> HIDE DEF k, S, T
  <2>4. h \in [S -> T] /\ g \in [T -> S] /\ (\A x \in S : h[x] = k(x)) /\ (\A y \in T : g[y] = k(y))
    BY <2>1, <2>2
  <2> HIDE DEF h, g
  <2>5. \A x \in S : g[h[x]] = x
    BY <2>1, <2>4
  <2>6. \A y \in T : h[g[y]] = y
    BY <2>2, <2>4
  <2>7. \A x \in S : NameOf(d)[h[x]] = NameOf(c)[x]
    BY <2>1, <2>3, <2>4
  <2>8. h \in [S -> T] /\ g \in [T -> S] /\ DOMAIN NameOf(c) = S /\ DOMAIN NameOf(d) = T
    BY <2>3, <2>4
  <2> HIDE DEF d
  <2> QED
    <3>1. Corresponds(NameOf(c), NameOf(d), h, g)
      BY <2>5, <2>6, <2>7, <2>8 DEF Corresponds
    <3> QED
      BY <2>0, <2>8, <3>1, TallySame
<1> QED
  BY <1>1, <1>3, <1>7, <1>8 DEF E

(* Equivalent objects have equal signatures.                                 *)
LEMMA SignatureSame ==
  ASSUME Given, NEW a \in Os, NEW b \in Os, Symmetry!Interchangeable(a, b), NoDefault(a, b)
  PROVE  Symmetry!Signature(a) = Symmetry!Signature(b)
<1>0. Symmetry!Interchangeable(b, a) /\ NoDefault(b, a) /\ Exchange(a, b) = Exchange(b, a)
  BY InterchangeableBack, ExchangeIs DEF NoDefault, Untouched
<1>1. Tally(FeatureOf(a)) = Tally(FeatureOf(b))
  <2> DEFINE S == Symmetry!Involving(Symmetry!ExplicitOnes, a)
             T == Symmetry!Involving(Symmetry!ExplicitOnes, b)
             h == [x \in S |-> Moved(x, a, b)]
             g == [y \in T |-> Moved(y, b, a)]
  <2>1. IsFiniteSet(S)
    <3>1. IsFiniteSet(DOMAIN problem.explicit)
      BY GivenIs, SymmetrySetsAre DEF Symmetry!ProblemWellFormed
    <3> DEFINE f == [t \in DOMAIN problem.explicit |-> <<t, problem.explicit[t]>>]
    <3>2. IsFiniteSet({f[t] : t \in DOMAIN problem.explicit})
      BY <3>1, ImageFinite
    <3>3. S \subseteq {f[t] : t \in DOMAIN problem.explicit}
      BY DEF Symmetry!Involving, Symmetry!ExplicitOnes
    <3> HIDE DEF S, f
    <3> QED
      BY <3>2, <3>3, FS_Subset
  <2>2. \A x \in S : /\ Moved(x, a, b) \in T /\ Moved(Moved(x, a, b), b, a) = x
                     /\ Symmetry!Feature(Moved(x, a, b), b) = Symmetry!Feature(x, a)
    BY AssignmentMoves
  <2>3. \A y \in T : Moved(y, b, a) \in S /\ Moved(Moved(y, b, a), a, b) = y
    BY <1>0, AssignmentMoves
  <2>4. /\ DOMAIN FeatureOf(a) = S /\ \A x \in S : FeatureOf(a)[x] = Symmetry!Feature(x, a)
        /\ DOMAIN FeatureOf(b) = T /\ \A y \in T : FeatureOf(b)[y] = Symmetry!Feature(y, b)
    BY DEF FeatureOf
  <2> HIDE DEF S, T
  <2>5. h \in [S -> T] /\ g \in [T -> S] /\ (\A x \in S : h[x] = Moved(x, a, b)) /\ (\A y \in T : g[y] = Moved(y, b, a))
    BY <2>2, <2>3
  <2> HIDE DEF h, g
  <2>6. \A x \in S : g[h[x]] = x
    BY <2>2, <2>5
  <2>7. \A y \in T : h[g[y]] = y
    BY <2>3, <2>5
  <2>8. \A x \in S : FeatureOf(b)[h[x]] = FeatureOf(a)[x]
    BY <2>2, <2>4, <2>5
  <2>9. h \in [S -> T] /\ g \in [T -> S] /\ DOMAIN FeatureOf(a) = S /\ DOMAIN FeatureOf(b) = T
    BY <2>4, <2>5
  <2> QED
    <3>1. Corresponds(FeatureOf(a), FeatureOf(b), h, g)
      BY <2>6, <2>7, <2>8, <2>9 DEF Corresponds
    <3> QED
      BY <2>1, <2>9, <3>1, TallySame
<1>2. Tally(NamesOf(a)) = Tally(NamesOf(b))
  <2> DEFINE S == Symmetry!ConjunctsWith(a)
             T == Symmetry!ConjunctsWith(b)
             R(c) == RenamedConjunct(c, Exchange(a, b))
             h == [x \in S |-> R(x)]
             g == [y \in T |-> R(y)]
  <2>1. IsFiniteSet(S)
    <3>1. IsFiniteSet(problem.goal)
      BY GivenIs, SymmetrySetsAre DEF Symmetry!ProblemWellFormed
    <3> DEFINE f == [c \in problem.goal |-> Symmetry!Canonical(c)]
    <3>2. IsFiniteSet({f[c] : c \in problem.goal})
      BY <3>1, ImageFinite
    <3>3. S \subseteq {f[c] : c \in problem.goal}
      BY DEF Symmetry!ConjunctsWith, Symmetry!Goal
    <3> HIDE DEF S, f
    <3> QED
      BY <3>2, <3>3, FS_Subset
  <2>2. \A x \in S : R(x) \in T /\ R(R(x)) = x /\ Tally(NameOf(R(x))) = Tally(NameOf(x))
    BY <1>0, ConjunctMoves
  <2>3. \A y \in T : R(y) \in S /\ R(R(y)) = y
    BY <1>0, ConjunctMoves
  <2>4. /\ DOMAIN NamesOf(a) = S /\ \A x \in S : NamesOf(a)[x] = Tally(NameOf(x))
        /\ DOMAIN NamesOf(b) = T /\ \A y \in T : NamesOf(b)[y] = Tally(NameOf(y))
    BY DEF NamesOf
  <2> HIDE DEF S, T, R
  <2>5. h \in [S -> T] /\ g \in [T -> S] /\ (\A x \in S : h[x] = R(x)) /\ (\A y \in T : g[y] = R(y))
    BY <2>2, <2>3
  <2> HIDE DEF h, g
  <2>6. \A x \in S : g[h[x]] = x
    BY <2>2, <2>5
  <2>7. \A y \in T : h[g[y]] = y
    BY <2>3, <2>5
  <2>8. \A x \in S : NamesOf(b)[h[x]] = NamesOf(a)[x]
    BY <2>2, <2>4, <2>5
  <2>9. h \in [S -> T] /\ g \in [T -> S] /\ DOMAIN NamesOf(a) = S /\ DOMAIN NamesOf(b) = T
    BY <2>4, <2>5
  <2> QED
    <3>1. Corresponds(NamesOf(a), NamesOf(b), h, g)
      BY <2>6, <2>7, <2>8, <2>9 DEF Corresponds
    <3> QED
      BY <2>1, <2>9, <3>1, TallySame
<1> QED
  BY <1>1, <1>2, SignatureIs

(* So the classes an object is compared with are enough.                     *)
LEMMA CandidateIs ==
  ASSUME Given, NEW g, g[1] \in Os, NEW o \in Os
  PROVE  (Symmetry!Candidate(g, o) /\ Symmetry!AreEquivalent(g[1], o))
           <=> g[1] \notin Symmetry!Excluded(problem) /\ Symmetry!Interchangeable(g[1], o)
<1>1. Symmetry!Candidate(g, o) => TypeOf(g[1]) = TypeOf(o) /\ g[1] \notin Symmetry!Excluded(problem)
  BY DEF Symmetry!Candidate, TypeOf
<1>2. Symmetry!Interchangeable(g[1], o) => TypeOf(g[1]) = TypeOf(o)
  BY InterchangeableIs
<1>3. TypeOf(g[1]) = TypeOf(o) => (Symmetry!AreEquivalent(g[1], o) <=> Symmetry!Interchangeable(g[1], o))
  BY EquivalentIs
<1>4. ASSUME Symmetry!Interchangeable(g[1], o), Symmetry!Bucketed(o)
      PROVE  Symmetry!Signature(g[1]) = Symmetry!Signature(o)
  <2>1. \A c \in Os : TypeOf(c) = TypeOf(o) => c \notin Symmetry!DefaultObjects
    BY <1>4 DEF Symmetry!Bucketed, Os, TypeOf
  <2>2. g[1] \notin Symmetry!DefaultObjects /\ o \notin Symmetry!DefaultObjects
    BY <1>2, <1>4, <2>1
  <2>3. NoDefault(g[1], o)
    BY <2>2, ExplicitIs DEF NoDefault, Untouched, Symmetry!ObjectsIn, Symmetry!ToSet
  <2> QED
    BY <1>4, <2>3, SignatureSame
<1> QED
  BY <1>1, <1>2, <1>3, <1>4 DEF Symmetry!Candidate, TypeOf

-----------------------------------------------------------------------------
(* The members of a class of a list of classes.                              *)
Members(g) == Symmetry!ToSet(g)
Excluded == Symmetry!Excluded(problem)
Alike(a, b) == Symmetry!Interchangeable(a, b)

(* The first k objects sorted into classes.                                  *)
SortedInto(gs, k) ==
  /\ gs \in Seq(Seq(Os)) /\ k \in 0 .. Len(problem.objects)
  /\ \A n \in DOMAIN gs : gs[n] # <<>>
  /\ \A o : (\E n \in DOMAIN gs : o \in Members(gs[n])) <=> \E i \in 1 .. k : o = problem.objects[i]
  /\ \A m, n \in DOMAIN gs : m # n => Members(gs[m]) \cap Members(gs[n]) = {}
  /\ \A n \in DOMAIN gs : \A a, b \in Members(gs[n]) :
       a # b => a \notin Excluded /\ b \notin Excluded /\ Alike(a, b)
  /\ \A m, n \in DOMAIN gs : \A a \in Members(gs[m]), b \in Members(gs[n]) :
       m # n /\ a \notin Excluded /\ b \notin Excluded => ~Alike(a, b)

(* Members of a class, of one that grows and of one with one member.         *)
LEMMA MembersAre ==
  ASSUME NEW g \in Seq(Os)
  PROVE  /\ Members(g) \subseteq Os
         /\ g # <<>> => g[1] \in Members(g) /\ g[1] \in Os
         /\ \A o : Members(Append(g, o)) = Members(g) \cup {o} /\ Append(g, o) # <<>>
         /\ \A o : Members(<<o>>) = {o}
<1>0. \A s : Members(s) = {s[i] : i \in DOMAIN s}
  BY DEF Members, Symmetry!ToSet
<1>1. Members(g) \subseteq Os
  BY <1>0
<1>2. g # <<>> => g[1] \in Members(g) /\ g[1] \in Os
  BY <1>0
<1>3. ASSUME NEW o
      PROVE  Members(Append(g, o)) = Members(g) \cup {o} /\ Append(g, o) # <<>>
  <2>1. DOMAIN Append(g, o) = 1 .. Len(g) + 1 /\ DOMAIN g = 1 .. Len(g) /\ Len(g) \in Nat
    OBVIOUS
  <2>2. Append(g, o)[Len(g) + 1] = o /\ \A i \in DOMAIN g : Append(g, o)[i] = g[i]
    OBVIOUS
  <2> DEFINE h == Append(g, o)
  <2>4. Members(h) = {h[i] : i \in DOMAIN h} /\ Members(g) = {g[i] : i \in DOMAIN g}
    BY <1>0
  <2> HIDE DEF h
  <2>5. \A i : i \in DOMAIN h <=> i \in DOMAIN g \/ i = Len(g) + 1
    BY <2>1 DEF h
  <2>6. h[Len(g) + 1] = o /\ \A i \in DOMAIN g : h[i] = g[i]
    BY <2>2 DEF h
  <2>3. h # <<>>
    <3>1. DOMAIN h # {}
      BY <2>5
    <3>2. \A x : x = <<>> => DOMAIN x = {}
      OBVIOUS
    <3> QED
      BY <3>1, <3>2
  <2>7. Members(h) = Members(g) \cup {o}
    BY <2>4, <2>5, <2>6
  <2> QED
    BY <2>3, <2>7 DEF h
<1>4. ASSUME NEW o
      PROVE  Members(<<o>>) = {o}
  BY <1>0
<1> QED
  BY <1>1, <1>2, <1>3, <1>4

(* The next object starts a class, or joins one.                             *)
LEMMA StartsClass ==
  ASSUME Given, NEW gs, NEW k, SortedInto(gs, k), k < Len(problem.objects),
         NEW o, o = problem.objects[k + 1],
         \A n \in DOMAIN gs : \A a \in Members(gs[n]) : a \notin Excluded /\ o \notin Excluded => ~Alike(a, o)
  PROVE  SortedInto(Append(gs, <<o>>), k + 1)
<1> DEFINE hs == Append(gs, <<o>>)
           L == Len(gs)
<1>1. o \in Os /\ k + 1 \in DOMAIN problem.objects /\ k + 1 \in 0 .. Len(problem.objects) /\ k \in Nat
      /\ \A i \in 1 .. k : o # problem.objects[i]
  BY NextIsNew DEF SortedInto
<1>2. gs \in Seq(Seq(Os)) /\ L \in Nat /\ DOMAIN gs = 1 .. L
  BY DEF SortedInto
<1>3. hs \in Seq(Seq(Os)) /\ DOMAIN hs = 1 .. L + 1 /\ hs[L + 1] = <<o>> /\ \A n \in DOMAIN gs : hs[n] = gs[n]
  BY <1>1, <1>2
<1> HIDE DEF hs
<1>0. /\ \A n \in DOMAIN gs : gs[n] # <<>>
      /\ \A x : (\E n \in DOMAIN gs : x \in Members(gs[n])) <=> \E i \in 1 .. k : x = problem.objects[i]
      /\ \A m, n \in DOMAIN gs : m # n => Members(gs[m]) \cap Members(gs[n]) = {}
  BY DEF SortedInto
<1>4. Members(hs[L + 1]) = {o} /\ \A n \in DOMAIN gs : Members(hs[n]) = Members(gs[n]) /\ o \notin Members(gs[n])
  <2>1. Members(<<o>>) = {o}
    <3>1. <<>> \in Seq(Os)
      OBVIOUS
    <3> QED
      BY <3>1, MembersAre
  <2>2. \A n \in DOMAIN gs : o \notin Members(gs[n])
    BY <1>0, <1>1
  <2> QED
    BY <1>3, <2>1, <2>2
<1>5. \A n \in DOMAIN hs : n \in DOMAIN gs \/ n = L + 1
  BY <1>2, <1>3
<1>6. L + 1 \in DOMAIN hs /\ \A n \in DOMAIN gs : n \in DOMAIN hs
  BY <1>2, <1>3
<1>7. \A n \in DOMAIN hs : hs[n] # <<>>
  <2>1. <<o>> # <<>>
    OBVIOUS
  <2> QED
    BY <1>0, <1>3, <1>5, <2>1
<1>8. ASSUME NEW x
      PROVE  (\E n \in DOMAIN hs : x \in Members(hs[n])) <=> \E i \in 1 .. k + 1 : x = problem.objects[i]
  <2>1. (\E n \in DOMAIN hs : x \in Members(hs[n])) <=> x = o \/ \E n \in DOMAIN gs : x \in Members(gs[n])
    BY <1>4, <1>5, <1>6
  <2>2. (\E i \in 1 .. k + 1 : x = problem.objects[i]) <=> x = o \/ \E i \in 1 .. k : x = problem.objects[i]
    <3>1. \A i : i \in 1 .. k + 1 <=> i = k + 1 \/ i \in 1 .. k
      BY <1>1
    <3> QED
      BY <3>1
  <2> QED
    BY <2>1, <2>2 DEF SortedInto
<1>9. \A m, n \in DOMAIN hs : m # n => Members(hs[m]) \cap Members(hs[n]) = {}
  BY <1>0, <1>4, <1>5
<1>10. \A n \in DOMAIN hs : \A a, b \in Members(hs[n]) :
         a # b => a \notin Excluded /\ b \notin Excluded /\ Alike(a, b)
  BY <1>4, <1>5 DEF SortedInto
<1>11. \A n \in DOMAIN gs : \A a \in Members(gs[n]) : a \notin Excluded /\ o \notin Excluded => ~Alike(a, o) /\ ~Alike(o, a)
  <2> TAKE n \in DOMAIN gs
  <2> TAKE a \in Members(gs[n])
  <2>1. a \in Os
    BY <1>2, MembersAre
  <2> QED
    BY <1>1, <2>1, InterchangeableBack DEF Alike
<1>12. \A m, n \in DOMAIN hs : \A a \in Members(hs[m]), b \in Members(hs[n]) :
         m # n /\ a \notin Excluded /\ b \notin Excluded => ~Alike(a, b)
  <2> TAKE m \in DOMAIN hs, n \in DOMAIN hs
  <2> TAKE a \in Members(hs[m]), b \in Members(hs[n])
  <2>1. CASE m \in DOMAIN gs /\ n \in DOMAIN gs
    BY <1>4, <2>1 DEF SortedInto
  <2>2. CASE m = L + 1 /\ n \in DOMAIN gs
    BY <1>4, <1>11, <2>2
  <2>3. CASE m \in DOMAIN gs /\ n = L + 1
    BY <1>4, <1>11, <2>3
  <2>4. CASE m = L + 1 /\ n = L + 1
    BY <2>4
  <2> QED
    BY <1>5, <2>1, <2>2, <2>3, <2>4
<1>13. SortedInto(hs, k + 1)
  BY <1>1, <1>3, <1>7, <1>8, <1>9, <1>10, <1>12 DEF SortedInto
<1> QED
  BY <1>13 DEF hs

(* It joins the class of an object it can be exchanged with.                 *)
LEMMA JoinsClass ==
  ASSUME Given, NEW gs, NEW k, SortedInto(gs, k), k < Len(problem.objects),
         NEW o, o = problem.objects[k + 1], o \notin Excluded,
         NEW q \in DOMAIN gs, gs[q][1] \notin Excluded, Alike(gs[q][1], o)
  PROVE  SortedInto([gs EXCEPT ![q] = Append(@, o)], k + 1)
<1> DEFINE hs == [gs EXCEPT ![q] = Append(@, o)]
           r == gs[q][1]
           M(n) == Members(gs[n])
<1>1. o \in Os /\ k + 1 \in DOMAIN problem.objects /\ k + 1 \in 0 .. Len(problem.objects) /\ k \in Nat
      /\ \A i \in 1 .. k : o # problem.objects[i]
  BY NextIsNew DEF SortedInto
<1>0. \A x : (\E n \in DOMAIN gs : x \in Members(gs[n])) <=> \E i \in 1 .. k : x = problem.objects[i]
  BY DEF SortedInto
<1>2. gs \in Seq(Seq(Os)) /\ \A n \in DOMAIN gs : gs[n] \in Seq(Os) /\ gs[n] # <<>> /\ o \notin M(n) /\ M(n) \subseteq Os
  <2>1. \A n \in DOMAIN gs : o \notin M(n)
    BY <1>0, <1>1
  <2>2. gs \in Seq(Seq(Os)) /\ \A n \in DOMAIN gs : gs[n] \in Seq(Os) /\ gs[n] # <<>>
    BY DEF SortedInto
  <2> QED
    BY <2>1, <2>2, MembersAre
<1>3. r \in M(q) /\ r \in Os /\ Members(Append(gs[q], o)) = M(q) \cup {o} /\ Append(gs[q], o) # <<>>
      /\ Append(gs[q], o) \in Seq(Os)
  <2>1. gs[q] \in Seq(Os) /\ gs[q] # <<>>
    BY <1>2
  <2> QED
    BY <1>1, <2>1, MembersAre
<1>4. hs \in Seq(Seq(Os)) /\ DOMAIN hs = DOMAIN gs /\ hs[q] = Append(gs[q], o)
      /\ \A n \in DOMAIN gs : n # q => hs[n] = gs[n]
  BY <1>2, <1>3
<1>5. \A n \in DOMAIN gs : Members(hs[n]) = IF n = q THEN M(n) \cup {o} ELSE M(n)
  BY <1>3, <1>4
<1> HIDE DEF hs
<1>6. /\ \A m, n \in DOMAIN gs : m # n => M(m) \cap M(n) = {}
      /\ \A n \in DOMAIN gs : \A a, b \in M(n) : a # b => a \notin Excluded /\ b \notin Excluded /\ Alike(a, b)
      /\ \A m, n \in DOMAIN gs : \A a \in M(m), b \in M(n) :
           m # n /\ a \notin Excluded /\ b \notin Excluded => ~Alike(a, b)
  BY DEF SortedInto
<1>7. \A n \in DOMAIN hs : hs[n] # <<>>
  BY <1>2, <1>3, <1>4
<1>8. ASSUME NEW x
      PROVE  (\E n \in DOMAIN hs : x \in Members(hs[n])) <=> \E i \in 1 .. k + 1 : x = problem.objects[i]
  <2>1. (\E n \in DOMAIN hs : x \in Members(hs[n])) <=> x = o \/ \E n \in DOMAIN gs : x \in M(n)
    BY <1>4, <1>5
  <2>2. (\E i \in 1 .. k + 1 : x = problem.objects[i]) <=> x = o \/ \E i \in 1 .. k : x = problem.objects[i]
    <3>1. \A i : i \in 1 .. k + 1 <=> i = k + 1 \/ i \in 1 .. k
      BY <1>1
    <3> QED
      BY <3>1
  <2> QED
    BY <2>1, <2>2 DEF SortedInto
<1> HIDE DEF M, r
<1>9. \A m, n \in DOMAIN hs : m # n => Members(hs[m]) \cap Members(hs[n]) = {}
  <2> TAKE m, n \in DOMAIN hs
  <2> SUFFICES ASSUME m # n, NEW x, x \in Members(hs[m]), x \in Members(hs[n]) PROVE FALSE
    OBVIOUS
  <2>1. (m = q /\ x = o) \/ x \in M(m)
    BY <1>4, <1>5
  <2>2. (n = q /\ x = o) \/ x \in M(n)
    BY <1>4, <1>5
  <2> QED
    BY <1>2, <1>4, <1>6, <2>1, <2>2
(* Whoever the first one can be exchanged with, the object can be too.       *)
<1>10. \A n \in DOMAIN gs : \A a \in M(n) : a # o
  BY <1>2
<1>11. \A a \in M(q) : a \notin Excluded /\ Alike(a, o) /\ Alike(o, a)
  <2> TAKE a \in M(q)
  <2>1. a \in Os /\ a # o
    BY <1>2, <1>10
  <2>2. CASE a = r
    BY <1>1, <1>3, <2>2, InterchangeableBack DEF Alike, r
  <2>3. CASE a # r
    <3>1. a \notin Excluded /\ Alike(a, r)
      BY <1>3, <1>6, <2>3
    <3>2. Alike(r, o)
      BY DEF r
    <3>3. Alike(a, o)
      BY <1>1, <1>3, <2>1, <3>1, <3>2, InterchangeableOn DEF Alike
    <3> QED
      BY <1>1, <2>1, <3>1, <3>3, InterchangeableBack DEF Alike
  <2> QED
    BY <2>2, <2>3
<1>12. \A n \in DOMAIN hs : \A a, b \in Members(hs[n]) :
         a # b => a \notin Excluded /\ b \notin Excluded /\ Alike(a, b)
  <2> TAKE n \in DOMAIN hs
  <2> TAKE a \in Members(hs[n]), b \in Members(hs[n])
  <2>1. CASE n # q
    BY <1>4, <1>5, <1>6, <2>1
  <2>2. CASE n = q
    <3>1. a \in M(q) \cup {o} /\ b \in M(q) \cup {o}
      BY <1>5, <2>2
    <3> QED
      BY <1>6, <1>11, <3>1
  <2> QED
    BY <2>1, <2>2
<1>13. \A n \in DOMAIN gs : \A a \in M(n) : n # q /\ a \notin Excluded => ~Alike(a, o) /\ ~Alike(o, a)
  <2> TAKE n \in DOMAIN gs
  <2> TAKE a \in M(n)
  <2> SUFFICES ASSUME n # q, a \notin Excluded PROVE ~Alike(a, o) /\ ~Alike(o, a)
    OBVIOUS
  <2>1. a \in Os /\ a # o /\ r \notin Excluded /\ ~Alike(a, r) /\ a # r
    BY <1>2, <1>3, <1>6, <1>10 DEF r
  <2>2. Alike(o, r)
    BY <1>3, <1>11
  <2>3. ~Alike(a, o)
    BY <1>1, <1>3, <2>1, <2>2, InterchangeableOn DEF Alike
  <2>4. Alike(o, a) => Alike(a, o)
    BY <1>1, <2>1, InterchangeableBack DEF Alike
  <2> QED
    BY <2>3, <2>4
<1>14. \A m, n \in DOMAIN hs : \A a \in Members(hs[m]), b \in Members(hs[n]) :
         m # n /\ a \notin Excluded /\ b \notin Excluded => ~Alike(a, b)
  <2> TAKE m \in DOMAIN hs, n \in DOMAIN hs
  <2> TAKE a \in Members(hs[m]), b \in Members(hs[n])
  <2>1. CASE a # o /\ b # o
    <3>1. a \in M(m) /\ b \in M(n)
      BY <1>4, <1>5, <2>1
    <3> QED
      BY <1>4, <1>6, <3>1
  <2>2. CASE a = o /\ m # n
    <3>1. m = q /\ b \in M(n) /\ n # q
      BY <1>4, <1>5, <1>10, <2>2
    <3> QED
      BY <1>4, <1>13, <2>2, <3>1
  <2>3. CASE b = o /\ m # n
    <3>1. n = q /\ a \in M(m) /\ m # q
      BY <1>4, <1>5, <1>10, <2>3
    <3> QED
      BY <1>4, <1>13, <2>3, <3>1
  <2> QED
    BY <2>1, <2>2, <2>3
<1>15. SortedInto(hs, k + 1)
  BY <1>1, <1>4, <1>7, <1>8, <1>9, <1>12, <1>14 DEF SortedInto
<1> QED
  BY <1>15 DEF hs

(* The classes an object could join.                                         *)
LEMMA FirstMatchIs ==
  ASSUME Given, NEW o \in Os, groups \in Seq(Seq(Os)), \A n \in DOMAIN groups : groups[n] # <<>>
  PROVE  \A n : n \in Symmetry!FirstMatch(o) <=> /\ n \in DOMAIN groups
                                                 /\ groups[n][1] \notin Excluded /\ Alike(groups[n][1], o)
<1>1. \A n \in DOMAIN groups : groups[n][1] \in Os
  <2> TAKE n \in DOMAIN groups
  <2>1. groups[n] \in Seq(Os) /\ groups[n] # <<>>
    OBVIOUS
  <2> QED
    BY <2>1, MembersAre
<1>2. \A n \in DOMAIN groups : (Symmetry!Candidate(groups[n], o) /\ Symmetry!AreEquivalent(groups[n][1], o))
                                 <=> groups[n][1] \notin Excluded /\ Alike(groups[n][1], o)
  BY <1>1, CandidateIs DEF Excluded, Alike
<1> QED
  BY <1>2 DEF Symmetry!FirstMatch

(* Sorting in one more object.                                               *)
LEMMA SortInKeeps ==
  ASSUME Given, SortedInto(groups, index), Symmetry!SortIn
  PROVE  SortedInto(groups', index')
<1> DEFINE o == problem.objects[index + 1]
           S == Symmetry!FirstMatch(o)
           q == Symmetry!Min(S)
<1>1. index < Len(problem.objects) /\ index' = index + 1
      /\ groups' = IF o \in Excluded \/ S = {} THEN Append(groups, <<o>>)
                   ELSE [groups EXCEPT ![q] = Append(@, o)]
  BY DEF Symmetry!SortIn, Excluded
<1>2. o \in Os
  BY <1>1, NextIsNew DEF SortedInto
<1>3. groups \in Seq(Seq(Os)) /\ \A n \in DOMAIN groups : groups[n] # <<>>
  BY DEF SortedInto
<1> HIDE DEF q
<1>4. \A n : n \in S <=> n \in DOMAIN groups /\ groups[n][1] \notin Excluded /\ Alike(groups[n][1], o)
  BY <1>2, <1>3, FirstMatchIs
<1> HIDE DEF o, S
<1>5. CASE o \in Excluded \/ S = {}
  <2>1. ASSUME NEW n \in DOMAIN groups, NEW a \in Members(groups[n]), a \notin Excluded, o \notin Excluded, Alike(a, o)
        PROVE  FALSE
    <3> DEFINE r == groups[n][1]
    <3>1. S = {} /\ (r \notin Excluded => ~Alike(r, o))
      BY <1>4, <1>5, <2>1
    <3>2. groups[n] \in Seq(Os) /\ groups[n] # <<>>
      BY <1>3
    <3>3. r \in Members(groups[n]) /\ r \in Os /\ a \in Os
      BY <3>2, MembersAre
    <3> HIDE DEF r
    <3>4. CASE a = r
      BY <2>1, <3>1, <3>4
    <3>5. CASE a # r
      <4>1. r \notin Excluded /\ Alike(r, a)
        BY <3>3, <3>5 DEF SortedInto
      <4>2. r # o
        <5>1. \A i \in 1 .. index : o # problem.objects[i]
          BY <1>1, NextIsNew DEF SortedInto, o
        <5>2. \E i \in 1 .. index : r = problem.objects[i]
          BY <3>3 DEF SortedInto
        <5> QED
          BY <5>1, <5>2
      <4>3. Alike(r, o)
        BY <1>2, <2>1, <3>3, <4>1, <4>2, InterchangeableOn DEF Alike
      <4> QED
        BY <3>1, <4>1, <4>3
    <3> QED
      BY <3>4, <3>5
  <2> QED
    BY <1>1, <1>5, <2>1, StartsClass DEF o
<1>6. CASE ~(o \in Excluded \/ S = {})
  <2>1. S \in SUBSET Nat /\ S # {}
    BY <1>3, <1>4, <1>6
  <2>2. \E m \in S : \A k \in S : m <= k
    BY <2>1, LeastNumber
  <2>3. q \in S
    BY <2>2 DEF q, Symmetry!Min
  <2>4. q \in DOMAIN groups /\ groups[q][1] \notin Excluded /\ Alike(groups[q][1], o) /\ o \notin Excluded
    BY <1>4, <1>6, <2>3
  <2>5. groups' = [groups EXCEPT ![q] = Append(@, o)]
    BY <1>1, <1>6
  <2>6. o = problem.objects[index + 1]
    BY DEF o
  <2>7. SortedInto([groups EXCEPT ![q] = Append(@, o)], index + 1)
    BY <1>1, <2>4, <2>6, JoinsClass
  <2> QED
    BY <1>1, <2>5, <2>7
<1> QED
  BY <1>5, <1>6

(* Classes when all objects are sorted.                                      *)
LEMMA ClassIs ==
  ASSUME Given, SortedInto(groups, index), Symmetry!Sorted
  PROVE  \A a \in Os : /\ Symmetry!Class(a) \subseteq Os /\ a \in Symmetry!Class(a)
                       /\ \A b \in Symmetry!Class(a) :
                            /\ Symmetry!Class(b) = Symmetry!Class(a)
                            /\ a # b => a \notin Excluded /\ b \notin Excluded /\ Alike(a, b)
                       /\ \A b \in Os : a \notin Excluded /\ b \notin Excluded /\ Alike(a, b) => b \in Symmetry!Class(a)
<1>0. /\ groups \in Seq(Seq(Os))
      /\ \A o : (\E n \in DOMAIN groups : o \in Members(groups[n])) <=> \E i \in 1 .. index : o = problem.objects[i]
      /\ \A m, n \in DOMAIN groups : m # n => Members(groups[m]) \cap Members(groups[n]) = {}
      /\ \A n \in DOMAIN groups : \A a, b \in Members(groups[n]) :
           a # b => a \notin Excluded /\ b \notin Excluded /\ Alike(a, b)
      /\ \A m, n \in DOMAIN groups : \A a \in Members(groups[m]), b \in Members(groups[n]) :
           m # n /\ a \notin Excluded /\ b \notin Excluded => ~Alike(a, b)
  BY DEF SortedInto
<1> DEFINE N(o) == CHOOSE n \in DOMAIN groups : o \in Members(groups[n])
<1>1. \A o \in Os : \E n \in DOMAIN groups : o \in Members(groups[n])
  <2> TAKE o \in Os
  <2>1. \E i \in 1 .. index : o = problem.objects[i]
    BY ListedOnce DEF Symmetry!Sorted
  <2> QED
    BY <1>0, <2>1
<1>2. \A o \in Os : N(o) \in DOMAIN groups /\ o \in Members(groups[N(o)])
  BY <1>1
<1>3. \A o \in Os : Symmetry!Class(o) = Members(groups[N(o)])
  BY DEF Symmetry!Class, Members
<1> HIDE DEF N
<1>4. \A n \in DOMAIN groups : Members(groups[n]) \subseteq Os
  <2> TAKE n \in DOMAIN groups
  <2>1. groups[n] \in Seq(Os)
    BY <1>0
  <2> QED
    BY <2>1, MembersAre
<1>5. \A a, b \in Os : b \in Members(groups[N(a)]) <=> N(a) = N(b)
  BY <1>0, <1>2
<1> TAKE a \in Os
<1>6. Symmetry!Class(a) \subseteq Os /\ a \in Symmetry!Class(a)
  BY <1>2, <1>3, <1>4
<1>7. ASSUME NEW b \in Symmetry!Class(a)
      PROVE  /\ Symmetry!Class(b) = Symmetry!Class(a)
             /\ a # b => a \notin Excluded /\ b \notin Excluded /\ Alike(a, b)
  <2>1. b \in Os /\ N(b) = N(a)
    BY <1>3, <1>5, <1>6, <1>7
  <2> QED
    BY <1>0, <1>2, <1>3, <2>1
<1>8. ASSUME NEW b \in Os, a \notin Excluded, b \notin Excluded, Alike(a, b)
      PROVE  b \in Symmetry!Class(a)
  BY <1>0, <1>2, <1>3, <1>5, <1>8
<1> QED
  BY <1>6, <1>7, <1>8

(* The classes are those of the relation.                                    *)
LEMMA ClassesExact ==
  ASSUME Given, SortedInto(groups, index)
  PROVE  Symmetry!ClassesAreExact
<1> SUFFICES ASSUME Symmetry!Sorted, NEW a \in Os, NEW b \in Os, a \notin Excluded, b \notin Excluded
             PROVE  b \in Symmetry!Class(a) <=> a = b \/ Alike(a, b)
  BY DEF Symmetry!ClassesAreExact, Os, Excluded, Alike
<1> QED
  BY ClassIs

-----------------------------------------------------------------------------
(* One state is another seen under other names.                              *)
Renames(names, w, m) == \A f \in Ground : m[Renamed(f, names)] = Renamed(w[f], names)
IsState(w) == DOMAIN w = Ground /\ \A f \in Ground : IsValue(w[f])
Among(names) == names \in Symmetry!Renamings(problem)

(* Names of the classes' own are among those under which actions are lifted. *)
LEMMA RenamingsAre ==
  ASSUME NEW names
  PROVE  Among(names) <=> /\ names \in [Os -> Os] /\ OneToOne(names)
                          /\ \A o \in Os : TypeOf(names[o]) = TypeOf(o) /\ (o \in Excluded => names[o] = o)
BY DEF Among, Symmetry!Renamings, Os, Symmetry!Objects, OneToOne, TypeOf, Symmetry!TypeOf, Excluded

(* Such names are one to one and keep the types.                             *)
LEMMA AmongNaming ==
  ASSUME NEW names, Among(names)
  PROVE  names \in [Os -> Os] /\ OneToOne(names) /\ Naming(names)
BY RenamingsAre DEF Naming

(* What an action does under other names is what the action of those names   *)
(* does.                                                                     *)
LEMMA AfterRenamed ==
  ASSUME NEW names, Among(names), NEW effects, NEW others, Symmetry!IsRenamed(names, effects, others),
         DOMAIN effects \subseteq Ground, NEW w, NEW m, DOMAIN w = Ground, DOMAIN m = Ground, Renames(names, w, m)
  PROVE  Renames(names, Symmetry!After(effects, w), Symmetry!After(others, m))
<1> DEFINE R(t) == Renamed(t, names)
           v == Symmetry!After(effects, w)
           n == Symmetry!After(others, m)
<1>1. \A f \in Ground : R(f) \in Ground /\ \A g \in Ground : R(f) = R(g) => f = g
  <2>1. \A f \in Ground : IsTerm(f) /\ R(f) \in Ground
    BY AmongNaming, GroundIs, RenamedGround
  <2> QED
    BY <2>1, AmongNaming, RenamedApart
<1>2. /\ \A g : g \in DOMAIN others <=> \E f \in DOMAIN effects : g = R(f)
      /\ \A f \in DOMAIN effects : others[R(f)] = R(effects[f])
  BY DEF Symmetry!IsRenamed, Renamed
<1>3. \A f \in Ground : /\ v[f] = IF f \in DOMAIN effects THEN effects[f] ELSE w[f]
                        /\ n[f] = IF f \in DOMAIN others THEN others[f] ELSE m[f]
  BY DEF Symmetry!After
<1>4. \A f \in Ground : m[R(f)] = R(w[f])
  BY DEF Renames
<1> HIDE DEF R, v, n
<1>5. ASSUME NEW f \in Ground
      PROVE  n[R(f)] = R(v[f])
  <2>1. CASE f \in DOMAIN effects
    BY <1>1, <1>2, <1>3, <2>1
  <2>2. CASE f \notin DOMAIN effects
    <3>1. R(f) \notin DOMAIN others
      BY <1>1, <1>2, <2>2
    <3> QED
      BY <1>1, <1>3, <1>4, <2>2, <3>1
  <2> QED
    BY <2>1, <2>2
<1> QED
  BY <1>5 DEF Renames, R, v, n

(* Effects lead from state to state.                                         *)
LEMMA AfterIsState ==
  ASSUME NEW effects, NEW w, IsState(w), Symmetry!Assigns(problem, effects)
  PROVE  IsState(Symmetry!After(effects, w)) /\ DOMAIN effects \subseteq Ground
BY DEF IsState, Symmetry!After, Symmetry!Assigns, IsValue, Ground, Symmetry!GroundFluents

(* Timed effects mention objects that are in no class with others.           *)
LEMMA TimedRenamed ==
  ASSUME Given, NEW names, Among(names)
  PROVE  Symmetry!IsRenamed(names, problem.timed, problem.timed)
<1>1. Symmetry!Assigns(problem, problem.timed) /\ problem.timedObjects \subseteq Os
      /\ \A f \in DOMAIN problem.timed :
           Symmetry!ObjectsIn(f) \cup Symmetry!ObjectsIn(problem.timed[f]) \subseteq problem.timedObjects
  BY GivenIs DEF Symmetry!ProblemWellFormed, Os, Symmetry!Objects
<1>2. \A o \in problem.timedObjects : names[o] = o
  BY <1>1, RenamingsAre DEF Excluded, Symmetry!Excluded
<1>3. \A t, o : o \in Symmetry!ObjectsIn(t) <=> \E i \in DOMAIN t[2] : t[2][i] = o
  BY DEF Symmetry!ObjectsIn, Symmetry!ToSet
<1>4. \A f \in DOMAIN problem.timed : IsTerm(f) /\ IsTerm(problem.timed[f])
  <2> TAKE f \in DOMAIN problem.timed
  <2>1. f \in Ground /\ IsValue(problem.timed[f])
    BY <1>1 DEF Symmetry!Assigns, IsValue, Ground, Symmetry!GroundFluents
  <2> QED
    BY <2>1, GroundIs, ValueTerm
<1>5. \A f \in DOMAIN problem.timed : /\ \A i \in DOMAIN f[2] : names[f[2][i]] = f[2][i]
                                      /\ \A i \in DOMAIN problem.timed[f][2] : names[problem.timed[f][2][i]] = problem.timed[f][2][i]
  BY <1>1, <1>2, <1>3
<1>6. \A f \in DOMAIN problem.timed : Renamed(f, names) = f /\ Renamed(problem.timed[f], names) = problem.timed[f]
  BY <1>4, <1>5, AmongNaming, RenamedAlone
<1> QED
  BY <1>6 DEF Symmetry!IsRenamed, Renamed

(* The terms of a canonical conjunct.                                        *)
Sides(op, t, u) == IF op = "equals" THEN {<<0, t>>, <<0, u>>} ELSE {<<1, t>>, <<2, u>>}

(* Renaming a conjunct renames its two sides.                                *)
LEMMA SidesRenamed ==
  ASSUME NEW op, NEW t, NEW u, NEW names
  PROVE  RenamedIn(Sides(op, t, u), names) = Sides(op, Renamed(t, names), Renamed(u, names))
<1>1. CASE op = "equals"
  BY <1>1 DEF Sides, RenamedIn
<1>2. CASE op # "equals"
  BY <1>2 DEF Sides, RenamedIn
<1> QED
  BY <1>1, <1>2

(* Canonical conjuncts that are equal have equal sides.                      *)
LEMMA SidesEqual ==
  ASSUME NEW op, NEW t, NEW u, NEW x, NEW y, Sides(op, t, u) = Sides(op, x, y)
  PROVE  IF op = "equals" THEN t \in {x, y} /\ u \in {x, y} ELSE t = x /\ u = y
<1>1. CASE op = "equals"
  <2> DEFINE S(v, z) == {<<0, v>>, <<0, z>>}
  <2>1. S(t, u) = S(x, y)
    BY <1>1 DEF Sides
  <2>2. <<0, t>> \in S(t, u) /\ <<0, u>> \in S(t, u)
    OBVIOUS
  <2>3. \A z \in S(x, y) : z = <<0, x>> \/ z = <<0, y>>
    OBVIOUS
  <2> HIDE DEF S
  <2> QED
    BY <1>1, <2>1, <2>2, <2>3
<1>2. CASE op # "equals"
  <2> DEFINE S(v, z) == {<<1, v>>, <<2, z>>}
  <2>1. S(t, u) = S(x, y)
    BY <1>2 DEF Sides
  <2>2. <<1, t>> \in S(t, u) /\ <<2, u>> \in S(t, u)
    OBVIOUS
  <2>3. \A z \in S(x, y) : z = <<1, x>> \/ z = <<2, y>>
    OBVIOUS
  <2> HIDE DEF S
  <2> QED
    BY <1>2, <2>1, <2>2, <2>3
<1> QED
  BY <1>1, <1>2

(* The goal is reached under other names when it is reached.                 *)
LEMMA MetRenamed ==
  ASSUME Given, NEW names, Among(names), KeepsGoal(names), NEW w, NEW m, Renames(names, w, m), Symmetry!Met(w)
  PROVE  Symmetry!Met(m)
<1> DEFINE R(t) == Renamed(t, names)
<1> SUFFICES ASSUME NEW c \in problem.goal
             PROVE  IF c.op = "equals" THEN m[c.terms[1]] = m[c.terms[2]] ELSE m[c.terms[1]] = c.terms[2]
  BY DEF Symmetry!Met
<1>1. PICK e \in Symmetry!Goal : Symmetry!Canonical(c) = RenamedConjunct(e, names)
  BY DEF KeepsGoal, Symmetry!Goal
<1>2. PICK d \in problem.goal : e = Symmetry!Canonical(d)
  BY DEF Symmetry!Goal
<1>3. /\ d.terms[1] \in Ground
      /\ IF d.op = "equals" THEN d.terms[2] \in Ground ELSE IsValue(d.terms[2])
      /\ IF d.op = "equals" THEN w[d.terms[1]] = w[d.terms[2]] ELSE w[d.terms[1]] = d.terms[2]
  BY GivenIs DEF Symmetry!ProblemWellFormed, Symmetry!IsConjunct, Ground, Symmetry!GroundFluents, IsValue, Symmetry!Met
<1>4. \A f \in Ground : m[R(f)] = R(w[f])
  BY DEF Renames
<1> DEFINE cs == Sides(c.op, c.terms[1], c.terms[2])
           ds == Sides(d.op, d.terms[1], d.terms[2])
           rs == Sides(d.op, R(d.terms[1]), R(d.terms[2]))
<1>5. Symmetry!Canonical(c) = [op |-> c.op, terms |-> cs] /\ Symmetry!Canonical(d) = [op |-> d.op, terms |-> ds]
  BY ConjunctIs DEF Sides
<1>6. RenamedIn(ds, names) = rs
  BY SidesRenamed
<1> HIDE DEF cs, ds
<1>7. [op |-> c.op, terms |-> cs] = [op |-> d.op, terms |-> RenamedIn(ds, names)]
  <2>1. e.op = d.op /\ e.terms = ds
    BY <1>2, <1>5
  <2> QED
    BY <1>1, <1>5, <2>1 DEF RenamedConjunct
<1>8. c.op = d.op /\ cs = rs
  <2> DEFINE x == [op |-> c.op, terms |-> cs]
             y == [op |-> d.op, terms |-> RenamedIn(ds, names)]
  <2>1. x.op = c.op /\ x.terms = cs /\ y.op = d.op /\ y.terms = RenamedIn(ds, names)
    OBVIOUS
  <2> HIDE DEF x, y, rs
  <2>2. x = y
    BY <1>7 DEF x, y
  <2> QED
    BY <1>6, <2>1, <2>2
<1>9. IF d.op = "equals" THEN c.terms[1] \in {R(d.terms[1]), R(d.terms[2])} /\ c.terms[2] \in {R(d.terms[1]), R(d.terms[2])}
      ELSE c.terms[1] = R(d.terms[1]) /\ c.terms[2] = R(d.terms[2])
  <2>1. Sides(d.op, c.terms[1], c.terms[2]) = Sides(d.op, R(d.terms[1]), R(d.terms[2]))
    BY <1>8 DEF cs
  <2> DEFINE x == R(d.terms[1])
             y == R(d.terms[2])
  <2>2. Sides(d.op, c.terms[1], c.terms[2]) = Sides(d.op, x, y)
    BY <2>1
  <2> HIDE DEF x, y
  <2>3. IF d.op = "equals" THEN c.terms[1] \in {x, y} /\ c.terms[2] \in {x, y}
        ELSE c.terms[1] = x /\ c.terms[2] = y
    BY <2>2, SidesEqual
  <2> QED
    BY <2>3 DEF x, y
<1> HIDE DEF R
<1> QED
  BY <1>3, <1>4, <1>8, <1>9

(* Names that are the classes' own.                                          *)
AllSorted == Given /\ SortedInto(groups, index) /\ Symmetry!Sorted
Whole(names) ==
  /\ names \in [Os -> Os] /\ OneToOne(names)
  /\ \A b \in Os : \E o \in Os : names[o] = b
  /\ \A o \in Os : names[o] \in Symmetry!Class(o)
  /\ KeepsGoal(names)

(* Actions are lifted for them.                                              *)
LEMMA WholeAmong ==
  ASSUME AllSorted, NEW names, Whole(names)
  PROVE  Among(names)
<1>1. ASSUME NEW o \in Os
      PROVE  TypeOf(names[o]) = TypeOf(o) /\ (o \in Excluded => names[o] = o)
  <2>1. names[o] \in Symmetry!Class(o) /\ names[o] \in Os
    BY DEF Whole
  <2>2. names[o] # o => o \notin Excluded /\ Alike(o, names[o])
    BY <2>1, ClassIs DEF AllSorted
  <2>3. Alike(o, names[o]) => TypeOf(o) = TypeOf(names[o])
    BY <2>1, InterchangeableIs DEF Alike, AllSorted
  <2> QED
    BY <2>2, <2>3
<1> QED
  BY <1>1, RenamingsAre DEF Whole

(* Exchanging two of one class is such a naming.                             *)
LEMMA ExchangeAmong ==
  ASSUME AllSorted, NEW a \in Os, NEW b \in Symmetry!Class(a), a # b
  PROVE  b \in Os /\ Among(Exchange(a, b)) /\ Keeps(Exchange(a, b))
<1>1. b \in Os /\ a \notin Excluded /\ b \notin Excluded /\ Alike(a, b)
  BY ClassIs DEF AllSorted
<1>2. TypeOf(a) = TypeOf(b) /\ Keeps(Exchange(a, b))
  BY <1>1, InterchangeableIs DEF Alike, AllSorted
<1> DEFINE E == Exchange(a, b)
<1>3. E \in [Os -> Os] /\ OneToOne(E) /\ Naming(E)
  BY <1>1, <1>2, ExchangeIs
<1>4. \A o \in Os : o \in Excluded => E[o] = o
  BY <1>1, ExchangeAt
<1> HIDE DEF E
<1>5. Among(E)
  BY <1>3, <1>4, RenamingsAre DEF Naming
<1> QED
  BY <1>1, <1>2, <1>5 DEF E

(* The state does not tell apart objects of a class that have no name yet.   *)
Settled(names, w) ==
  \A a, b \in Os : a \notin DOMAIN names /\ b \notin DOMAIN names /\ a # b /\ b \in Symmetry!Class(a)
                     => Renames(Exchange(a, b), w, w)
Serves(whole, names, w, m) ==
  Whole(whole) /\ (\A o \in DOMAIN names : whole[o] = names[o]) /\ Renames(whole, w, m)

(* So they can be exchanged before they are renamed.                         *)
LEMMA ExchangeServes ==
  ASSUME AllSorted, NEW names, DOMAIN names \subseteq Os, NEW w, NEW m, IsState(w), Settled(names, w),
         NEW whole, Serves(whole, names, w, m),
         NEW a \in Os, NEW b \in Symmetry!Class(a), a # b, a \notin DOMAIN names, b \notin DOMAIN names
  PROVE  Serves(Composed(Exchange(a, b), whole), names, w, m)
<1> DEFINE E == Exchange(a, b)
           C == Composed(E, whole)
<1>1. b \in Os /\ Among(E) /\ KeepsGoal(E) /\ Renames(E, w, w)
  BY ExchangeAmong DEF Keeps, Settled
<1>2. E \in [Os -> Os] /\ OneToOne(E) /\ Naming(E)
  BY <1>1, AmongNaming
<1>3. \A o \in Os : E[o] = IF o = a THEN b ELSE IF o = b THEN a ELSE o
  BY <1>1, ExchangeAt
<1> HIDE DEF E
<1>4. Whole(whole) /\ whole \in [Os -> Os] /\ Among(whole) /\ Renames(whole, w, m) /\ KeepsGoal(whole)
  BY WholeAmong DEF Serves, Whole
<1>5. C \in [Os -> Os] /\ \A o \in Os : C[o] = whole[E[o]]
  BY <1>2, <1>4 DEF Composed
<1>6. KeepsGoal(C)
  BY <1>1, <1>2, <1>4, GoalComposed DEF AllSorted
<1>7. Renames(C, w, m)
  <2> SUFFICES ASSUME NEW f \in Ground PROVE m[Renamed(f, C)] = Renamed(w[f], C)
    BY DEF Renames
  <2>1. IsTerm(f) /\ IsTerm(w[f]) /\ Renamed(f, E) \in Ground
    BY <1>2, GroundIs, ValueTerm, RenamedGround DEF IsState
  <2>2. Renamed(f, C) = Renamed(Renamed(f, E), whole) /\ Renamed(w[f], C) = Renamed(Renamed(w[f], E), whole)
    BY <1>2, <1>4, <2>1, RenamedTwice
  <2>3. m[Renamed(Renamed(f, E), whole)] = Renamed(w[Renamed(f, E)], whole) /\ w[Renamed(f, E)] = Renamed(w[f], E)
    BY <1>1, <1>4, <2>1 DEF Renames
  <2> QED
    BY <2>2, <2>3
<1> HIDE DEF C
<1>8. OneToOne(C) /\ \A c \in Os : \E o \in Os : C[o] = c
  <2>1. OneToOne(C)
    BY <1>2, <1>4, <1>5 DEF OneToOne, Whole
  <2>2. ASSUME NEW c \in Os
        PROVE  \E o \in Os : C[o] = c
    <3>1. PICK o \in Os : whole[o] = c
      BY <1>4 DEF Whole
    <3>2. E[o] \in Os /\ E[E[o]] = o
      BY <1>1, <1>3
    <3> QED
      BY <1>5, <3>1, <3>2
  <2> QED
    BY <2>1, <2>2
<1>9. \A o \in Os : C[o] \in Symmetry!Class(o)
  <2> TAKE o \in Os
  <2>1. E[o] \in Symmetry!Class(o)
    BY <1>1, <1>3, ClassIs DEF AllSorted
  <2>2. whole[E[o]] \in Symmetry!Class(E[o]) /\ E[o] \in Os
    BY <1>2, <1>4 DEF Whole
  <2>3. Symmetry!Class(E[o]) = Symmetry!Class(o)
    BY <2>1, ClassIs DEF AllSorted
  <2> QED
    BY <1>5, <2>2, <2>3
<1>10. \A o \in DOMAIN names : C[o] = names[o]
  BY <1>3, <1>5 DEF Serves
<1>11. Serves(C, names, w, m)
  BY <1>5, <1>6, <1>7, <1>8, <1>9, <1>10 DEF Serves, Whole
<1> QED
  BY <1>11 DEF C, E

(* Names some objects have, of their own classes and different.              *)
Fits(names) ==
  /\ names \in [DOMAIN names -> Os] /\ DOMAIN names \subseteq Os
  /\ \A a, b \in DOMAIN names : names[a] = names[b] => a = b
  /\ \A o \in DOMAIN names : names[o] \in Symmetry!Class(o)
  /\ Symmetry!InOrder(names)

Extends(more, names, objects) ==
  Fits(more) /\ DOMAIN more = DOMAIN names \cup objects /\ \A o \in DOMAIN names : more[o] = names[o]

(* Names extended by the rule.                                               *)
LEMMA ExtendedFits ==
  ASSUME NEW names, Fits(names), NEW objects \in SUBSET Os, NEW more \in Symmetry!Extended(names, objects)
  PROVE  Extends(more, names, objects)
BY DEF Symmetry!Extended, Fits, Extends, Os

(* Objects and their renaming are finite.                                    *)
LEMMA ObjectsFinite ==
  ASSUME Given
  PROVE  IsFiniteSet(Os)
<1>1. problem.objects \in Seq(Os) /\ Os = {problem.objects[i] : i \in DOMAIN problem.objects}
  BY ListedOnce
<1> DEFINE s == problem.objects
<1>2. DOMAIN s = 1 .. Len(s) /\ Len(s) \in Nat
  BY <1>1
<1>3. IsFiniteSet(1 .. Len(s))
  BY <1>2, FS_Interval
<1> HIDE DEF s
<1>4. IsFiniteSet({s[i] : i \in DOMAIN s})
  BY <1>2, <1>3, ImageFinite
<1> QED
  BY <1>1, <1>4 DEF s

(* The names of a state can be completed to serve when more are chosen: if   *)
(* an object would get another name, the one that would get its name has     *)
(* none yet and is exchanged with it.                                        *)
LEMMA NamesExtend ==
  ASSUME AllSorted, NEW names, Fits(names), NEW more, Fits(more), DOMAIN names \subseteq DOMAIN more,
         \A o \in DOMAIN names : more[o] = names[o],
         NEW w, NEW m, IsState(w), Settled(names, w), \E whole : Serves(whole, names, w, m)
  PROVE  \E whole : Serves(whole, more, w, m)
<1> DEFINE Wrong(whole) == {o \in DOMAIN more : whole[o] # more[o]}
           Counts == {Cardinality(Wrong(whole)) : whole \in {p \in [Os -> Os] : Serves(p, names, w, m)}}
<1>1. \A whole : Serves(whole, names, w, m) => whole \in [Os -> Os] /\ Cardinality(Wrong(whole)) \in Counts
  BY DEF Serves, Whole
<1>2. IsFiniteSet(DOMAIN more) /\ \A whole : IsFiniteSet(Wrong(whole)) /\ Cardinality(Wrong(whole)) \in Nat
  <2>1. IsFiniteSet(DOMAIN more)
    BY ObjectsFinite, FS_Subset DEF Fits, AllSorted
  <2>2. ASSUME NEW whole
        PROVE  IsFiniteSet(Wrong(whole)) /\ Cardinality(Wrong(whole)) \in Nat
    <3>1. Wrong(whole) \subseteq DOMAIN more
      OBVIOUS
    <3> HIDE DEF Wrong
    <3> QED
      BY <2>1, <3>1, FS_Subset, FS_CardinalityType
  <2> QED
    BY <2>1, <2>2
<1>3. PICK least \in Counts : \A n \in Counts : least <= n
  <2>1. Counts # {} /\ Counts \in SUBSET Nat
    BY <1>1, <1>2
  <2> QED
    BY <2>1, LeastNumber
<1>4. PICK whole : Serves(whole, names, w, m) /\ Cardinality(Wrong(whole)) = least
  BY <1>3
<1>5. ASSUME Wrong(whole) # {}
      PROVE  FALSE
  <2>1. PICK a \in DOMAIN more : whole[a] # more[a]
    BY <1>5
  <2>2. a \in Os /\ more[a] \in Os /\ more[a] \in Symmetry!Class(a) /\ a \notin DOMAIN names
    BY <1>4, <2>1 DEF Fits, Serves
  <2>3. PICK b \in Os : whole[b] = more[a]
    BY <1>4, <2>2 DEF Serves, Whole
  <2>4. a # b /\ b \notin DOMAIN names
    BY <1>4, <2>1, <2>2, <2>3 DEF Serves, Fits
  <2>5. b \in Symmetry!Class(a)
    <3>1. more[a] \in Symmetry!Class(b)
      BY <1>4, <2>3 DEF Serves, Whole
    <3>2. Symmetry!Class(more[a]) = Symmetry!Class(b) /\ Symmetry!Class(more[a]) = Symmetry!Class(a)
      BY <2>2, <3>1, ClassIs DEF AllSorted
    <3> QED
      BY <3>2, ClassIs DEF AllSorted
  <2> DEFINE E == Exchange(a, b)
             other == Composed(E, whole)
  <2>6. Serves(other, names, w, m)
    BY <1>4, <2>2, <2>4, <2>5, ExchangeServes DEF Fits
  <2>7. \A o \in Os : other[o] = whole[IF o = a THEN b ELSE IF o = b THEN a ELSE o]
    <3>1. \A o \in Os : E[o] = IF o = a THEN b ELSE IF o = b THEN a ELSE o
      BY <2>2, ExchangeAt
    <3> HIDE DEF E
    <3> QED
      BY <3>1 DEF Composed
  <2> HIDE DEF other
  <2>8. Wrong(other) \subseteq Wrong(whole) /\ a \in Wrong(whole) /\ a \notin Wrong(other)
    <3>1. DOMAIN more \subseteq Os /\ \A o \in DOMAIN more : more[o] = more[a] => o = a
      BY <2>1 DEF Fits
    <3>2. other[a] = more[a]
      BY <2>2, <2>3, <2>7
    <3>3. ASSUME NEW o \in DOMAIN more, other[o] # more[o]
          PROVE  whole[o] # more[o]
      <4>1. CASE o = b
        BY <2>3, <2>4, <3>1, <4>1
      <4>2. CASE o # b
        BY <2>7, <3>1, <3>2, <3>3, <4>2
      <4> QED
        BY <4>1, <4>2
    <3> QED
      BY <2>1, <3>2, <3>3
  <2>9. Cardinality(Wrong(other)) < Cardinality(Wrong(whole))
    <3> HIDE DEF Wrong
    <3>1. IsFiniteSet(Wrong(whole)) /\ IsFiniteSet(Wrong(other))
          /\ Cardinality(Wrong(whole)) \in Nat /\ Cardinality(Wrong(other)) \in Nat
      BY <1>2
    <3>2. Cardinality(Wrong(other)) <= Cardinality(Wrong(whole))
          /\ (Cardinality(Wrong(other)) = Cardinality(Wrong(whole)) => Wrong(other) = Wrong(whole))
      BY <2>8, <3>1, FS_Subset
    <3> QED
      BY <2>8, <3>1, <3>2
  <2>10. Cardinality(Wrong(other)) \in Counts
    BY <1>1, <2>6
  <2> HIDE DEF Wrong, Counts
  <2> QED
    BY <1>2, <1>3, <1>4, <2>9, <2>10
<1>6. Serves(whole, more, w, m)
  BY <1>4, <1>5 DEF Serves
<1> QED
  BY <1>6

(* A plan carried out this far and the renamed plan beside it.               *)
Right(names, w, m, steps) ==
  /\ Fits(names) /\ IsState(w) /\ IsState(m) /\ Settled(names, w)
  /\ steps \subseteq DOMAIN problem.actions
  /\ \A o \in DOMAIN names : \E s \in steps : names[o] \in Symmetry!ToSet(s[2])
  /\ \E whole : Serves(whole, names, w, m)

(* Before a plan begins all objects can keep their names.                    *)
LEMMA FirstState ==
  ASSUME Given
  PROVE  IsState(Symmetry!Beginning) /\ \A f \in Ground : Symmetry!Beginning[f] = Symmetry!InitialValue(f)
BY InitialIs DEF Symmetry!Beginning, IsState, Ground

(* The beginning of a plan and of its renaming.                              *)
LEMMA StartsRight ==
  ASSUME AllSorted
  PROVE  Right(<<>>, Symmetry!Beginning, Symmetry!Beginning, {})
<1> DEFINE B == Symmetry!Beginning
           id == [o \in Os |-> o]
<1>1. IsState(B) /\ \A f \in Ground : B[f] = Symmetry!InitialValue(f)
  BY FirstState DEF AllSorted
<1>2. DOMAIN <<>> = {} /\ <<>> \in [DOMAIN <<>> -> Os]
  OBVIOUS
<1>3. Fits(<<>>)
  <2>1. Symmetry!InOrder(<<>>)
    BY <1>2 DEF Symmetry!InOrder, Symmetry!Taken
  <2> QED
    BY <1>2, <2>1 DEF Fits
<1>4. id \in [Os -> Os] /\ \A o \in Os : id[o] = o
  OBVIOUS
<1> HIDE DEF B, id
<1>5. Settled(<<>>, B)
  <2> SUFFICES ASSUME NEW a \in Os, NEW b \in Os, a # b, b \in Symmetry!Class(a), NEW f \in Ground
               PROVE  B[Renamed(f, Exchange(a, b))] = Renamed(B[f], Exchange(a, b))
    BY DEF Settled, Renames
  <2> DEFINE E == Exchange(a, b)
  <2>1. Naming(E) /\ KeepsStart(E)
    BY ExchangeAmong DEF Keeps
  <2> HIDE DEF E
  <2>2. Renamed(f, E) \in Ground
    BY <2>1, RenamedGround
  <2>3. B[Renamed(f, E)] = Renamed(B[f], E)
    BY <1>1, <2>1, <2>2 DEF KeepsStart
  <2> QED
    BY <2>3 DEF E
<1>6. Serves(id, <<>>, B, B)
  <2>1. Renames(id, B, B)
    <3> SUFFICES ASSUME NEW f \in Ground PROVE B[Renamed(f, id)] = Renamed(B[f], id)
      BY DEF Renames
    <3>1. IsTerm(f) /\ IsTerm(B[f])
      BY <1>1, GroundIs, ValueTerm DEF IsState
    <3>2. \A t : IsTerm(t) => Renamed(t, id) = t
      BY <1>4, RenamedAlone DEF IsTerm
    <3> QED
      BY <3>1, <3>2
  <2>2. KeepsGoal(id)
    <3>1. \A c \in Symmetry!Goal : RenamedConjunct(c, id) = c
      <4> TAKE c \in Symmetry!Goal
      <4>1. IsConjunct(c)
        BY GoalIs DEF AllSorted
      <4>2. \A x \in c.terms : \A i \in DOMAIN x[2][2] : id[x[2][2][i]] = x[2][2][i]
        BY <1>4, <4>1 DEF IsConjunct, IsTerm
      <4> QED
        BY <1>4, <4>1, <4>2, ConjunctAlone
    <3> QED
      BY <3>1 DEF KeepsGoal
  <2>3. \A o \in Os : id[o] \in Symmetry!Class(o)
    BY <1>4, ClassIs DEF AllSorted
  <2>4. OneToOne(id) /\ \A b \in Os : \E o \in Os : id[o] = b
    BY <1>4 DEF OneToOne
  <2> QED
    BY <1>2, <1>4, <2>1, <2>2, <2>3, <2>4 DEF Serves, Whole
<1> QED
  BY <1>1, <1>2, <1>3, <1>5, <1>6 DEF Right, B

(* The timed effects.                                                        *)
LEMMA HappenRight ==
  ASSUME AllSorted, NEW names, NEW w, NEW m, NEW steps, Right(names, w, m, steps)
  PROVE  Right(names, Symmetry!After(problem.timed, w), Symmetry!After(problem.timed, m), steps)
<1>1. Symmetry!Assigns(problem, problem.timed)
  BY GivenIs DEF Symmetry!ProblemWellFormed, AllSorted
<1>2. IsState(w) /\ IsState(m) /\ DOMAIN w = Ground /\ DOMAIN m = Ground
  BY DEF Right, IsState
<1>3. /\ IsState(Symmetry!After(problem.timed, w)) /\ IsState(Symmetry!After(problem.timed, m))
      /\ DOMAIN problem.timed \subseteq Ground
  BY <1>1, <1>2, AfterIsState
<1>4. ASSUME NEW other, Among(other), NEW x, NEW y, DOMAIN x = Ground, DOMAIN y = Ground, Renames(other, x, y)
      PROVE  Renames(other, Symmetry!After(problem.timed, x), Symmetry!After(problem.timed, y))
  BY <1>3, <1>4, TimedRenamed, AfterRenamed DEF AllSorted
<1>5. Settled(names, Symmetry!After(problem.timed, w))
  <2> SUFFICES ASSUME NEW a \in Os, NEW b \in Os, a \notin DOMAIN names, b \notin DOMAIN names, a # b,
                      b \in Symmetry!Class(a)
               PROVE  Renames(Exchange(a, b), Symmetry!After(problem.timed, w), Symmetry!After(problem.timed, w))
    BY DEF Settled
  <2> DEFINE E == Exchange(a, b)
  <2>1. Among(E) /\ Renames(E, w, w)
    BY ExchangeAmong DEF Right, Settled
  <2> HIDE DEF E
  <2>2. Renames(E, Symmetry!After(problem.timed, w), Symmetry!After(problem.timed, w))
    BY <1>2, <1>4, <2>1
  <2> QED
    BY <2>2 DEF E
<1>6. PICK whole : Serves(whole, names, w, m)
  BY DEF Right
<1>7. Serves(whole, names, Symmetry!After(problem.timed, w), Symmetry!After(problem.timed, m))
  BY <1>2, <1>4, <1>6, WholeAmong DEF Serves
<1> QED
  BY <1>3, <1>5, <1>7 DEF Right

(* An action and the one of other names.                                     *)
LEMMA ActionTerm ==
  ASSUME Given, NEW a \in DOMAIN problem.actions
  PROVE  /\ IsTerm(a) /\ Symmetry!ToSet(a[2]) \subseteq Os
         /\ \A o : o \in Symmetry!ToSet(a[2]) <=> \E i \in DOMAIN a[2] : a[2][i] = o
         /\ Symmetry!Assigns(problem, problem.actions[a].effects)
         /\ \A x \in problem.actions[a].pre : x[1] \in Ground
<1>1. /\ a = <<a[1], a[2]>> /\ a[2] \in Seq(Os) /\ Symmetry!Assigns(problem, problem.actions[a].effects)
      /\ \A x \in problem.actions[a].pre : x[1] \in Ground
  BY GivenIs DEF Symmetry!ProblemWellFormed, Symmetry!Term, Ground, Symmetry!GroundFluents, Os, Symmetry!Objects
<1>2. a[2] \in [DOMAIN a[2] -> Os]
  BY <1>1
<1> QED
  BY <1>1, <1>2 DEF IsTerm, Symmetry!ToSet

(* An action renamed is an action, with renamed conditions and effects.      *)
LEMMA LiftedIs ==
  ASSUME Given, NEW a \in DOMAIN problem.actions, NEW names, Among(names)
  PROVE  /\ Renamed(a, names) \in DOMAIN problem.actions
         /\ Symmetry!IsRenamed(names, problem.actions[a].effects, problem.actions[Renamed(a, names)].effects)
         /\ \A w, m : Renames(names, w, m) /\ Symmetry!Holds(problem.actions[a], w)
                        => Symmetry!Holds(problem.actions[Renamed(a, names)], m)
<1> DEFINE A == problem.actions
           b == Renamed(a, names)
<1>1. PICK c \in DOMAIN A :
        /\ c = Symmetry!Renamed(a, names)
        /\ A[c].pre = {<<Symmetry!Renamed(x[1], names), Symmetry!Renamed(x[2], names)>> : x \in A[a].pre}
        /\ Symmetry!IsRenamed(names, A[a].effects, A[c].effects)
  BY GivenIs DEF Symmetry!Lifted, Among
<1>2. c = b /\ A[b].pre = {<<Renamed(x[1], names), Renamed(x[2], names)>> : x \in A[a].pre}
  BY <1>1 DEF Renamed
<1>3. \A x \in A[a].pre : x[1] \in Ground
  BY ActionTerm
<1>4. ASSUME NEW w, NEW m, Renames(names, w, m), Symmetry!Holds(A[a], w)
      PROVE  Symmetry!Holds(A[b], m)
  BY <1>2, <1>3, <1>4 DEF Symmetry!Holds, Renames
<1> QED
  BY <1>1, <1>2, <1>4

(* The one before an object in its class.                                    *)
LEMMA PreviousIs ==
  ASSUME AllSorted, NEW o \in Os, Symmetry!Earlier(o) # {}
  PROVE  Symmetry!Previous(o) \in Symmetry!Earlier(o)
<1> DEFINE s == problem.byName
           R(b) == Symmetry!Rank(b)
           X == Symmetry!Earlier(o)
           left == {Len(s) - R(b) : b \in X}
<1>1. s \in Seq(Os) /\ Os = {s[i] : i \in DOMAIN s}
  BY NamedOnce DEF AllSorted
<1>2. \A b \in Os : R(b) \in 1 .. Len(s)
  BY <1>1 DEF Symmetry!Rank
<1>3. X \subseteq Os
  BY ClassIs DEF Symmetry!Earlier, AllSorted
<1>4. Len(s) \in Nat
  BY <1>1
<1> HIDE DEF R, X, s
<1>5. left \in SUBSET Nat /\ left # {}
  BY <1>2, <1>3, <1>4 DEF X
<1>6. PICK n \in left : \A k \in left : n <= k
  BY <1>5, LeastNumber
<1>7. PICK b \in X : n = Len(s) - R(b)
  BY <1>6
<1>8. \A c \in X : R(c) <= R(b)
  <2> TAKE c \in X
  <2>1. n <= Len(s) - R(c)
    BY <1>6
  <2> QED
    BY <1>2, <1>3, <1>4, <1>7, <2>1
<1> QED
  BY <1>7, <1>8 DEF Symmetry!Previous, X, R

(* What an object of the plan is renamed to was used, or is used now; so the *)
(* search lets the action open.                                              *)
LEMMA AllowsRenamed ==
  ASSUME AllSorted, NEW names, NEW w, NEW m, NEW steps, Right(names, w, m, steps),
         NEW a \in DOMAIN problem.actions, NEW more \in Symmetry!Extended(names, Symmetry!ToSet(a[2])),
         NEW b \in DOMAIN problem.actions, DOMAIN b[2] = DOMAIN a[2],
         \A i \in DOMAIN a[2] : b[2][i] = more[a[2][i]]
  PROVE  /\ Symmetry!SymmetryAllows(b, steps)
         /\ \A o \in DOMAIN more : \E s \in steps \cup {b} : more[o] \in Symmetry!ToSet(s[2])
<1>1. /\ Symmetry!ToSet(a[2]) \subseteq Os
      /\ \A o : o \in Symmetry!ToSet(a[2]) <=> \E i \in DOMAIN a[2] : a[2][i] = o
      /\ \A o : o \in Symmetry!ToSet(b[2]) <=> \E i \in DOMAIN b[2] : b[2][i] = o
  BY ActionTerm DEF AllSorted
<1>2. Fits(names) /\ Fits(more) /\ DOMAIN more = DOMAIN names \cup Symmetry!ToSet(a[2])
      /\ \A o \in DOMAIN names : more[o] = names[o]
  <2> DEFINE objects == Symmetry!ToSet(a[2])
  <2>1. Fits(names) /\ objects \subseteq Os /\ more \in Symmetry!Extended(names, objects)
    BY <1>1 DEF Right
  <2> HIDE DEF objects
  <2>2. Extends(more, names, objects)
    BY <2>1, ExtendedFits
  <2> QED
    BY <2>1, <2>2 DEF objects, Extends
<1>3. \A o \in Symmetry!ToSet(a[2]) : more[o] \in Symmetry!ToSet(b[2])
  BY <1>1
<1>4. \A o \in DOMAIN names : \E s \in steps : names[o] \in Symmetry!ToSet(s[2])
  BY DEF Right
<1>5. steps \subseteq DOMAIN problem.actions
  BY DEF Right
<1>6. ASSUME NEW c \in Symmetry!ToSet(b[2])
      PROVE  \/ Symmetry!PreviousActions(c) = {} \/ b \in Symmetry!PreviousActions(c)
             \/ steps \cap Symmetry!PreviousActions(c) # {}
  <2> DEFINE p == Symmetry!Previous(c)
  <2>1. CASE Symmetry!Earlier(c) = {}
    BY <2>1 DEF Symmetry!PreviousActions
  <2>2. CASE Symmetry!Earlier(c) # {}
    <3>1. PICK o \in DOMAIN more : o \in Symmetry!ToSet(a[2]) /\ c = more[o]
      BY <1>1, <1>2
    <3>2. c \in Os /\ c \in Symmetry!Taken(more) /\ Symmetry!InOrder(more)
      BY <1>2, <3>1 DEF Fits, Symmetry!Taken
    <3>3. p \in Symmetry!Earlier(c)
      BY <2>2, <3>2, PreviousIs
    <3>4. p \in Symmetry!Taken(more)
      BY <3>2, <3>3 DEF Symmetry!InOrder
    <3>5. PICK x \in DOMAIN more : p = more[x]
      BY <3>4 DEF Symmetry!Taken
    <3>6. Symmetry!PreviousActions(c) = {s \in DOMAIN problem.actions : p \in Symmetry!ToSet(s[2])}
      BY <2>2 DEF Symmetry!PreviousActions, Symmetry!ActionsWith
    <3> HIDE DEF p
    <3>7. CASE x \in Symmetry!ToSet(a[2])
      BY <1>3, <3>5, <3>6, <3>7
    <3>8. CASE x \in DOMAIN names
      <4>1. PICK s \in steps : p \in Symmetry!ToSet(s[2])
        BY <1>2, <1>4, <3>5, <3>8
      <4> QED
        BY <1>5, <3>6, <4>1
    <3> QED
      BY <1>2, <3>7, <3>8
  <2> QED
    BY <2>1, <2>2
<1>7. ASSUME NEW o \in DOMAIN more
      PROVE  \E s \in steps \cup {b} : more[o] \in Symmetry!ToSet(s[2])
  BY <1>2, <1>3, <1>4, <1>7
<1> QED
  BY <1>6, <1>7 DEF Symmetry!SymmetryAllows

(* An action of the plan, and the renamed one beside it.                     *)
LEMMA StepRight ==
  ASSUME AllSorted, NEW names, NEW w, NEW m, NEW steps, Right(names, w, m, steps),
         NEW a \in DOMAIN problem.actions, Symmetry!Holds(problem.actions[a], w),
         NEW more \in Symmetry!Extended(names, Symmetry!ToSet(a[2])),
         NEW b, b = Symmetry!Renamed(a, more)
  PROVE  /\ Symmetry!SymmetryAllows(b, steps) /\ Symmetry!Holds(problem.actions[b], m)
         /\ Right(more, Symmetry!After(problem.actions[a].effects, w),
                  Symmetry!After(problem.actions[b].effects, m), steps \cup {b})
<1> DEFINE v == Symmetry!After(problem.actions[a].effects, w)
           n == Symmetry!After(problem.actions[b].effects, m)
<1>1. /\ IsTerm(a) /\ Symmetry!ToSet(a[2]) \subseteq Os
      /\ \A o : o \in Symmetry!ToSet(a[2]) <=> \E i \in DOMAIN a[2] : a[2][i] = o
      /\ Symmetry!Assigns(problem, problem.actions[a].effects)
  BY ActionTerm DEF AllSorted
<1>2. Fits(names) /\ Fits(more) /\ DOMAIN more = DOMAIN names \cup Symmetry!ToSet(a[2])
      /\ \A o \in DOMAIN names : more[o] = names[o]
  <2> DEFINE objects == Symmetry!ToSet(a[2])
  <2>1. Fits(names) /\ objects \subseteq Os /\ more \in Symmetry!Extended(names, objects)
    BY <1>1 DEF Right
  <2> HIDE DEF objects
  <2>2. Extends(more, names, objects)
    BY <2>1, ExtendedFits
  <2> QED
    BY <2>1, <2>2 DEF objects, Extends
<1>3. IsState(w) /\ IsState(m) /\ DOMAIN w = Ground /\ DOMAIN m = Ground /\ Settled(names, w)
  BY DEF Right, IsState
<1>4. PICK whole : Serves(whole, more, w, m)
  BY <1>2, <1>3, NamesExtend DEF Right
<1>5. whole \in [Os -> Os] /\ Among(whole) /\ Whole(whole) /\ Renames(whole, w, m)
      /\ \A o \in DOMAIN more : whole[o] = more[o]
  BY <1>4, WholeAmong DEF Serves, Whole
(* The completed names rename the action as the chosen ones do.              *)
<1>6. b = Renamed(a, whole)
  <2>1. \A i \in DOMAIN a[2] : more[a[2][i]] = whole[a[2][i]]
    BY <1>1, <1>2, <1>5
  <2>2. [i \in DOMAIN a[2] |-> more[a[2][i]]] = [i \in DOMAIN a[2] |-> whole[a[2][i]]]
    BY <2>1
  <2> QED
    BY <2>2 DEF Renamed, Symmetry!Renamed
<1>7. /\ b \in DOMAIN problem.actions /\ Symmetry!Holds(problem.actions[b], m)
      /\ Symmetry!IsRenamed(whole, problem.actions[a].effects, problem.actions[b].effects)
  BY <1>5, <1>6, LiftedIs DEF AllSorted
<1>8. DOMAIN b[2] = DOMAIN a[2] /\ \A i \in DOMAIN a[2] : b[2][i] = more[a[2][i]]
  <2>1. DOMAIN b[2] = DOMAIN a[2] /\ \A i \in DOMAIN a[2] : b[2][i] = whole[a[2][i]]
    BY <1>1, <1>5, <1>6, RenamedIs
  <2> QED
    BY <1>1, <1>2, <1>5, <2>1
<1>9. /\ Symmetry!SymmetryAllows(b, steps)
      /\ \A o \in DOMAIN more : \E s \in steps \cup {b} : more[o] \in Symmetry!ToSet(s[2])
  BY <1>7, <1>8, AllowsRenamed
<1>10. IsState(v) /\ IsState(n) /\ DOMAIN problem.actions[a].effects \subseteq Ground
  BY <1>1, <1>3, <1>7, ActionTerm, AfterIsState DEF AllSorted
<1> HIDE DEF v, n
<1>11. Serves(whole, more, v, n)
  <2>1. Renames(whole, v, n)
    BY <1>3, <1>5, <1>7, <1>10, AfterRenamed DEF v, n
  <2> QED
    BY <1>5, <2>1 DEF Serves
(* Objects without a name are not among those of the action.                 *)
<1>12. Settled(more, v)
  <2> SUFFICES ASSUME NEW c \in Os, NEW d \in Os, c \notin DOMAIN more, d \notin DOMAIN more, c # d, d \in Symmetry!Class(c)
               PROVE  Renames(Exchange(c, d), v, v)
    BY DEF Settled
  <2> DEFINE E == Exchange(c, d)
  <2>1. Among(E) /\ Renames(E, w, w)
    BY <1>2, <1>3, ExchangeAmong DEF Settled
  <2>2. Untouched(a, c, d)
    BY <1>1, <1>2 DEF Untouched
  <2>3. Renamed(a, E) = a
    BY <1>1, <2>2, UntouchedStays
  <2> HIDE DEF E
  <2>4. Symmetry!IsRenamed(E, problem.actions[a].effects, problem.actions[a].effects)
    <3>1. Symmetry!IsRenamed(E, problem.actions[a].effects, problem.actions[Renamed(a, E)].effects)
      BY <2>1, LiftedIs DEF AllSorted
    <3> QED
      BY <2>3, <3>1
  <2>5. Renames(E, v, v)
    BY <1>3, <1>10, <2>1, <2>4, AfterRenamed DEF v
  <2> QED
    BY <2>5 DEF E
<1>13. steps \cup {b} \subseteq DOMAIN problem.actions
  BY <1>7 DEF Right
<1>14. Right(more, v, n, steps \cup {b})
  BY <1>2, <1>9, <1>10, <1>11, <1>12, <1>13 DEF Right
<1> QED
  BY <1>7, <1>9, <1>14 DEF v, n

(* Both plans reach the goal.                                                *)
LEMMA RightReaches ==
  ASSUME AllSorted, NEW names, NEW w, NEW m, NEW steps, Right(names, w, m, steps), Symmetry!Met(w)
  PROVE  Symmetry!Met(m)
<1>1. PICK whole : Serves(whole, names, w, m)
  BY DEF Right
<1> QED
  BY <1>1, WholeAmong, MetRenamed DEF Serves, Whole, AllSorted

(* What the classes and the renaming keep in order on the way.               *)
SymmetryInv ==
  /\ Given /\ SortedInto(groups, index) /\ allowed
  /\ \/ renaming = <<>> /\ world = Symmetry!Beginning /\ mirror = Symmetry!Beginning /\ path = {}
     \/ Symmetry!Sorted /\ Right(renaming, world, mirror, path)
Progress == SymmetryInv /\ (Symmetry!Sorted => Right(renaming, world, mirror, path))

(* Once the objects are sorted a plan can begin.                             *)
LEMMA ProgressIs ==
  ASSUME SymmetryInv
  PROVE  Progress
<1>1. Symmetry!Sorted => Right(<<>>, Symmetry!Beginning, Symmetry!Beginning, {})
  BY StartsRight DEF SymmetryInv, AllSorted
<1> QED
  BY <1>1 DEF SymmetryInv, Progress

(* No object is sorted, and no plan begun.                                   *)
LEMMA SymmetryInit == Symmetry!Init => SymmetryInv
<1> SUFFICES ASSUME Symmetry!Init PROVE SymmetryInv
  OBVIOUS
<1>1. Given /\ groups = <<>> /\ index = 0
  BY DEF Symmetry!Init, Given
<1>2. Len(problem.objects) \in Nat
  BY <1>1, GivenIs DEF Symmetry!ProblemWellFormed
<1>3. SortedInto(groups, index)
  <2>1. <<>> \in Seq(Seq(Os)) /\ DOMAIN <<>> = {}
    OBVIOUS
  <2>2. \A o : ~(\E i \in 1 .. 0 : o = problem.objects[i])
    OBVIOUS
  <2> QED
    BY <1>1, <1>2, <2>1, <2>2 DEF SortedInto
<1> QED
  BY <1>1, <1>3 DEF Symmetry!Init, SymmetryInv

(* What is said of a problem stays as long as the problem does.              *)
LEMMA SameProblem ==
  ASSUME problem' = problem
  PROVE  /\ Os' = Os /\ Ground' = Ground /\ Symmetry!Goal' = Symmetry!Goal /\ Excluded' = Excluded
         /\ \A a, b : Exchange(a, b)' = Exchange(a, b) /\ Alike(a, b)' = Alike(a, b)
         /\ \A v : IsValue(v)' = IsValue(v)
         /\ \A b : Symmetry!Rank(b)' = Symmetry!Rank(b)
         /\ Symmetry!Beginning' = Symmetry!Beginning
<1>1. Os' = Os
  BY DEF Os, Symmetry!Objects
<1>2. Ground' = Ground
  BY DEF Ground, Symmetry!GroundFluents
<1>3. Symmetry!Goal' = Symmetry!Goal
  BY DEF Symmetry!Goal
<1>4. Excluded' = Excluded
  BY DEF Excluded
<1>5. \A a, b : Exchange(a, b)' = Exchange(a, b)
  BY DEF Exchange, Symmetry!Exchange, Symmetry!Objects
<1>6. \A v : IsValue(v)' = IsValue(v)
  BY DEF IsValue
<1>7. \A b : Symmetry!Rank(b)' = Symmetry!Rank(b)
  BY DEF Symmetry!Rank
<1>8. \A f : Symmetry!InitialValue(f)' = Symmetry!InitialValue(f)
  BY DEF Symmetry!InitialValue
<1>9. Symmetry!Beginning' = Symmetry!Beginning
  BY <1>8 DEF Symmetry!Beginning, Symmetry!GroundFluents
<1>10. ASSUME NEW a, NEW b
       PROVE  Alike(a, b)' = Alike(a, b)
  <2>1. \A o : Symmetry!TypeOf(o)' = Symmetry!TypeOf(o)
    BY DEF Symmetry!TypeOf
  <2>2. \A t : Symmetry!Swap(t, a, b)' = Symmetry!Swap(t, a, b)
    BY DEF Symmetry!Swap, Symmetry!Exchange, Symmetry!Objects
  <2>3. \A c : Symmetry!SwapConjunct(c, a, b)' = Symmetry!SwapConjunct(c, a, b)
    <3> TAKE c
    <3>1. {<<x[1], Symmetry!Swap(x[2], a, b)'>> : x \in c.terms} = {<<x[1], Symmetry!Swap(x[2], a, b)>> : x \in c.terms}
      BY <2>2
    <3> QED
      BY <3>1 DEF Symmetry!SwapConjunct
  <2>4. {Symmetry!SwapConjunct(c, a, b)' : c \in Symmetry!Goal'} = {Symmetry!SwapConjunct(c, a, b) : c \in Symmetry!Goal}
    BY <1>3, <2>3
  <2>5. Symmetry!GroundFluents' = Symmetry!GroundFluents
    BY <1>2 DEF Ground
  <2>6. ASSUME NEW f
        PROVE  /\ Symmetry!InitialValue(Symmetry!Swap(f, a, b))' = Symmetry!InitialValue(Symmetry!Swap(f, a, b))
               /\ Symmetry!Swap(Symmetry!InitialValue(f), a, b)' = Symmetry!Swap(Symmetry!InitialValue(f), a, b)
    BY <1>8, <2>2
  <2> QED
    BY <1>3, <2>1, <2>4, <2>5, <2>6 DEF Alike, Symmetry!Interchangeable
<1> QED
  BY <1>1, <1>2, <1>3, <1>4, <1>5, <1>6, <1>7, <1>9, <1>10

(* So does what is said of a plan and its renaming.                          *)
LEMMA SameRight ==
  ASSUME problem' = problem, groups' = groups, Right(renaming', world', mirror', path')
  PROVE  Right(renaming, world, mirror, path)'
<1>0. Os' = Os /\ Ground' = Ground /\ Symmetry!Goal' = Symmetry!Goal
  BY SameProblem
<1>1. \A o : Symmetry!Class(o)' = Symmetry!Class(o)
  BY DEF Symmetry!Class
<1>2. \A o : Symmetry!Earlier(o)' = Symmetry!Earlier(o)
  BY <1>1, SameProblem DEF Symmetry!Earlier
<1>3. Fits(renaming)'
  <2>1. Fits(renaming')
    BY DEF Right
  <2>2. Symmetry!InOrder(renaming)'
    BY <1>2, <2>1 DEF Fits, Symmetry!InOrder, Symmetry!Taken
  <2> QED
    BY <1>0, <1>1, <2>1, <2>2 DEF Fits
<1>4. IsState(world)' /\ IsState(mirror)'
  <2>1. IsState(world') /\ IsState(mirror')
    BY DEF Right
  <2> QED
    BY <1>0, <2>1, SameProblem DEF IsState
<1>5. Settled(renaming, world)'
  <2>1. Settled(renaming', world')
    BY DEF Right
  <2>2. \A a, b : Renames(Exchange(a, b), world, world)' <=> Renames(Exchange(a, b), world', world')
    BY <1>0, SameProblem DEF Renames
  <2> QED
    BY <1>0, <1>1, <2>1, <2>2 DEF Settled
<1>6. \E whole : Serves(whole, renaming, world, mirror)'
  <2>1. PICK whole : Serves(whole, renaming', world', mirror')
    BY DEF Right
  <2>2. Renames(whole, world, mirror)'
    BY <1>0, <2>1 DEF Serves, Renames
  <2>3. KeepsGoal(whole)'
    BY <1>0, <2>1 DEF Serves, Whole, KeepsGoal
  <2>4. Whole(whole)'
    BY <1>0, <1>1, <2>1, <2>3 DEF Serves, Whole, OneToOne
  <2>5. Serves(whole, renaming, world, mirror)'
    BY <2>1, <2>2, <2>4 DEF Serves
  <2> QED
    BY <2>5
<1> QED
  BY <1>3, <1>4, <1>5, <1>6 DEF Right

(* So do the classes.                                                        *)
LEMMA SameClasses ==
  ASSUME problem' = problem, SortedInto(groups', index')
  PROVE  SortedInto(groups, index)'
<1>1. Os' = Os /\ Excluded' = Excluded /\ \A a, b : Alike(a, b)' = Alike(a, b)
  BY SameProblem
<1>2. /\ groups' \in Seq(Seq(Os)) /\ index' \in 0 .. Len(problem.objects)
      /\ \A n \in DOMAIN groups' : groups'[n] # <<>>
      /\ \A o : (\E n \in DOMAIN groups' : o \in Members(groups'[n])) <=> \E i \in 1 .. index' : o = problem.objects[i]
      /\ \A m, n \in DOMAIN groups' : m # n => Members(groups'[m]) \cap Members(groups'[n]) = {}
  BY DEF SortedInto
<1>3. \A n \in DOMAIN groups' : \A a, b \in Members(groups'[n]) :
        a # b => a \notin Excluded /\ b \notin Excluded /\ Alike(a, b)
  BY DEF SortedInto
<1>4. \A m, n \in DOMAIN groups' : \A a \in Members(groups'[m]), b \in Members(groups'[n]) :
        m # n /\ a \notin Excluded /\ b \notin Excluded => ~Alike(a, b)
  BY DEF SortedInto
<1>5. \A n \in DOMAIN groups' : \A a, b \in Members(groups'[n]) :
        a # b => a \notin Excluded' /\ b \notin Excluded' /\ Alike(a, b)'
  BY <1>1, <1>3
<1>6. \A m, n \in DOMAIN groups' : \A a \in Members(groups'[m]), b \in Members(groups'[n]) :
        m # n /\ a \notin Excluded' /\ b \notin Excluded' => ~Alike(a, b)'
  BY <1>1, <1>4
<1>7. groups' \in Seq(Seq(Os')) /\ index' \in 0 .. Len(problem'.objects)
      /\ \A o : (\E n \in DOMAIN groups' : o \in Members(groups'[n])) <=> \E i \in 1 .. index' : o = problem'.objects[i]
  BY <1>1, <1>2
<1> QED
  BY <1>2, <1>5, <1>6, <1>7 DEF SortedInto, Members

(* The steps of symmetry breaking.                                           *)
LEMMA SymmetryNext ==
  ASSUME SymmetryInv, Symmetry!Next
  PROVE  SymmetryInv'
<1>0. Given /\ SortedInto(groups, index) /\ allowed /\ Progress
  BY ProgressIs DEF SymmetryInv
<1>1. CASE Symmetry!SortIn
  <2>1. problem' = problem /\ world' = world /\ renaming' = renaming /\ mirror' = mirror /\ path' = path /\ allowed' = allowed
        /\ ~Symmetry!Sorted
    BY <1>1 DEF Symmetry!SortIn, Symmetry!Sorted
  <2>2. SortedInto(groups, index)'
    BY <1>0, <1>1, <2>1, SortInKeeps, SameClasses
  <2>3. Symmetry!Beginning' = Symmetry!Beginning
    BY <2>1, SameProblem
  <2> QED
    BY <2>1, <2>2, <2>3 DEF SymmetryInv, Given
<1>2. CASE \E a \in DOMAIN problem.actions : Symmetry!Step(a)
  <2>1. PICK a \in DOMAIN problem.actions : Symmetry!Step(a)
    BY <1>2
  <2> DEFINE b == Symmetry!Renamed(a, renaming')
  <2>2. /\ Symmetry!Sorted /\ Symmetry!Holds(problem.actions[a], world)
        /\ world' = Symmetry!After(problem.actions[a].effects, world)
        /\ renaming' \in Symmetry!Extended(renaming, Symmetry!ToSet(a[2]))
        /\ path' = path \cup {b}
        /\ allowed' = (allowed /\ Symmetry!SymmetryAllows(b, path) /\ Symmetry!Holds(problem.actions[b], mirror))
        /\ mirror' = Symmetry!After(problem.actions[b].effects, mirror)
        /\ problem' = problem /\ index' = index /\ groups' = groups
    BY <2>1 DEF Symmetry!Step
  <2> HIDE DEF b
  <2>3. AllSorted /\ Right(renaming, world, mirror, path) /\ b = Symmetry!Renamed(a, renaming')
    BY <1>0, <2>2 DEF AllSorted, Progress, b
  <2>4. /\ Symmetry!SymmetryAllows(b, path) /\ Symmetry!Holds(problem.actions[b], mirror)
        /\ Right(renaming', world', mirror', path')
    BY <2>2, <2>3, StepRight
  <2>5. Right(renaming, world, mirror, path)'
    BY <2>2, <2>4, SameRight
  <2>6. SortedInto(groups, index)'
    BY <1>0, <2>2, SameClasses
  <2>7. Symmetry!Sorted'
    BY <2>2 DEF Symmetry!Sorted
  <2> QED
    BY <1>0, <2>2, <2>4, <2>5, <2>6, <2>7 DEF SymmetryInv, Given
<1>3. CASE Symmetry!Happen
  <2>1. /\ Symmetry!Sorted /\ world' = Symmetry!After(problem.timed, world)
        /\ mirror' = Symmetry!After(problem.timed, mirror)
        /\ problem' = problem /\ index' = index /\ groups' = groups
        /\ renaming' = renaming /\ path' = path /\ allowed' = allowed
    BY <1>3 DEF Symmetry!Happen
  <2>2. AllSorted /\ Right(renaming, world, mirror, path)
    BY <1>0, <2>1 DEF AllSorted, Progress
  <2>3. Right(renaming', world', mirror', path')
    BY <2>1, <2>2, HappenRight
  <2>4. Right(renaming, world, mirror, path)'
    BY <2>1, <2>3, SameRight
  <2>5. SortedInto(groups, index)'
    BY <1>0, <2>1, SameClasses
  <2>6. Symmetry!Sorted'
    BY <2>1 DEF Symmetry!Sorted
  <2> QED
    BY <1>0, <2>1, <2>4, <2>5, <2>6 DEF SymmetryInv, Given
<1> QED
  BY <1>1, <1>2, <1>3 DEF Symmetry!Next

(* Nothing happens.                                                          *)
LEMMA SymmetryStutter ==
  ASSUME SymmetryInv, UNCHANGED <<problem, ofSymmetry>>
  PROVE  SymmetryInv'
<1>1. problem' = problem /\ index' = index /\ groups' = groups /\ world' = world /\ renaming' = renaming
      /\ mirror' = mirror /\ path' = path /\ allowed' = allowed
  BY DEF ofSymmetry
<1>2. SortedInto(groups, index)' /\ Symmetry!Beginning' = Symmetry!Beginning
  BY <1>1, SameClasses, SameProblem DEF SymmetryInv
<1>3. Right(renaming, world, mirror, path) => Right(renaming, world, mirror, path)'
  BY <1>1, SameRight
<1> QED
  BY <1>1, <1>2, <1>3 DEF SymmetryInv, Given, Symmetry!Sorted

SInv == analysis = "symmetry" => SymmetryInv

(* The invariant of symmetry breaking under every step of the encoder.       *)
LEMMA NextSInv == SInv /\ [Next]_vars => SInv'
<1> SUFFICES ASSUME SInv, [Next]_vars
             PROVE  SInv'
  OBVIOUS
<1>1. CASE EventsStep
  BY <1>1 DEF EventsStep, SInv
<1>2. CASE RelevanceStep
  BY <1>2 DEF RelevanceStep, SInv
<1>3. CASE SymmetryStep
  BY <1>3, SymmetryNext DEF SymmetryStep, SInv
<1>4. CASE CompressionStep
  BY <1>4 DEF CompressionStep, SInv
<1>5. CASE ExpressionsStep
  BY <1>5 DEF ExpressionsStep, SInv
<1>6. CASE UNCHANGED vars
  BY <1>6, SymmetryStutter DEF vars, SInv
<1> QED
  BY <1>1, <1>2, <1>3, <1>4, <1>5, <1>6 DEF Next

(* It holds initially.                                                       *)
LEMMA InitSInv == Init => SInv
BY SymmetryInit DEF Init, SInv

(* It implies what the runs check of symmetry breaking.                      *)
LEMMA SInvImplies == SInv => RenamedPlanReaches
<1> SUFFICES ASSUME SymmetryInv
             PROVE  Symmetry!ClassesAreExact /\ Symmetry!RenamedPlanAllowed /\ Symmetry!RenamedPlanReaches
  BY DEF SInv, RenamedPlanReaches
<1>1. Symmetry!ClassesAreExact
  BY ClassesExact DEF SymmetryInv
<1>2. Symmetry!RenamedPlanAllowed
  BY DEF SymmetryInv, Symmetry!RenamedPlanAllowed
<1>3. Symmetry!RenamedPlanReaches
  BY RightReaches DEF SymmetryInv, AllSorted, Symmetry!RenamedPlanReaches
<1> QED
  BY <1>1, <1>2, <1>3

(* Symmetry breaking is right: the classes the encoder finds by comparing an *)
(* object with one of each class are exactly those of the objects that can   *)
(* be exchanged, and whatever plan is carried out, the search opens every    *)
(* action of the plan with the objects renamed in order, which reaches the   *)
(* goal when the plan does (_compute_symmetry_classes, symmetry pruning).    *)
THEOREM RenamedPlanIsKept == Spec => []RenamedPlanReaches
<1>1. Init => SInv
  BY InitSInv
<1>2. SInv /\ [Next]_vars => SInv'
  BY NextSInv
<1>3. SInv => RenamedPlanReaches
  BY SInvImplies
<1> QED
  BY <1>1, <1>2, <1>3, PTL DEF Spec

(* There are names left for objects without one: a class has as many names   *)
(* as objects, so the rule never blocks the renamed plan for want of a name. *)
LEMMA NameIsLeft ==
  ASSUME AllSorted, NEW names, Fits(names), NEW o \in Os, o \notin DOMAIN names
  PROVE  Symmetry!Class(o) \ Symmetry!Taken(names) # {}
<1> DEFINE C == Symmetry!Class(o)
           S == C \cap DOMAIN names
           h == [x \in S |-> names[x]]
<1> SUFFICES ASSUME C \subseteq Symmetry!Taken(names)
             PROVE  FALSE
  OBVIOUS
<1>1. C \subseteq Os /\ o \in C
  BY ClassIs DEF AllSorted
<1>2. \A b \in C : \E x \in S : names[x] = b
  <2> TAKE b \in C
  <2>1. PICK x \in DOMAIN names : b = names[x]
    BY DEF Symmetry!Taken
  <2>2. x \in Os /\ b \in Symmetry!Class(x) /\ b \in Os
    BY <1>1, <2>1 DEF Fits
  <2>3. Symmetry!Class(b) = Symmetry!Class(x) /\ Symmetry!Class(b) = C /\ x \in Symmetry!Class(x)
    BY <1>1, <2>2, ClassIs DEF AllSorted
  <2> QED
    BY <2>1, <2>3
<1>3. \A x \in S : names[x] \in C
  <2> TAKE x \in S
  <2>1. x \in Os /\ x \in C /\ names[x] \in Symmetry!Class(x)
    BY <1>1 DEF Fits
  <2>2. Symmetry!Class(x) = C
    BY <1>1, <2>1, ClassIs DEF AllSorted
  <2> QED
    BY <2>1, <2>2
<1>4. IsFiniteSet(C) /\ S \subseteq C /\ o \notin S
  <2>1. IsFiniteSet(C)
    BY <1>1, ObjectsFinite, FS_Subset DEF AllSorted
  <2> QED
    BY <2>1
<1> HIDE DEF C
<1>5. h \in Surjection(S, C)
  BY <1>2, <1>3 DEF Surjection
<1>6. IsFiniteSet(S)
  BY <1>4, FS_Subset
<1>7. Cardinality(C) <= Cardinality(S)
  <2> HIDE DEF S, h
  <2> QED
    BY <1>5, <1>6, FS_Surjection
<1>8. Cardinality(S) <= Cardinality(C) /\ (Cardinality(S) = Cardinality(C) => S = C)
  BY <1>4, FS_Subset
<1>9. Cardinality(S) \in Nat /\ Cardinality(C) \in Nat
  BY <1>4, <1>6, FS_CardinalityType
<1>10. S = C
  BY <1>7, <1>8, <1>9
<1> QED
  BY <1>1, <1>4, <1>10

(* The first name left of its class is given to an object.                   *)
LEMMA OneMoreName ==
  ASSUME AllSorted, NEW names, Fits(names), NEW o \in Os, o \notin DOMAIN names
  PROVE  \E more : Extends(more, names, {o})
<1> DEFINE X == Symmetry!Class(o) \ Symmetry!Taken(names)
           ranks == {Symmetry!Rank(b) : b \in X}
<1>1. X # {} /\ X \subseteq Os
  BY NameIsLeft, ClassIs DEF AllSorted
<1>2. problem.byName \in Seq(Os) /\ Os = {problem.byName[i] : i \in DOMAIN problem.byName}
  BY NamedOnce DEF AllSorted
<1>3. \A b \in Os : Symmetry!Rank(b) \in Nat
  BY <1>2 DEF Symmetry!Rank
<1> HIDE DEF X
<1>4. ranks \in SUBSET Nat /\ ranks # {}
  BY <1>1, <1>3
<1>5. PICK n \in ranks : \A k \in ranks : n <= k
  BY <1>4, LeastNumber
<1>6. PICK b \in X : n = Symmetry!Rank(b)
  BY <1>5
<1>7. b \in Os /\ b \in Symmetry!Class(o) /\ b \notin Symmetry!Taken(names) /\ Symmetry!Class(b) = Symmetry!Class(o)
  BY <1>6, ClassIs DEF AllSorted, X
<1>8. Symmetry!Earlier(b) \subseteq Symmetry!Taken(names)
  <2> SUFFICES ASSUME NEW c \in Symmetry!Class(o), Symmetry!Rank(c) < Symmetry!Rank(b), c \notin Symmetry!Taken(names)
               PROVE  FALSE
    BY <1>7 DEF Symmetry!Earlier
  <2>1. c \in X /\ Symmetry!Rank(c) \in ranks
    BY DEF X
  <2>2. Symmetry!Rank(c) \in Nat /\ Symmetry!Rank(b) \in Nat /\ Symmetry!Rank(b) <= Symmetry!Rank(c)
    BY <1>1, <1>3, <1>5, <1>6, <2>1
  <2> QED
    BY <2>2
<1> DEFINE more == [x \in DOMAIN names \cup {o} |-> IF x = o THEN b ELSE names[x]]
<1>9. /\ DOMAIN more = DOMAIN names \cup {o} /\ more[o] = b
      /\ \A x \in DOMAIN names : more[x] = names[x]
  OBVIOUS
<1>10. more \in [DOMAIN more -> Os] /\ DOMAIN more \subseteq Os
  BY <1>7 DEF Fits
<1> HIDE DEF more
<1>11. \A c : c \in Symmetry!Taken(more) <=> c = b \/ c \in Symmetry!Taken(names)
  BY <1>9 DEF Symmetry!Taken
<1>12. Symmetry!InOrder(more)
  <2> SUFFICES ASSUME NEW c, c \in Symmetry!Taken(more), NEW d \in Symmetry!Earlier(c)
               PROVE  d \in Symmetry!Taken(more)
    BY DEF Symmetry!InOrder
  <2>1. CASE c = b
    BY <1>8, <1>11, <2>1
  <2>2. CASE c \in Symmetry!Taken(names)
    BY <1>11, <2>2 DEF Fits, Symmetry!InOrder
  <2> QED
    BY <1>11, <2>1, <2>2
<1>13. \A x \in DOMAIN names : names[x] \in Symmetry!Taken(names)
  BY DEF Symmetry!Taken
<1>14. \A x, y \in DOMAIN more : more[x] = more[y] => x = y
  BY <1>7, <1>9, <1>13 DEF Fits
<1>15. \A x \in DOMAIN more : more[x] \in Symmetry!Class(x)
  BY <1>7, <1>9 DEF Fits
<1>16. Extends(more, names, {o})
  BY <1>9, <1>10, <1>12, <1>14, <1>15 DEF Extends, Fits
<1> QED
  BY <1>16

(* So whatever objects an action uses, they can be named.                    *)
LEMMA NamesAreLeft ==
  ASSUME AllSorted, NEW names, Fits(names), NEW objects \in SUBSET Os
  PROVE  Symmetry!Extended(names, objects) # {}
<1> DEFINE goal == DOMAIN names \cup objects
           Part(more) == /\ Fits(more) /\ DOMAIN more \subseteq goal
                         /\ \A o \in DOMAIN names : o \in DOMAIN more /\ more[o] = names[o]
           Left(D) == goal \ D
           lefts == {D \in SUBSET goal : \E more : Part(more) /\ DOMAIN more = D}
           counts == {Cardinality(Left(D)) : D \in lefts}
<1>1. IsFiniteSet(goal)
  BY ObjectsFinite, FS_Subset DEF Fits, AllSorted
<1>2. \A D : IsFiniteSet(Left(D)) /\ Cardinality(Left(D)) \in Nat
  <2> TAKE D
  <2>1. Left(D) \subseteq goal
    OBVIOUS
  <2> HIDE DEF Left, goal
  <2> QED
    BY <1>1, <2>1, FS_Subset, FS_CardinalityType
<1>3. PICK least \in counts : \A n \in counts : least <= n
  <2>1. Part(names)
    OBVIOUS
  <2>2. DOMAIN names \in lefts
    BY <2>1
  <2>3. counts # {} /\ counts \in SUBSET Nat
    <3> HIDE DEF lefts, Left
    <3> QED
      BY <1>2, <2>2
  <2> QED
    BY <2>3, LeastNumber
<1>4. PICK D \in lefts : least = Cardinality(Left(D))
  BY <1>3
<1>5. PICK more : Part(more) /\ DOMAIN more = D
  BY <1>4
<1>6. ASSUME NEW o \in goal, o \notin D
      PROVE  FALSE
  <2>1. o \in Os /\ o \notin DOMAIN more /\ Fits(more)
    BY <1>5, <1>6 DEF Fits
  <2>2. PICK further : Extends(further, more, {o})
    BY <2>1, OneMoreName
  <2>3. Part(further) /\ DOMAIN further = D \cup {o}
    BY <1>5, <1>6, <2>2 DEF Extends
  <2>4. D \cup {o} \in lefts
    BY <2>3
  <2>5. Left(D) # {} /\ Left(D \cup {o}) = Left(D) \ {o} /\ o \in Left(D)
    BY <1>6
  <2> HIDE DEF Left, lefts
  <2>6. Cardinality(Left(D \cup {o})) = Cardinality(Left(D)) - 1
    BY <1>2, <2>5, FS_RemoveElement
  <2>7. Cardinality(Left(D \cup {o})) \in counts
    BY <2>4
  <2>8. least <= Cardinality(Left(D \cup {o}))
    BY <1>3, <2>7
  <2> QED
    BY <1>2, <1>4, <2>6, <2>8
<1>7. DOMAIN more = goal /\ Fits(more) /\ \A o \in DOMAIN names : more[o] = names[o]
  BY <1>5, <1>6
<1>8. more \in Symmetry!Extended(names, objects)
  BY <1>7 DEF Symmetry!Extended, Fits, Os
<1> QED
  BY <1>8

(* Some renaming is there for whatever action comes next.                    *)
PlanCanBeRenamed ==
  analysis = "symmetry" /\ Symmetry!Sorted =>
    \A a \in DOMAIN problem.actions : Symmetry!Extended(renaming, Symmetry!ToSet(a[2])) # {}

(* The renamed plan always goes on: the rule leaves a name for every object  *)
(* of the next action, so what RenamedPlanIsKept says holds of every plan    *)
(* and not only of those that could be renamed this far.                     *)
THEOREM EveryPlanIsRenamed == Spec => []PlanCanBeRenamed
<1>1. Init => SInv
  BY InitSInv
<1>2. SInv /\ [Next]_vars => SInv'
  BY NextSInv
<1>3. SInv => PlanCanBeRenamed
  <2> SUFFICES ASSUME SymmetryInv, Symmetry!Sorted, NEW a \in DOMAIN problem.actions
               PROVE  Symmetry!Extended(renaming, Symmetry!ToSet(a[2])) # {}
    BY DEF SInv, PlanCanBeRenamed
  <2>1. AllSorted /\ Right(renaming, world, mirror, path)
    BY ProgressIs DEF SymmetryInv, AllSorted, Progress
  <2> DEFINE objects == Symmetry!ToSet(a[2])
  <2>2. Fits(renaming) /\ objects \in SUBSET Os
    BY <2>1, ActionTerm DEF Right, AllSorted
  <2> HIDE DEF objects
  <2>3. Symmetry!Extended(renaming, objects) # {}
    BY <2>1, <2>2, NamesAreLeft
  <2> QED
    BY <2>3 DEF objects
<1> QED
  BY <1>1, <1>2, <1>3, PTL DEF Spec
=============================================================================
