------------------------- MODULE CompressionSafety -------------------------
(****************************************************************************)
(* Which durative actions may be carried out in one go: all their events at  *)
(* their start. The encoder decides it from the conditions of all actions.   *)
(*                                                                           *)
(* A behaviour carries out a plan event by event, actions overlapping as     *)
(* they can, and beside it the compressed plan, in which an action that is   *)
(* safe is over as soon as it starts. Dates play no part.                    *)
(*                                                                           *)
(* An action is what it asks for over intervals and what it does, at its     *)
(* instants: 0 is its start and, if it lasts, Last its end; 1 stands for the *)
(* instants between. A ground fluent is a name and an object; a condition    *)
(* gives a fluent its value, or compares two; an effect assigns a constant   *)
(* or the value of a fluent.                                                 *)
(****************************************************************************)
EXTENDS Naturals, FiniteSets

CONSTANTS
  Problems     \* records [actions, init, goal, timed]; timed: it has timed effects or goals

Last == 2
End(action) == IF action.durative THEN Last ELSE 0

VARIABLES
  problem,
  safe,        \* _compression_safe_actions
  full,        \* the value of each fluent in the plan
  todo,        \* the next instant of each action under way in it
  short,       \* the value of each fluent in the compressed plan
  works,       \* whether the compressed plan got through so far
  covered,     \* ... and whether its ends found their own conditions true
  disturbed    \* whether an event came in the way of an end that was moved

vars == <<problem, safe, full, todo, short, works, covered, disturbed>>

Literal(f, v) == [fluent |-> f, value |-> v]
Same(f, g) == [left |-> f, right |-> g]
IsLiteral(c) == "fluent" \in DOMAIN c
Reads(c) == IF IsLiteral(c) THEN {c.fluent} ELSE {c.left, c.right}
Holds(c, s) == IF IsLiteral(c) THEN s[c.fluent] = c.value ELSE s[c.left] = s[c.right]
Constant(v) == [is |-> v]
Value(f) == [reads |-> f]
IsConstant(x) == "is" \in DOMAIN x
Evaluated(x, s) == IF IsConstant(x) THEN x.is ELSE s[x.reads]
Name(f) == f[1]

(* Conditions and effects are at instants of their action and about fluents  *)
(* of the problem. No interval is empty: a point is closed.                  *)
CompressionAssumption ==
  \A p \in Problems :
    /\ p.init \in [DOMAIN p.init -> BOOLEAN]
    /\ \A a \in DOMAIN p.actions :
         /\ \A c \in p.actions[a].conditions :
              /\ {c.lower, c.upper} \subseteq 0 .. End(p.actions[a]) /\ c.lower <= c.upper
              /\ {c.leftOpen, c.rightOpen} \subseteq BOOLEAN
              /\ c.lower = c.upper => ~c.leftOpen /\ ~c.rightOpen
              /\ \/ \E f \in DOMAIN p.init, v \in BOOLEAN : c.that = Literal(f, v)
                 \/ \E f, g \in DOMAIN p.init : c.that = Same(f, g)
         /\ \A e \in p.actions[a].effects :
              /\ e.at \in 0 .. End(p.actions[a]) /\ e.fluent \in DOMAIN p.init
              /\ \/ \E v \in BOOLEAN : e.value = Constant(v)
                 \/ \E f \in DOMAIN p.init : e.value = Value(f)

(* The values of each fluent that some literal asks for, and the fluents of  *)
(* all other conditions. Neither goals nor durations nor effects are looked  *)
(* at, and fluents are told apart by name only.                              *)
Conditions(p) == UNION {{c.that : c \in p.actions[a].conditions} : a \in DOMAIN p.actions}
AskedFor(p) == {<<Name(c.fluent), c.value>> : c \in {d \in Conditions(p) : IsLiteral(d)}}
ComplexFluents(p) ==
  UNION {{Name(f) : f \in Reads(c)} : c \in {d \in Conditions(p) : ~IsLiteral(d)}}

HasIntermediateConditions(action) ==
  \E c \in action.conditions : {c.lower, c.upper} \cap 1 .. Last - 1 # {}
EndConditions(action) == {c.that : c \in {d \in action.conditions : d.lower = Last /\ d.upper = Last}}
OverallConditions(action) == {c.that : c \in {d \in action.conditions : d.lower = 0 /\ d.upper = Last}}

InterferesWithItsOwn(p, action) ==
  \E e \in action.effects :
    /\ e.at # 0
    /\ \/ ~IsConstant(e.value)
       \/ Name(e.fluent) \in ComplexFluents(p)
       \/ \E c \in action.conditions : c.that = Literal(e.fluent, ~e.value.is)
EffectsInterfere(p, action) ==
  \E e \in action.effects :
    /\ e.at # 0
    /\ \/ ~IsConstant(e.value)
       \/ Name(e.fluent) \in ComplexFluents(p)
       \/ <<Name(e.fluent), ~e.value.is>> \in AskedFor(p)

Safe(p, action) ==
  /\ action.durative
  /\ ~HasIntermediateConditions(action)
  /\ EndConditions(action) \subseteq OverallConditions(action)
  /\ ~EffectsInterfere(p, action)

(* A compressed action could never straddle a timed effect.                  *)
SafeActions(p) == IF p.timed THEN {} ELSE {a \in DOMAIN p.actions : Safe(p, p.actions[a])}

Init ==
  /\ problem \in Problems
  /\ safe = SafeActions(problem)
  /\ full = problem.init
  /\ short = problem.init
  /\ todo = <<>>
  /\ works = TRUE
  /\ covered = TRUE
  /\ disturbed = FALSE

Action(a) == problem.actions[a]
(* What the event at an instant asks for: a point, or the closed side of an  *)
(* interval.                                                                 *)
At(a, i) ==
  {c.that : c \in {d \in Action(a).conditions :
                      (d.lower = i /\ ~d.leftOpen) \/ (d.upper = i /\ ~d.rightOpen)}}
EffectsAt(a, i) == {e \in Action(a).effects : e.at = i}
After(a, i, s) ==
  [f \in DOMAIN s |->
     LET es == {e \in EffectsAt(a, i) : e.fluent = f}
     IN  IF es = {} THEN s[f] ELSE Evaluated((CHOOSE e \in es : TRUE).value, s)]

(* What an action maintains before its instant i, and what all those under   *)
(* way maintain.                                                             *)
Maintained(a, i) == {c.that : c \in {d \in Action(a).conditions : d.lower < i /\ i <= d.upper}}
Active(t) == UNION {Maintained(a, t[a]) : a \in DOMAIN t}
AllHold(cs, s) == \A c \in cs : Holds(c, s)

(* All the events of an action, one after the other. Only the first one's    *)
(* conditions are tested; each must leave what is maintained true.           *)
Chain(a, s) ==
  LET after[i \in 0 .. End(Action(a))] == After(a, i, IF i = 0 THEN s ELSE after[i - 1])
  IN  after
ChainPasses(a, s, others) ==
  /\ AllHold(At(a, 0), s)
  /\ \A i \in 0 .. End(Action(a)) : AllHold(others \cup Maintained(a, i + 1), Chain(a, s)[i])
ChainCovers(a, s) ==
  \A i \in 1 .. End(Action(a)) : AllHold(At(a, i), Chain(a, s)[i - 1])

(* An effect still to come of a safe action b is moved before the event: in  *)
(* the way if the event assigns the opposite, or reads the fluent other than *)
(* in a condition.                                                           *)
InTheWay(a, i) ==
  \E b \in (DOMAIN todo \cap safe) \ {a} : \E late \in Action(b).effects :
    /\ late.at >= todo[b]
    /\ \/ i = 0 /\ late.fluent \in Action(a).duration
       \/ \E e \in EffectsAt(a, i) :
            \/ e.value = Value(late.fluent)
            \/ e.fluent = late.fluent /\ e.value # late.value

Compressed(a, i, others) ==
  IF a \notin safe
  THEN /\ works' = (works /\ AllHold(At(a, i), short)
                          /\ AllHold(others \cup Maintained(a, i + 1), After(a, i, short)))
       /\ short' = After(a, i, short)
       /\ UNCHANGED covered
  ELSE IF i = 0
  THEN /\ works' = (works /\ ChainPasses(a, short, others))
       /\ covered' = (covered /\ (ChainPasses(a, short, others) => ChainCovers(a, short)))
       /\ short' = Chain(a, short)[End(Action(a))]
  ELSE UNCHANGED <<works, short, covered>>

Advanced(a, i) ==
  [b \in (DOMAIN todo \cup {a}) \ (IF i = End(Action(a)) THEN {a} ELSE {}) |->
     IF b = a THEN i + 1 ELSE todo[b]]
Fire(a, i) ==
  /\ AllHold(At(a, i), full)
  /\ AllHold(Active(Advanced(a, i)), After(a, i, full))
  /\ full' = After(a, i, full)
  /\ todo' = Advanced(a, i)
  /\ Compressed(a, i, UNION {Maintained(b, todo[b]) : b \in (DOMAIN todo \ safe) \ {a}})
  /\ disturbed' = (disturbed \/ InTheWay(a, i))
  /\ UNCHANGED <<problem, safe>>

Open(a) == a \notin DOMAIN todo /\ Fire(a, 0)
Continue(a) == a \in DOMAIN todo /\ Fire(a, todo[a])
Next == \E a \in DOMAIN problem.actions : Open(a) \/ Continue(a)

Spec == Init /\ [][Next]_vars

-----------------------------------------------------------------------------
TypeOK ==
  /\ safe \subseteq DOMAIN problem.actions
  /\ full \in [DOMAIN problem.init -> BOOLEAN]
  /\ short \in [DOMAIN problem.init -> BOOLEAN]
  /\ \A a \in DOMAIN todo : todo[a] \in 1 .. End(Action(a))
  /\ {works, covered, disturbed} \subseteq BOOLEAN

(* A chain does not test the conditions of its later events (the replay of   *)
(* the plan asserts them): they hold wherever the chain gets through.        *)
EndsAreCovered == covered

(* As long as no event came in the way of an end that was moved, whatever    *)
(* the plan carries out the compressed plan carries out too, the conditions  *)
(* of all other actions included.                                            *)
CompressedPlanWorks == ~disturbed => works

(* ... and where no action is under way both are in the same state.          *)
StatesMeet == (~disturbed /\ todo = <<>>) => short = full

(* The states that can be reached one whole action after the other: the      *)
(* classical problem that a problem of safe actions is compiled into.        *)
Sequential(p) ==
  LET more(states) ==
        states \cup
        {Chain(x[1], x[2])[End(Action(x[1]))] :
           x \in {y \in (DOMAIN p.actions) \X states :
                    ChainPasses(y[1], y[2], {}) /\ ChainCovers(y[1], y[2])}}
      most == 2^Cardinality(DOMAIN p.init)
      rounds[k \in 0 .. most] == IF k = 0 THEN {p.init} ELSE more(rounds[k - 1])
  IN  rounds[most]

(* If all actions are safe, the classical problem has a plan if the problem  *)
(* has one: it is called equivalent where it is compiled (engine.py:1251).   *)
(* It is not, for SequentialProblems of MCEncoder.                           *)
SequentialIsEquivalent ==
  (safe = DOMAIN problem.actions /\ todo = <<>> /\ AllHold(problem.goal, full))
    => \E s \in Sequential(problem) : AllHold(problem.goal, s)
=============================================================================
