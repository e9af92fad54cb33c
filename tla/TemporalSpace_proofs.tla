------------------------ MODULE TemporalSpace_proofs ------------------------
(****************************************************************************)
(* What holds in every state of the search space, for every problem, and of  *)
(* the plan that a goal state gives.                                         *)
(****************************************************************************)
EXTENDS PlanExtraction, TLAPS, WellFoundedInduction, FiniteSetTheorems, FunctionTheorems

Step == [action : Action, pos : Nat, id : Nat]

(* The actions a successor can be asked for. *)
Known == problem.relevant \cup ({problem.timed} \ {NoTimed})

(* The events open actions still have to fire exist.                         *)
TodoOK(todo) ==
  /\ DOMAIN todo \subseteq Known
  /\ \A a \in DOMAIN todo : todo[a].next \in From(a, 1) /\ todo[a].id \in Nat

(* A search state is a record. *)
Shaped(s) ==
  /\ DOMAIN s = {"assignments", "todo", "active", "path", "tn", "g"}
  /\ s = [f \in DOMAIN s |-> s[f]]

StateOK(s) ==
  /\ Shaped(s)
  /\ s.assignments \in Assignment
  /\ s.path \in Seq(Step)
  /\ TodoOK(s.todo)
  /\ Kept(s)
  /\ Ordered(s)

(* What ProblemsAssumption says of the problem being solved.                 *)
LEMMA ProblemOK ==
  ASSUME problem \in Problems
  PROVE  /\ problem.init \in Assignment
         /\ problem.epsilon \in Nat
         /\ Known \subseteq Action
         /\ \A a \in Known :
              /\ Len(Events(a)) \in Nat \ {0}
              /\ \A i \in From(a, 1) : \A f \in Writes(a, i) : \A v \in Assignment :
                   Events(a)[i].effects[f].value[v] \in Value
         /\ problem.deadline \in Int
         /\ \A a \in Known :
              /\ \A v \in Assignment :
                   problem.duration[a].lower[v] \in Int /\ problem.duration[a].upper[v] \in Int
              /\ \A i \in From(a, 1) : Events(a)[i].delay \in Int
BY ProblemsAssumption DEF Known, Events, From, Writes

(* The effects of an event give every fluent a value.                        *)
LEMMA AfterEffectsType ==
  ASSUME problem \in Problems,
         NEW a \in Known, NEW i \in From(a, 1), NEW v \in Assignment
  PROVE  AfterEffects(a, i, v) \in Assignment
BY ProblemOK DEF AfterEffects, Assignment

(* An event without effects leaves the assignment as it is. *)
LEMMA NoEffects ==
  ASSUME NEW a, NEW i, NEW v \in Assignment, Writes(a, i) = {}
  PROVE  AfterEffects(a, i, v) = v
BY DEF AfterEffects, Assignment

(* A condition maintained after an event was maintained before it or starts  *)
(* with it.                                                                  *)
LEMMA ActiveAfterFrom ==
  ASSUME NEW a, NEW i, NEW active, NEW c \in BagToSet(ActiveAfter(a, i, active))
  PROVE  c \in BagToSet(active) \/ c \in Events(a)[i].start
BY DEF ActiveAfter, BagToSet, SetToBag, (+), (-)

(* The comment of _expand_event, as a lemma: what is checked is enough.      *)
LEMMA ExpandKeeps ==
  ASSUME NEW a, NEW i, NEW s, s.assignments \in Assignment, Kept(s), MayStart(a, i, s),
         ActiveHold(a, i, s, ActiveAfter(a, i, s.active)),
         NEW c \in BagToSet(ActiveAfter(a, i, s.active))
  PROVE  Holds(c, AfterEffects(a, i, s.assignments))
<1>1. CASE Writes(a, i) # {}
  BY <1>1 DEF ActiveHold
<1>2. CASE Writes(a, i) = {}
  <2>1. AfterEffects(a, i, s.assignments) = s.assignments
    BY <1>2, NoEffects
  <2>2. CASE c \in BagToSet(s.active)
    BY <2>1, <2>2 DEF Kept
  <2>3. CASE c \in Events(a)[i].start
    <3>1. c \in EffectIndependent(a, i)
      BY <2>3, <1>2 DEF EffectIndependent
    <3> QED
      BY <2>1, <3>1 DEF MayStart
  <2> QED
    BY <2>2, <2>3, ActiveAfterFrom
<1> QED
  BY <1>1, <1>2

-----------------------------------------------------------------------------
(* A set of numbers has a least one, and a bounded one a greatest.           *)
LEMMA Least ==
  ASSUME NEW S \in SUBSET Nat, S # {}
  PROVE  \E m \in S : \A k \in S : m <= k
<1> DEFINE R == OpToRel(<, Nat)
<1>1. PICK m \in S : \A k \in S : ~(<<k, m>> \in R)
  <2> HIDE DEF R
  <2>1. IsWellFoundedOn(R, Nat)
    BY NatLessThanWellFounded DEF R
  <2> QED
    BY <2>1, WFMin
<1>2. \A k \in S : ~(k < m)
  BY <1>1 DEF OpToRel
<1> QED
  BY <1>2

(* A non-empty set of indices has a greatest one.                            *)
LEMMA Greatest ==
  ASSUME NEW n \in Nat, NEW S \in SUBSET (1 .. n), S # {}
  PROVE  Max(S) \in S /\ \A k \in S : k <= Max(S)
<1> DEFINE D == {n - k : k \in S}
<1>1. D \in SUBSET Nat /\ D # {}
  <2>1. \A k \in S : k \in Int /\ n - k \in Nat
    OBVIOUS
  <2> QED
    BY <2>1
<1>2. PICK d \in D : \A e \in D : d <= e
  <2> HIDE DEF D
  <2> QED
    BY <1>1, Least
<1>3. PICK m \in S : d = n - m
  OBVIOUS
<1>4. \A k \in S : m >= k
  BY <1>2, <1>3
<1>5. Max(S) \in S /\ \A k \in S : Max(S) >= k
  BY <1>3, <1>4 DEF Max
<1> QED
  BY <1>5

-----------------------------------------------------------------------------
(* Schedules: the dates of a network are the earliest there are.             *)

(* What is made of a finite set, one thing of each, is finite.               *)
LEMMA ImageIsFinite ==
  ASSUME NEW S, IsFiniteSet(S), NEW f
  PROVE  IsFiniteSet({f[x] : x \in S})
<1> DEFINE T == {f[x] : x \in S}
           g == [x \in S |-> f[x]]
<1>1. g \in Surjection(S, T)
  BY DEF Surjection
<1> HIDE DEF g, T
<1>2. IsFiniteSet(T)
  BY <1>1, FS_Surjection
<1> QED
  BY <1>2 DEF T

(* Min finds the least of finitely many numbers.                             *)
LEMMA LeastOfFinite ==
  ASSUME NEW S \in SUBSET Int, IsFiniteSet(S), S # {}
  PROVE  Min(S) \in S /\ \A k \in S : Min(S) <= k
<1> DEFINE Floor(T) == \E m \in T : \A k \in T : m <= k
           Bad == {T \in SUBSET S : T # {} /\ ~Floor(T)}
           Sizes == {Cardinality(T) : T \in Bad}
<1>1. \A T \in SUBSET S : IsFiniteSet(T) /\ Cardinality(T) \in Nat
  BY FS_Subset, FS_CardinalityType
<1>2. Bad = {}
  <2> SUFFICES ASSUME Bad # {} PROVE FALSE
    OBVIOUS
  <2>1. Sizes \in SUBSET Nat /\ Sizes # {}
    BY <1>1
  <2>2. PICK n \in Sizes : \A k \in Sizes : n <= k
    <3> HIDE DEF Sizes
    <3> QED
      BY <2>1, Least
  <2>3. PICK T \in Bad : n = Cardinality(T)
    OBVIOUS
  <2>4. PICK x \in T : TRUE
    OBVIOUS
  <2> DEFINE U == T \ {x}
  <2>5. U \in SUBSET S /\ Cardinality(U) = n - 1 /\ n \in Nat
    <3>1. IsFiniteSet(T) /\ Cardinality(T) \in Nat
      BY <1>1, <2>3
    <3> QED
      BY <3>1, <2>3, <2>4, FS_RemoveElement
  <2>6. Cardinality(U) \notin Sizes
    <3> HIDE DEF Sizes, U
    <3> QED
      BY <2>1, <2>2, <2>5
  <2>7. U = {} \/ Floor(U)
    BY <2>5, <2>6
  <2>8. x \in Int /\ T \in SUBSET Int /\ ~Floor(T)
    BY <2>3, <2>4
  <2>9. CASE U = {}
    <3>1. \A k \in T : k = x
      BY <2>9
    <3> QED
      BY <3>1, <2>4, <2>8
  <2>10. CASE Floor(U)
    <3>1. PICK m \in U : \A k \in U : m <= k
      BY <2>10
    <3>2. \A k \in T : k = x \/ m <= k
      BY <3>1
    <3>3. m \in T /\ m \in Int
      BY <2>8
    <3>4. CASE m <= x
      BY <3>2, <3>3, <3>4, <2>8
    <3>5. CASE x <= m
      <4>1. \A k \in T : x <= k
        BY <3>2, <3>3, <3>5, <2>8
      <4> QED
        BY <4>1, <2>4, <2>8
    <3> QED
      BY <3>3, <3>4, <3>5, <2>8
  <2> QED
    BY <2>7, <2>9, <2>10
<1>3. \E m \in S : \A k \in S : m <= k
  BY <1>2
<1> QED
  BY <1>3 DEF Min

(* Finitely many constraints, with numbers for bounds.                       *)
Bounded(cs) == IsFiniteSet(cs) /\ \A c \in cs : c.bound \in Int

(* A schedule of the constraints: distances that are not positive.           *)
Schedule(d, cs) ==
  /\ d \in [Points(cs) -> Int]
  /\ \A p \in Points(cs) : d[p] <= 0
  /\ Satisfied(d, cs)

(* A constraint relates two time points of the network.                      *)
LEMMA EndsArePoints ==
  ASSUME NEW cs, NEW c \in cs
  PROVE  c.src \in Points(cs) /\ c.dst \in Points(cs)
BY DEF Points

(* A round of relaxation gives numbers, none greater than before, and no     *)
(* smaller than some constraint asks for.                                    *)
LEMMA RelaxedType ==
  ASSUME NEW cs, Bounded(cs), NEW d \in [Points(cs) -> Int]
  PROVE  /\ Relaxed(d, cs) \in [Points(cs) -> Int]
         /\ \A p \in Points(cs) : Relaxed(d, cs)[p] <= d[p]
         /\ \A p \in Points(cs) :
              \/ Relaxed(d, cs)[p] = d[p]
              \/ \E c \in cs : c.dst = p /\ Relaxed(d, cs)[p] = d[c.src] + c.bound
<1> DEFINE into(p) == {c \in cs : c.dst = p}
           asked(p) == {d[c.src] + c.bound : c \in into(p)}
<1>1. ASSUME NEW p \in Points(cs)
      PROVE  /\ Relaxed(d, cs)[p] = Min({d[p]} \cup asked(p))
             /\ Min({d[p]} \cup asked(p)) \in {d[p]} \cup asked(p)
             /\ Min({d[p]} \cup asked(p)) <= d[p]
             /\ {d[p]} \cup asked(p) \in SUBSET Int
  <2>1. Relaxed(d, cs)[p] = Min({d[p]} \cup asked(p))
    BY DEF Relaxed
  <2>2. {d[p]} \cup asked(p) \in SUBSET Int
    <3>1. \A c \in into(p) : d[c.src] + c.bound \in Int
      BY EndsArePoints DEF Bounded
    <3> QED
      BY <3>1
  <2>3. IsFiniteSet(asked(p))
    <3> DEFINE f == [c \in cs |-> d[c.src] + c.bound]
    <3>1. IsFiniteSet(into(p))
      BY FS_Subset DEF Bounded
    <3>2. asked(p) = {f[c] : c \in into(p)}
      OBVIOUS
    <3> HIDE DEF into, f, asked
    <3> QED
      BY <3>1, <3>2, ImageIsFinite
  <2>4. IsFiniteSet({d[p]} \cup asked(p))
    <3> HIDE DEF asked
    <3> QED
      BY <2>3, FS_Singleton, FS_Union
  <2> HIDE DEF asked
  <2>5. /\ Min({d[p]} \cup asked(p)) \in {d[p]} \cup asked(p)
        /\ \A k \in {d[p]} \cup asked(p) : Min({d[p]} \cup asked(p)) <= k
    BY <2>2, <2>4, LeastOfFinite
  <2> QED
    BY <2>1, <2>2, <2>5
<1>2. DOMAIN Relaxed(d, cs) = Points(cs) /\ Relaxed(d, cs) = [p \in Points(cs) |-> Relaxed(d, cs)[p]]
  BY DEF Relaxed
<1>3. \A p \in Points(cs) : Relaxed(d, cs)[p] \in Int
  <2> HIDE DEF asked
  <2> QED
    BY <1>1
<1>4. Relaxed(d, cs) \in [Points(cs) -> Int]
  BY <1>2, <1>3
<1>5. \A p \in Points(cs) : Relaxed(d, cs)[p] <= d[p]
  BY <1>1
<1>6. ASSUME NEW p \in Points(cs)
      PROVE  \/ Relaxed(d, cs)[p] = d[p]
             \/ \E c \in cs : c.dst = p /\ Relaxed(d, cs)[p] = d[c.src] + c.bound
  BY <1>1
<1> QED
  BY <1>4, <1>5, <1>6

(* The rounds of relaxation, as equations.                                   *)
LEMMA DistancesUnfold ==
  ASSUME NEW cs, Cardinality(Points(cs)) \in Nat
  PROVE  \E r :
           /\ r = [n \in 0 .. Cardinality(Points(cs)) |->
                    IF n = 0 THEN [p \in Points(cs) |-> 0] ELSE Relaxed(r[n - 1], cs)]
           /\ Distances(cs) = r[Cardinality(Points(cs))]
<1> DEFINE N == Cardinality(Points(cs))
           start == [p \in Points(cs) |-> 0]
           Body(r, n) == IF n = 0 THEN start
                         ELSE LET d == r[n - 1]
                                  next == Relaxed(d, cs)
                              IN  IF next = d THEN d ELSE next
           Rounds(r, m) == r = [n \in 0 .. m |-> Body(r, n)]
           Stuck == {m \in 0 .. N : ~ \E r : Rounds(r, m)}
<1>1. Stuck = {}
  <2> SUFFICES ASSUME Stuck # {} PROVE FALSE
    OBVIOUS
  <2>1. Stuck \in SUBSET Nat
    OBVIOUS
  <2>2. PICK m \in Stuck : \A k \in Stuck : m <= k
    <3> HIDE DEF Stuck
    <3> QED
      BY <2>1, Least
  <2>3. m \in 0 .. N /\ ~ \E r : Rounds(r, m)
    BY <2>2
  <2>4. CASE m = 0
    <3>1. Rounds([n \in 0 .. 0 |-> start], 0)
      OBVIOUS
    <3> QED
      BY <2>3, <2>4, <3>1
  <2>5. CASE m # 0
    <3>1. m - 1 \in 0 .. N /\ m \in Nat
      BY <2>3, <2>5
    <3>2. m - 1 \notin Stuck
      <4> HIDE DEF Stuck, N
      <4> QED
        BY <2>1, <2>2, <3>1
    <3>3. PICK h : Rounds(h, m - 1)
      BY <3>1, <3>2
    <3> DEFINE f == [n \in 0 .. m |-> IF n = m THEN Body(h, m) ELSE h[n]]
    <3>4. ASSUME NEW n \in 0 .. m
          PROVE  f[n] = Body(f, n)
      <4>1. CASE n = m
        <5>1. f[n] = Body(h, m) /\ f[m - 1] = h[m - 1]
          BY <4>1, <3>1, <2>5
        <5>2. Body(f, m) = Body(h, m)
          BY <5>1
        <5> QED
          BY <4>1, <5>1, <5>2
      <4>2. CASE n # m
        <5>1. n \in 0 .. m - 1 /\ f[n] = h[n]
          BY <4>2, <3>1
        <5>2. h[n] = Body(h, n)
          BY <5>1, <3>3
        <5>3. n # 0 => f[n - 1] = h[n - 1]
          BY <5>1, <3>1
        <5>4. Body(f, n) = Body(h, n)
          BY <5>3
        <5> HIDE DEF Body, f
        <5> QED
          BY <5>1, <5>2, <5>4
      <4> QED
        BY <4>1, <4>2
    <3>5. f = [n \in 0 .. m |-> f[n]]
      OBVIOUS
    <3>6. Rounds(f, m)
      <4> HIDE DEF f, Body
      <4> QED
        BY <3>4, <3>5
    <3> HIDE DEF f, Rounds
    <3> QED
      BY <2>3, <3>6
  <2> QED
    BY <2>4, <2>5
<1>2. \E r : r = [n \in 0 .. N |-> Body(r, n)]
  <2>1. N \in 0 .. N /\ N \notin Stuck
    BY <1>1
  <2> HIDE DEF N, Body
  <2> QED
    BY <2>1
<1> DEFINE R == CHOOSE r : r = [n \in 0 .. N |-> Body(r, n)]
<1>3. Distances(cs) = R[N]
  BY DEF Distances
<1>4. R = [n \in 0 .. N |-> Body(R, n)]
  <2> HIDE DEF N, Body
  <2> QED
    BY <1>2
<1> HIDE DEF R
<1>5. \A n : Body(R, n) = IF n = 0 THEN [p \in Points(cs) |-> 0] ELSE Relaxed(R[n - 1], cs)
  OBVIOUS
<1>6. R = [n \in 0 .. N |-> IF n = 0 THEN [p \in Points(cs) |-> 0] ELSE Relaxed(R[n - 1], cs)]
  <2> HIDE DEF Body
  <2> QED
    BY <1>4, <1>5
<1> QED
  BY <1>3, <1>6

(* Finitely many constraints relate finitely many time points.               *)
LEMMA PointsAreFinite ==
  ASSUME NEW cs, Bounded(cs)
  PROVE  IsFiniteSet(Points(cs)) /\ Cardinality(Points(cs)) \in Nat
<1> DEFINE f == [c \in cs |-> {c.src, c.dst}]
           pairs == {f[c] : c \in cs}
<1>1. Points(cs) = UNION pairs
  BY DEF Points
<1>2. IsFiniteSet(pairs)
  <2> HIDE DEF f
  <2> QED
    BY ImageIsFinite DEF Bounded
<1>3. \A T \in pairs : IsFiniteSet(T)
  <2> SUFFICES ASSUME NEW c \in cs PROVE IsFiniteSet({c.src, c.dst})
    OBVIOUS
  <2>1. {c.src, c.dst} = {c.src} \cup {c.dst}
    OBVIOUS
  <2>2. IsFiniteSet({c.src}) /\ IsFiniteSet({c.dst})
    BY FS_Singleton
  <2>3. IsFiniteSet({c.src} \cup {c.dst})
    BY <2>2, FS_Union
  <2> QED
    BY <2>1, <2>3
<1> HIDE DEF pairs
<1>4. IsFiniteSet(Points(cs))
  BY <1>1, <1>2, <1>3, FS_UNION
<1> QED
  BY <1>4, FS_CardinalityType

(* The distances of a network are numbers, none positive, and every schedule *)
(* stays below them: the dates are the earliest there are.                   *)
LEMMA DistancesAreLargest ==
  ASSUME NEW cs, Bounded(cs)
  PROVE  /\ Distances(cs) \in [Points(cs) -> Int]
         /\ \A p \in Points(cs) : Distances(cs)[p] <= 0
         /\ \A d : Schedule(d, cs) => \A p \in Points(cs) : d[p] <= Distances(cs)[p]
<1> DEFINE N == Cardinality(Points(cs))
           Above(e) == /\ e \in [Points(cs) -> Int]
                       /\ \A p \in Points(cs) : e[p] <= 0
                       /\ \A d : Schedule(d, cs) => \A p \in Points(cs) : d[p] <= e[p]
<1>1. N \in Nat
  BY PointsAreFinite
<1>2. PICK r :
        /\ r = [n \in 0 .. N |-> IF n = 0 THEN [p \in Points(cs) |-> 0] ELSE Relaxed(r[n - 1], cs)]
        /\ Distances(cs) = r[N]
  BY <1>1, DistancesUnfold
<1>3. Above([p \in Points(cs) |-> 0])
  BY DEF Schedule
<1>4. ASSUME NEW e, Above(e)
      PROVE  Above(Relaxed(e, cs))
  <2> DEFINE x == Relaxed(e, cs)
  <2>1. /\ x \in [Points(cs) -> Int]
        /\ \A p \in Points(cs) : x[p] <= e[p]
        /\ \A p \in Points(cs) : x[p] = e[p] \/ \E c \in cs : c.dst = p /\ x[p] = e[c.src] + c.bound
    BY <1>4, RelaxedType
  <2> HIDE DEF x
  <2>2. \A p \in Points(cs) : x[p] <= 0
    <3> SUFFICES ASSUME NEW p \in Points(cs) PROVE x[p] <= 0
      OBVIOUS
    <3>1. x[p] \in Int /\ e[p] \in Int /\ x[p] <= e[p] /\ e[p] <= 0
      BY <1>4, <2>1
    <3> QED
      BY <3>1
  <2>3. ASSUME NEW d, Schedule(d, cs), NEW p \in Points(cs)
        PROVE  d[p] <= x[p]
    <3>1. d[p] <= e[p] /\ d \in [Points(cs) -> Int]
      BY <1>4, <2>3 DEF Schedule
    <3>2. CASE x[p] = e[p]
      BY <3>1, <3>2
    <3>3. ASSUME NEW c \in cs, c.dst = p, x[p] = e[c.src] + c.bound
          PROVE  d[p] <= x[p]
      <4>1. c.src \in Points(cs)
        BY EndsArePoints
      <4>2. d[p] <= d[c.src] + c.bound
        BY <2>3, <3>3 DEF Schedule, Satisfied
      <4>3. d[c.src] <= e[c.src]
        BY <1>4, <2>3, <4>1
      <4>4. d[c.src] \in Int /\ e[c.src] \in Int /\ c.bound \in Int /\ d[p] \in Int
        BY <1>4, <3>1, <4>1 DEF Bounded
      <4> QED
        BY <3>3, <4>2, <4>3, <4>4
    <3> QED
      BY <2>1, <3>2, <3>3
  <2>4. \A d : Schedule(d, cs) => \A p \in Points(cs) : d[p] <= x[p]
    BY <2>3
  <2>5. Above(x)
    BY <2>1, <2>2, <2>4
  <2> QED
    BY <2>5 DEF x
<1> HIDE DEF Above
<1> DEFINE Bad == {n \in 0 .. N : ~Above(r[n])}
<1>5. Bad = {}
  <2> SUFFICES ASSUME Bad # {} PROVE FALSE
    OBVIOUS
  <2>1. Bad \in SUBSET Nat
    OBVIOUS
  <2>2. PICK n \in Bad : \A k \in Bad : n <= k
    <3> HIDE DEF Bad
    <3> QED
      BY <2>1, Least
  <2>3. n \in 0 .. N /\ ~Above(r[n])
    BY <2>2
  <2>4. n # 0
    <3>1. r[0] = [p \in Points(cs) |-> 0]
      <4>1. 0 \in 0 .. N
        BY <1>1
      <4> HIDE DEF N
      <4> QED
        BY <4>1, <1>2
    <3> QED
      BY <3>1, <2>3, <1>3
  <2>5. n - 1 \in 0 .. N
    BY <1>1, <2>3, <2>4
  <2>6. n - 1 \notin Bad
    <3> HIDE DEF Bad, N
    <3>1. n \in Nat
      BY <2>1
    <3> QED
      BY <3>1, <2>1, <2>2, <2>5
  <2>7. Above(r[n - 1])
    BY <2>5, <2>6
  <2>8. r[n] = Relaxed(r[n - 1], cs)
    <3> HIDE DEF N
    <3> QED
      BY <1>2, <2>3, <2>4
  <2> QED
    BY <2>3, <2>7, <2>8, <1>4
<1>6. N \in 0 .. N /\ N \notin Bad
  BY <1>1, <1>5
<1>7. Above(Distances(cs))
  <2> HIDE DEF N
  <2> QED
    BY <1>2, <1>6
<1> QED
  BY <1>7 DEF Above

(* More constraints make no date earlier.                                    *)
LEMMA DatesGrow ==
  ASSUME NEW cs, NEW more, Bounded(more), cs \subseteq more, Sat(Network(more)), NEW p \in Points(cs)
  PROVE  /\ p \in Points(more)
         /\ Distances(more)[p] \in Int /\ Distances(cs)[p] \in Int
         /\ Distances(more)[p] <= Distances(cs)[p]
<1>1. Bounded(cs)
  BY FS_Subset DEF Bounded
<1>2. Points(cs) \subseteq Points(more)
  BY DEF Points
<1> DEFINE d == Distances(more)
           e == [q \in Points(cs) |-> d[q]]
<1>3. /\ d \in [Points(more) -> Int]
      /\ \A q \in Points(more) : d[q] <= 0
      /\ Satisfied(d, more)
  BY DistancesAreLargest DEF Sat, Network
<1> HIDE DEF d
<1>4. e \in [Points(cs) -> Int] /\ \A q \in Points(cs) : e[q] <= 0
  BY <1>2, <1>3
<1>5. Satisfied(e, cs)
  <2> SUFFICES ASSUME NEW c \in cs PROVE e[c.dst] <= e[c.src] + c.bound
    BY DEF Satisfied
  <2>1. c.src \in Points(cs) /\ c.dst \in Points(cs)
    BY EndsArePoints
  <2> QED
    BY <2>1, <1>3 DEF Satisfied
<1> HIDE DEF e
<1>6. e[p] <= Distances(cs)[p]
  BY <1>1, <1>4, <1>5, DistancesAreLargest DEF Schedule
<1>7. e[p] = d[p]
  BY DEF e
<1>8. Distances(cs)[p] \in Int
  BY <1>1, DistancesAreLargest
<1> QED
  BY <1>2, <1>3, <1>6, <1>7, <1>8 DEF d

(* Constraints taken together are as finite as they are apart.               *)
LEMMA BoundedTogether ==
  ASSUME NEW A, NEW B, Bounded(A), Bounded(B)
  PROVE  Bounded(A \cup B)
BY FS_Union DEF Bounded

(* One constraint.                                                            *)
LEMMA BoundedBefore ==
  ASSUME NEW p, NEW q, NEW w \in Int
  PROVE  Bounded({Before(p, q, w)})
<1>1. Before(p, q, w).bound \in Int
  BY DEF Before
<1>2. IsFiniteSet({Before(p, q, w)})
  BY FS_Singleton
<1> QED
  BY <1>1, <1>2 DEF Bounded

(* An interval.                                                              *)
LEMMA BoundedBetween ==
  ASSUME NEW p, NEW q, NEW l \in Int, NEW u \in Int
  PROVE  Bounded(Between(p, q, l, u))
<1>1. Between(p, q, l, u) = {Before(p, q, l)} \cup {Before(q, p, -u)}
  BY DEF Between
<1>2. Bounded({Before(p, q, l)}) /\ Bounded({Before(q, p, -u)})
  BY BoundedBefore
<1> QED
  BY <1>1, <1>2, BoundedTogether

(* Finitely many groups of constraints.                                      *)
LEMMA BoundedUnion ==
  ASSUME NEW S, IsFiniteSet(S), NEW f, \A x \in S : Bounded(f[x])
  PROVE  Bounded(UNION {f[x] : x \in S})
<1> DEFINE T == {f[x] : x \in S}
<1>1. IsFiniteSet(T)
  BY ImageIsFinite
<1>2. \A cs \in T : IsFiniteSet(cs)
  BY DEF Bounded
<1>3. IsFiniteSet(UNION T)
  <2> HIDE DEF T
  <2> QED
    BY <1>1, <1>2, FS_UNION
<1> QED
  BY <1>3 DEF Bounded

-----------------------------------------------------------------------------
(* The order of a branch.                                                    *)

(* The gap between two events is 0 or epsilon.                               *)
LEMMA GapType ==
  ASSUME problem \in Problems, NEW a, NEW i, NEW b, NEW j
  PROVE  Gap(a, i, b, j) \in Nat
BY ProblemOK DEF Gap

(* The events of a branch are time points of its network.                    *)
LEMMA PointsOfPath ==
  ASSUME NEW path \in Seq(Step), NEW n \in DOMAIN path
  PROVE  PointOf(path[n]) \in TimePoint
<1>1. path[n] \in Step
  OBVIOUS
<1> QED
  BY <1>1 DEF Step, PointOf, EventOf, TimePoint

(* The two edges added from the path order the new event after all of it.    *)
LEMMA AfterPathSuffices ==
  ASSUME problem \in Problems,
         NEW a \in Action, NEW i \in Nat, NEW k \in Nat,
         NEW path \in Seq(Step),
         NEW t \in [TimePoint -> Int], Satisfied(t, AfterPath(path, a, i, k)),
         \A n \in DOMAIN path : \A m \in 1 .. n - 1 :
           t[PointOf(path[n])]
             <= t[PointOf(path[m])]
                  - Gap(path[n].action, path[n].pos, path[m].action, path[m].pos),
         NEW m \in DOMAIN path
  PROVE  t[EventOf(a, k, i)] <= t[PointOf(path[m])] - Gap(a, i, path[m].action, path[m].pos)
<1> DEFINE T(n) == t[PointOf(path[n])]
           G(n) == Gap(a, i, path[n].action, path[n].pos)
           new == t[EventOf(a, k, i)]
           rivals == {n \in DOMAIN path : Mutex(a, i, path[n].action, path[n].pos)}
           linked == {n \in DOMAIN path : n = Len(path) \/ (rivals # {} /\ n = Max(rivals))}
<1>1. new \in Int /\ (\A n \in DOMAIN path : T(n) \in Int /\ G(n) \in Nat)
  <2>1. EventOf(a, k, i) \in TimePoint
    BY DEF EventOf, TimePoint
  <2> QED
    BY <2>1, PointsOfPath, GapType
<1>2. \A n, l \in DOMAIN path : l < n => T(n) <= T(l)
  <2> SUFFICES ASSUME NEW n \in DOMAIN path, NEW l \in DOMAIN path, l < n
               PROVE  T(n) <= T(l)
    OBVIOUS
  <2>1. T(n) <= T(l) - Gap(path[n].action, path[n].pos, path[l].action, path[l].pos)
    OBVIOUS
  <2>2. Gap(path[n].action, path[n].pos, path[l].action, path[l].pos) \in Nat
    BY GapType
  <2> QED
    BY <1>1, <2>1, <2>2
<1>3. \A n \in linked : new <= T(n) - G(n)
  <2> SUFFICES ASSUME NEW n \in linked
               PROVE  new <= T(n) - G(n)
    OBVIOUS
  <2>1. Before(PointOf(path[n]), EventOf(a, k, i), G(n)) \in AfterPath(path, a, i, k)
    BY DEF AfterPath
  <2>2. new <= T(n) + (-G(n))
    BY <2>1 DEF Satisfied, Before
  <2> QED
    BY <1>1, <2>2
<1>4. CASE Mutex(a, i, path[m].action, path[m].pos)
  <2>1. rivals \in SUBSET (1 .. Len(path)) /\ rivals # {} /\ Len(path) \in Nat
    BY <1>4
  <2>2. Max(rivals) \in rivals /\ m <= Max(rivals)
    BY <2>1, <1>4, Greatest
  <2>3. new <= T(Max(rivals)) - G(Max(rivals))
    BY <2>1, <2>2, <1>3
  <2>4. G(Max(rivals)) = G(m)
    BY <2>2, <1>4 DEF Gap
  <2>5. T(Max(rivals)) <= T(m)
    BY <2>2, <1>1, <1>2
  <2> HIDE DEF T, G, new, rivals
  <2>6. Max(rivals) \in DOMAIN path
    BY <2>2 DEF rivals
  <2>7. new <= T(m) - G(m)
    BY <2>3, <2>4, <2>5, <2>6, <1>1
  <2> QED
    BY <2>7 DEF T, G, new
<1>5. CASE ~Mutex(a, i, path[m].action, path[m].pos)
  <2>1. G(m) = 0
    BY <1>5 DEF Gap
  <2>2. Len(path) \in linked /\ m <= Len(path)
    OBVIOUS
  <2>3. new <= T(Len(path)) - G(Len(path))
    BY <2>2, <1>3
  <2>4. T(Len(path)) <= T(m)
    BY <2>2, <1>1, <1>2
  <2>5. Len(path) \in DOMAIN path
    BY <2>2
  <2> HIDE DEF T, G, new, linked
  <2>6. new <= T(m) - G(m)
    BY <2>1, <2>3, <2>4, <2>5, <1>1
  <2> QED
    BY <2>6 DEF T, G, new
<1> QED
  BY <1>4, <1>5

-----------------------------------------------------------------------------
(* The child of a good state is good.                                        *)
LEMMA ExpandOK ==
  ASSUME problem \in Problems,
         NEW s, StateOK(s),
         NEW a \in Known, NEW i \in From(a, 1), NEW k \in Nat, MayStart(a, i, s),
         NEW todo, TodoOK(todo), NEW g, NEW opening,
         NEW c \in Expand(s, todo, g, a, i, k, opening)
  PROVE  StateOK(c)
<1> DEFINE new == [action |-> a, pos |-> i, id |-> k]
<1>0. Shaped(c)
  BY DEF Expand, Shaped
<1>1. /\ c.assignments = AfterEffects(a, i, s.assignments)
      /\ c.todo = todo
      /\ c.active = ActiveAfter(a, i, s.active)
      /\ c.path = Append(s.path, new)
      /\ s.tn.constraints \subseteq c.tn.constraints
      /\ AfterPath(s.path, a, i, k) \subseteq c.tn.constraints
      /\ ActiveHold(a, i, s, ActiveAfter(a, i, s.active))
  BY DEF Expand, Network
<1>2. c.assignments \in Assignment
  BY <1>1, AfterEffectsType DEF StateOK
<1>3. a \in Action /\ i \in Nat /\ new \in Step
  BY ProblemOK DEF From, Step
<1>4. c.path \in Seq(Step)
  BY <1>1, <1>3 DEF StateOK
<1>5. Kept(c)
  BY <1>1, ExpandKeeps DEF Kept, StateOK
<1>6. Ordered(c)
  <2> SUFFICES ASSUME NEW t \in [TimePoint -> Int], Satisfied(t, c.tn.constraints),
                      NEW n \in DOMAIN c.path, NEW m \in 1 .. n - 1
               PROVE  t[PointOf(c.path[n])]
                        <= t[PointOf(c.path[m])]
                             - Gap(c.path[n].action, c.path[n].pos,
                                   c.path[m].action, c.path[m].pos)
    BY DEF Ordered
  <2>1. Satisfied(t, s.tn.constraints) /\ Satisfied(t, AfterPath(s.path, a, i, k))
    BY <1>1 DEF Satisfied
  <2>2. \A x \in DOMAIN s.path : \A y \in 1 .. x - 1 :
          t[PointOf(s.path[x])]
            <= t[PointOf(s.path[y])]
                 - Gap(s.path[x].action, s.path[x].pos, s.path[y].action, s.path[y].pos)
    BY <2>1 DEF Ordered, StateOK
  <2>3. s.path \in Seq(Step)
    BY DEF StateOK
  <2>4. m \in DOMAIN s.path /\ c.path[m] = s.path[m]
    BY <1>1, <1>3, <2>3
  <2>5. CASE n \in DOMAIN s.path
    <3>1. c.path[n] = s.path[n]
      BY <1>1, <1>3, <2>3, <2>5
    <3> QED
      BY <2>2, <2>4, <2>5, <3>1
  <2>6. CASE n \notin DOMAIN s.path
    <3>1. c.path[n] = new
      BY <1>1, <1>3, <2>3, <2>6
    <3>2. PointOf(c.path[n]) = EventOf(a, k, i) /\ c.path[n].action = a /\ c.path[n].pos = i
      BY <3>1 DEF PointOf
    <3>3. t[EventOf(a, k, i)]
            <= t[PointOf(s.path[m])] - Gap(a, i, s.path[m].action, s.path[m].pos)
      BY <1>3, <2>1, <2>2, <2>3, <2>4, AfterPathSuffices
    <3> QED
      BY <2>4, <3>2, <3>3
  <2> QED
    BY <2>5, <2>6
<1> QED
  BY <1>0, <1>1, <1>2, <1>4, <1>5, <1>6 DEF StateOK

(* Moving an action in progress to its next event keeps what is in progress  *)
(* well formed.                                                              *)
LEMMA AdvancedOK ==
  ASSUME problem \in Problems, NEW todo, TodoOK(todo),
         NEW a \in Known, NEW next \in Nat \ {0}, NEW id \in Nat
  PROVE  TodoOK(Advanced(todo, a, next, id))
<1>1. CASE next > Len(Events(a))
  BY <1>1 DEF Advanced, Without, TodoOK
<1>2. CASE ~(next > Len(Events(a)))
  <2>1. next \in From(a, 1)
    BY <1>2, ProblemOK DEF From
  <2> QED
    BY <1>2, <2>1 DEF Advanced, TodoOK
<1> QED
  BY <1>1, <1>2

(* The id given to a new instance is a natural number.                       *)
LEMMA FreshIdType ==
  ASSUME NEW s, s.path \in Seq(Step)
  PROVE  FreshId(s) \in Nat
<1> DEFINE S == {n \in DOMAIN s.path : s.path[n].pos = 1}
<1>1. S \subseteq 1 .. Len(s.path) /\ Len(s.path) \in Nat
  OBVIOUS
<1>2. IsFiniteSet(1 .. Len(s.path))
  BY <1>1, FS_Interval
<1>3. IsFiniteSet(S)
  <2> HIDE DEF S
  <2> QED
    BY <1>1, <1>2, FS_Subset
<1>4. Cardinality(S) \in Nat
  <2> HIDE DEF S
  <2> QED
    BY <1>3, FS_CardinalityType
<1> QED
  BY <1>4 DEF FreshId

(* Opening an action gives a sound state.                                    *)
LEMMA OpenOK ==
  ASSUME problem \in Problems, NEW s, StateOK(s),
         NEW a \in Known, MayStart(a, 1, s), NEW g, NEW c \in Open(s, a, g)
  PROVE  StateOK(c)
<1>1. FreshId(s) \in Nat
  BY FreshIdType DEF StateOK
<1>2. TodoOK(Advanced(s.todo, a, 2, FreshId(s)))
  BY <1>1, AdvancedOK DEF StateOK
<1>3. 1 \in From(a, 1)
  BY ProblemOK DEF From
<1> QED
  BY <1>1, <1>2, <1>3, ExpandOK DEF Open

(* Opening an action that is applicable gives a sound state.                 *)
LEMMA OpenedOK ==
  ASSUME problem \in Problems, NEW s, StateOK(s),
         NEW a \in Known, NEW c \in Opened(s, a)
  PROVE  StateOK(c)
BY OpenOK DEF Opened, Applicable

(* Applying the next event of an action in progress gives a sound state.     *)
LEMMA ContinuedOK ==
  ASSUME problem \in Problems, NEW s, StateOK(s),
         NEW a \in DOMAIN s.todo, NEW c \in Continued(s, a)
  PROVE  StateOK(c)
<1> DEFINE i == s.todo[a].next
           k == s.todo[a].id
<1>1. a \in Known /\ i \in From(a, 1) /\ k \in Nat
  BY DEF StateOK, TodoOK
<1>2. i + 1 \in Nat \ {0}
  BY <1>1 DEF From
<1>3. TodoOK(Advanced(s.todo, a, i + 1, k))
  <2> HIDE DEF i, k
  <2> QED
    BY <1>1, <1>2, AdvancedOK DEF StateOK
<1>4. /\ MayStart(a, i, s)
      /\ c \in Expand(s, Advanced(s.todo, a, i + 1, k), s.g + 1, a, i, k, {})
  BY DEF Continued, Applicable
<1> QED
  BY <1>1, <1>3, <1>4, ExpandOK

(* The state no event has happened in is sound.                              *)
LEMMA RootOK ==
  ASSUME problem \in Problems
  PROVE  StateOK(Root)
<1>1. Root.assignments \in Assignment
  BY ProblemOK DEF Root
<1>0. Shaped(Root)
  BY DEF Root, Shaped
<1>2. Root.path = <<>> /\ Root.todo = <<>> /\ BagToSet(Root.active) = {}
  BY DEF Root, EmptyBag, SetToBag, BagToSet
<1> QED
  BY <1>0, <1>1, <1>2 DEF StateOK, TodoOK, Kept, Ordered

(* The initial state, the first timed event applied, is sound.               *)
LEMMA InitialOK ==
  ASSUME problem \in Problems, NEW s \in InitialStates
  PROVE  StateOK(s)
<1>1. CASE problem.timed = NoTimed
  BY <1>1, RootOK DEF InitialStates
<1>2. CASE problem.timed # NoTimed
  <2>1. problem.timed \in Known
    BY <1>2 DEF Known
  <2>2. MayStart(problem.timed, 1, Root) /\ s \in Open(Root, problem.timed, 0)
    BY <1>2 DEF InitialStates, Applicable
  <2> QED
    BY <2>1, <2>2, RootOK, OpenOK
<1> QED
  BY <1>1, <1>2

-----------------------------------------------------------------------------
(* The states a compressed action goes through, as equations.                *)
LEMMA FinishUnfolds ==
  ASSUME problem \in Problems, NEW s, NEW a \in Known
  PROVE  \E f :
           /\ f = [i \in From(a, 1) |->
                    IF i = 1 THEN {[s EXCEPT !.todo = Without(s.todo, a)]}
                    ELSE UNION {Expand(c, c.todo, c.g + 1, a, i, s.todo[a].id, {}) :
                                  c \in {r \in f[i - 1] : MayStart(a, i, r)}}]
           /\ Finish(s, a) = f[Len(Events(a))]
<1> DEFINE N == Len(Events(a))
           Body(f, i) == IF i = 1 THEN {[s EXCEPT !.todo = Without(s.todo, a)]}
                         ELSE UNION {Expand(c, c.todo, c.g + 1, a, i, s.todo[a].id, {}) :
                                       c \in {r \in f[i - 1] : MayStart(a, i, r)}}
           Stuck == {n \in 1 .. N : ~ \E f : f = [i \in 1 .. n |-> Body(f, i)]}
<1>1. N \in Nat \ {0}
  BY ProblemOK
<1>2. Stuck = {}
  <2> SUFFICES ASSUME Stuck # {}
               PROVE  FALSE
    OBVIOUS
  <2>1. Stuck \in SUBSET Nat
    BY <1>1
  <2>2. PICK n \in Stuck : \A k \in Stuck : n <= k
    <3> HIDE DEF Stuck
    <3> QED
      BY <2>1, Least
  <2>3. n \in 1 .. N /\ ~ \E f : f = [i \in 1 .. n |-> Body(f, i)]
    BY <2>2
  <2>4. CASE n = 1
    <3> DEFINE f == [i \in 1 .. 1 |-> {[s EXCEPT !.todo = Without(s.todo, a)]}]
    <3>1. f = [i \in 1 .. 1 |-> Body(f, i)]
      OBVIOUS
    <3> QED
      BY <2>3, <2>4, <3>1
  <2>5. CASE n # 1
    <3>1. n - 1 \in 1 .. N /\ n \in Nat
      BY <2>3, <2>5, <1>1
    <3>2. n - 1 \notin Stuck
      <4> HIDE DEF Stuck, N
      <4> QED
        BY <2>1, <2>2, <3>1
    <3>3. PICK h : h = [i \in 1 .. n - 1 |-> Body(h, i)]
      BY <3>1, <3>2
    <3> DEFINE f == [i \in 1 .. n |-> IF i = n THEN Body(h, n) ELSE h[i]]
    <3>4. ASSUME NEW i \in 1 .. n
          PROVE  f[i] = Body(f, i)
      <4>1. CASE i = 1
        <5>1. f[i] = h[1] /\ 1 \in 1 .. n - 1
          BY <4>1, <2>5, <3>1
        <5>2. h[1] = Body(h, 1)
          BY <3>3, <5>1
        <5> QED
          BY <5>1, <5>2, <4>1
      <4>2. CASE i # 1
        <5>1. i - 1 \in 1 .. n - 1 /\ i - 1 # n /\ i - 1 \in 1 .. n
          BY <4>2, <3>1
        <5>2. f[i - 1] = h[i - 1]
          BY <5>1
        <5>3. Body(f, i) = Body(h, i)
          BY <5>2, <4>2
        <5>4. CASE i = n
          BY <5>3, <5>4
        <5>5. CASE i # n
          <6>1. i \in 1 .. n - 1
            BY <5>5, <3>1
          <6>2. h[i] = Body(h, i)
            BY <6>1, <3>3
          <6> QED
            BY <5>3, <5>5, <6>2
        <5> QED
          BY <5>4, <5>5
      <4> QED
        BY <4>1, <4>2
    <3>5. f = [i \in 1 .. n |-> Body(f, i)]
      <4>1. f = [i \in 1 .. n |-> f[i]]
        OBVIOUS
      <4> HIDE DEF f, Body
      <4> QED
        BY <3>4, <4>1
    <3> HIDE DEF f
    <3> QED
      BY <2>3, <3>5
  <2> QED
    BY <2>4, <2>5
<1>3. \E f : f = [i \in 1 .. N |-> Body(f, i)]
  <2>1. N \in 1 .. N
    BY <1>1
  <2>2. N \notin Stuck
    <3> HIDE DEF Stuck
    <3> QED
      BY <1>2
  <2> HIDE DEF N, Body
  <2> QED
    BY <2>1, <2>2
<1> QED
  BY <1>3 DEF Finish, From

(* A compressed action, all its events applied in a row, gives a sound       *)
(* state.                                                                    *)
LEMMA FinishOK ==
  ASSUME problem \in Problems, NEW s, StateOK(s),
         NEW a \in DOMAIN s.todo, NEW c \in Finish(s, a)
  PROVE  StateOK(c)
<1> DEFINE N == Len(Events(a))
           k == s.todo[a].id
<1>1. a \in Known /\ k \in Nat
  BY DEF StateOK, TodoOK
<1>2. N \in Nat \ {0}
  BY <1>1, ProblemOK
<1>3. PICK f :
        /\ f = [i \in From(a, 1) |->
                 IF i = 1 THEN {[s EXCEPT !.todo = Without(s.todo, a)]}
                 ELSE UNION {Expand(r, r.todo, r.g + 1, a, i, k, {}) :
                               r \in {q \in f[i - 1] : MayStart(a, i, q)}}]
        /\ Finish(s, a) = f[N]
  BY <1>1, FinishUnfolds
<1> DEFINE Bad == {n \in 1 .. N : \E r \in f[n] : ~StateOK(r)}
<1>4. Bad = {}
  <2> SUFFICES ASSUME Bad # {}
               PROVE  FALSE
    OBVIOUS
  <2>1. Bad \in SUBSET Nat
    BY <1>2
  <2>2. PICK n \in Bad : \A m \in Bad : n <= m
    <3> HIDE DEF Bad
    <3> QED
      BY <2>1, Least
  <2>3. PICK r \in f[n] : ~StateOK(r)
    BY <2>2
  <2>4. n \in 1 .. N /\ n \in From(a, 1)
    BY <2>2 DEF From
  <2>5. CASE n = 1
    <3>1. r = [s EXCEPT !.todo = Without(s.todo, a)]
      BY <1>3, <2>3, <2>4, <2>5
    <3>2. /\ r.assignments = s.assignments /\ r.path = s.path /\ r.active = s.active
          /\ r.tn = s.tn /\ r.todo = Without(s.todo, a) /\ Shaped(r)
      BY <3>1 DEF StateOK, Shaped
    <3>3. TodoOK(r.todo)
      BY <3>2 DEF StateOK, TodoOK, Without
    <3> QED
      BY <2>3, <3>2, <3>3 DEF StateOK, Kept, Ordered
  <2>6. CASE n # 1
    <3>1. n - 1 \in 1 .. N /\ n - 1 < n
      BY <2>4, <2>6, <1>2
    <3>2. n - 1 \notin Bad
      <4> HIDE DEF Bad, N
      <4> QED
        BY <2>1, <2>2, <3>1
    <3> HIDE DEF k
    <3>5. f[n] = UNION {Expand(q, q.todo, q.g + 1, a, n, k, {}) :
                          q \in {x \in f[n - 1] : MayStart(a, n, x)}}
      BY <1>3, <2>4, <2>6
    <3>3. PICK q \in f[n - 1] : MayStart(a, n, q) /\ r \in Expand(q, q.todo, q.g + 1, a, n, k, {})
      BY <2>3, <3>5
    <3>4. StateOK(q)
      BY <3>1, <3>2, <3>3
    <3>6. TodoOK(q.todo)
      BY <3>4 DEF StateOK
    <3> QED
      BY <1>1, <2>3, <2>4, <3>3, <3>4, <3>6, ExpandOK
  <2> QED
    BY <2>5, <2>6
<1>5. N \in 1 .. N /\ N \notin Bad
  BY <1>2, <1>4
<1> QED
  BY <1>3, <1>5

(* An action with several events is left in `todo` when it is opened. *)
LEMMA OpenedInTodo ==
  ASSUME NEW s, NEW a, Len(Events(a)) > 1, Len(Events(a)) \in Nat, NEW c \in Opened(s, a)
  PROVE  a \in DOMAIN c.todo
<1>1. c.todo = Advanced(s.todo, a, 2, FreshId(s))
  BY DEF Opened, Open, Expand
<1>2. ~(2 > Len(Events(a)))
  OBVIOUS
<1> QED
  BY <1>1, <1>2 DEF Advanced

(* Every successor of a sound state is sound.                                *)
LEMMA SuccessorsOK ==
  ASSUME problem \in Problems, NEW s, StateOK(s), NEW a \in Known,
         NEW compress, NEW c \in Successors(s, a, compress)
  PROVE  StateOK(c)
<1>1. CASE a \in DOMAIN s.todo
  BY <1>1, ContinuedOK DEF Successors
<1>2. CASE a \notin DOMAIN s.todo /\ c \in Opened(s, a)
  BY <1>2, OpenedOK
<1>3. CASE /\ a \notin DOMAIN s.todo
           /\ Len(Events(a)) > 1
           /\ c \in UNION {Finish(r, a) : r \in Opened(s, a)}
  <2>1. PICK r \in Opened(s, a) : c \in Finish(r, a)
    BY <1>3
  <2>2. StateOK(r)
    BY <2>1, OpenedOK
  <2>3. a \in DOMAIN r.todo
    BY <1>3, <2>1, ProblemOK, OpenedInTodo
  <2> QED
    BY <2>1, <2>2, <2>3, FinishOK
<1> QED
  BY <1>1, <1>2, <1>3 DEF Successors

-----------------------------------------------------------------------------
(* The network of a branch: finitely many constraints on the time points of  *)
(* its actions, the events fired among them, with the distances of a         *)
(* schedule as soon as there is one.                                         *)
Tied(cs) == Bounded(cs) /\ \A c \in cs : c.src \in TimePoint /\ c.dst \in TimePoint

NetOK(s) ==
  /\ s.tn = Network(s.tn.constraints)
  /\ Tied(s.tn.constraints)
  /\ IsFiniteSet(DOMAIN s.todo)
  /\ s.path = <<>> => DOMAIN s.todo = {}
  /\ s.path # <<>> => Sat(s.tn)
  /\ \A n \in DOMAIN s.path : PointOf(s.path[n]) \in Points(s.tn.constraints)

(* The branch of c continues that of s, and nothing in it happens earlier.   *)
Grows(s, c) ==
  /\ Makespan(c) >= Makespan(s)
  /\ \A n \in DOMAIN s.path :
       /\ n \in DOMAIN c.path
       /\ c.path[n] = s.path[n]
       /\ Date(c.tn, PointOf(s.path[n])) >= Date(s.tn, PointOf(s.path[n]))

(* The time points of an action and of its events.                           *)
LEMMA TimePoints ==
  ASSUME NEW a \in Action, NEW k \in Nat, NEW i \in Nat
  PROVE  /\ PlanStart \in TimePoint /\ PlanEnd \in TimePoint
         /\ StartOf(a, k) \in TimePoint /\ EndOf(a, k) \in TimePoint
         /\ EventOf(a, k, i) \in TimePoint
BY DEF PlanStart, PlanEnd, StartOf, EndOf, EventOf, TimePoint

(* Groups of constraints on time points, taken together, are on time points. *)
LEMMA TiedTogether ==
  ASSUME NEW A, NEW B, Tied(A), Tied(B)
  PROVE  Tied(A \cup B)
BY BoundedTogether DEF Tied

(* One constraint between two time points.                                   *)
LEMMA TiedBefore ==
  ASSUME NEW p \in TimePoint, NEW q \in TimePoint, NEW w \in Int
  PROVE  Tied({Before(p, q, w)})
<1>1. Before(p, q, w).src = p /\ Before(p, q, w).dst = q
  BY DEF Before
<1> QED
  BY <1>1, BoundedBefore DEF Tied

(* An interval between two time points.                                      *)
LEMMA TiedBetween ==
  ASSUME NEW p \in TimePoint, NEW q \in TimePoint, NEW l \in Int, NEW u \in Int
  PROVE  Tied(Between(p, q, l, u))
<1>1. Between(p, q, l, u) = {Before(p, q, l)} \cup {Before(q, p, -u)}
  BY DEF Between
<1>2. Tied({Before(p, q, l)}) /\ Tied({Before(q, p, -u)})
  BY TiedBefore
<1> QED
  BY <1>1, <1>2, TiedTogether

(* Finitely many groups.                                                     *)
LEMMA TiedUnion ==
  ASSUME NEW S, IsFiniteSet(S), NEW f, \A x \in S : Tied(f[x])
  PROVE  Tied(UNION {f[x] : x \in S})
BY BoundedUnion DEF Tied

(* The events an action has.                                                 *)
LEMMA EventsAreFinite ==
  ASSUME problem \in Problems, NEW a \in Known, NEW i \in Nat \ {0}
  PROVE  /\ From(a, i) \subseteq From(a, 1)
         /\ From(a, i) \subseteq Nat
         /\ IsFiniteSet(From(a, i))
<1>1. Len(Events(a)) \in Nat
  BY ProblemOK
<1> QED
  BY <1>1, FS_Interval DEF From

(* Opening an action ties its start, its end and its events, the first one   *)
(* among them, to each other and to the plan.                                *)
LEMMA OpeningTied ==
  ASSUME problem \in Problems, NEW a \in Known, NEW k \in Nat, NEW v \in Assignment
  PROVE  /\ Tied(OpeningConstraints(a, k, v))
         /\ EventOf(a, k, 1) \in Points(OpeningConstraints(a, k, v))
<1>1. a \in Action /\ problem.epsilon \in Int /\ Len(Events(a)) \in Nat \ {0}
  BY ProblemOK
<1>2. \A i \in Nat : /\ StartOf(a, k) \in TimePoint /\ EndOf(a, k) \in TimePoint
                     /\ EventOf(a, k, i) \in TimePoint
                     /\ PlanStart \in TimePoint /\ PlanEnd \in TimePoint
  BY <1>1, TimePoints
<1>3. Tied(Lasting(a, k, v))
  <2> DEFINE d == problem.duration[a]
             l == d.lower[v] + (IF d.leftOpen THEN problem.epsilon ELSE 0)
             u == d.upper[v] - (IF d.rightOpen THEN problem.epsilon ELSE 0)
  <2>1. d.lower[v] \in Int /\ d.upper[v] \in Int
    BY ProblemOK
  <2>2. l \in Int /\ u \in Int
    BY <1>1, <2>1
  <2>3. Lasting(a, k, v) = Between(StartOf(a, k), EndOf(a, k), l, u)
    BY DEF Lasting
  <2>4. StartOf(a, k) \in TimePoint /\ EndOf(a, k) \in TimePoint
    BY <1>2
  <2> HIDE DEF l, u
  <2> QED
    BY <2>2, <2>3, <2>4, TiedBetween
<1> DEFINE anchor(i) == IF Events(a)[i].fromStart THEN StartOf(a, k) ELSE EndOf(a, k)
           fixed(i) == Between(anchor(i), EventOf(a, k, i), Events(a)[i].delay, Events(a)[i].delay)
           f == [i \in From(a, 1) |-> fixed(i)]
<1>4. Anchored(a, k) = UNION {f[i] : i \in From(a, 1)}
  BY DEF Anchored
<1>5. \A i \in From(a, 1) : Tied(f[i])
  <2> SUFFICES ASSUME NEW i \in From(a, 1) PROVE Tied(fixed(i))
    OBVIOUS
  <2>1. i \in Nat /\ Events(a)[i].delay \in Int
    BY ProblemOK, EventsAreFinite
  <2>2. anchor(i) \in TimePoint /\ EventOf(a, k, i) \in TimePoint
    BY <1>2, <2>1
  <2> HIDE DEF anchor
  <2> QED
    BY <2>1, <2>2, TiedBetween
<1>6. Tied(Anchored(a, k))
  <2>1. IsFiniteSet(From(a, 1))
    BY EventsAreFinite
  <2> HIDE DEF f, fixed, anchor
  <2>2. Tied(UNION {f[i] : i \in From(a, 1)})
    BY <1>5, <2>1, TiedUnion
  <2> QED
    BY <1>4, <2>2
<1>7. Tied({Before(PlanStart, StartOf(a, k), 0), Before(EndOf(a, k), PlanEnd, problem.epsilon)})
  <2>1. Tied({Before(PlanStart, StartOf(a, k), 0)} \cup {Before(EndOf(a, k), PlanEnd, problem.epsilon)})
    <3>1. PlanStart \in TimePoint /\ PlanEnd \in TimePoint
          /\ StartOf(a, k) \in TimePoint /\ EndOf(a, k) \in TimePoint
      BY <1>2
    <3>2. Tied({Before(PlanStart, StartOf(a, k), 0)})
      BY <3>1, TiedBefore
    <3>3. Tied({Before(EndOf(a, k), PlanEnd, problem.epsilon)})
      BY <1>1, <3>1, TiedBefore
    <3> QED
      BY <3>2, <3>3, TiedTogether
  <2>2. {Before(PlanStart, StartOf(a, k), 0), Before(EndOf(a, k), PlanEnd, problem.epsilon)}
          = {Before(PlanStart, StartOf(a, k), 0)} \cup {Before(EndOf(a, k), PlanEnd, problem.epsilon)}
    OBVIOUS
  <2> QED
    BY <2>1, <2>2
<1>8. Tied(IF a = problem.timed THEN {Before(StartOf(a, k), PlanStart, 0)} ELSE {})
  <2>1. Tied({Before(StartOf(a, k), PlanStart, 0)})
    BY <1>2, TiedBefore
  <2>2. Tied({})
    BY FS_EmptySet DEF Tied, Bounded
  <2> QED
    BY <2>1, <2>2
<1>9. Tied(OpeningConstraints(a, k, v))
  BY <1>3, <1>6, <1>7, <1>8, TiedTogether DEF OpeningConstraints
<1>10. EventOf(a, k, 1) \in Points(OpeningConstraints(a, k, v))
  <2>1. 1 \in From(a, 1)
    BY <1>1 DEF From
  <2> DEFINE c == Before(anchor(1), EventOf(a, k, 1), Events(a)[1].delay)
  <2>2. c \in f[1] /\ c.dst = EventOf(a, k, 1)
    BY <2>1 DEF Between, Before
  <2> HIDE DEF c, f
  <2>3. c \in OpeningConstraints(a, k, v)
    BY <1>4, <2>1, <2>2 DEF OpeningConstraints
  <2> QED
    BY <2>2, <2>3, EndsArePoints
<1> QED
  BY <1>9, <1>10

(* The edges from the path tie time points.                                  *)
LEMMA AfterPathTied ==
  ASSUME problem \in Problems, NEW path \in Seq(Step),
         NEW a \in Action, NEW i \in Nat, NEW k \in Nat
  PROVE  Tied(AfterPath(path, a, i, k))
<1> DEFINE rivals == {n \in DOMAIN path : Mutex(a, i, path[n].action, path[n].pos)}
           linked == {m \in DOMAIN path : m = Len(path) \/ (rivals # {} /\ m = Max(rivals))}
           edge(n) == Before(PointOf(path[n]), EventOf(a, k, i), Gap(a, i, path[n].action, path[n].pos))
           f == [n \in DOMAIN path |-> edge(n)]
<1>1. AfterPath(path, a, i, k) = {f[n] : n \in linked}
  BY DEF AfterPath
<1>2. IsFiniteSet(linked)
  <2>1. DOMAIN path = 1 .. Len(path) /\ Len(path) \in Nat
    OBVIOUS
  <2>2. IsFiniteSet(DOMAIN path)
    BY <2>1, FS_Interval
  <2> HIDE DEF rivals
  <2> QED
    BY <2>2, FS_Subset
<1>3. \A n \in DOMAIN path : Tied({f[n]})
  <2> SUFFICES ASSUME NEW n \in DOMAIN path PROVE Tied({edge(n)})
    OBVIOUS
  <2>1. PointOf(path[n]) \in TimePoint
    BY PointsOfPath
  <2>2. EventOf(a, k, i) \in TimePoint
    BY TimePoints
  <2>3. Gap(a, i, path[n].action, path[n].pos) \in Int
    BY GapType
  <2> QED
    BY <2>1, <2>2, <2>3, TiedBefore
<1> HIDE DEF f
<1>4. IsFiniteSet({f[n] : n \in linked})
  <2> HIDE DEF linked
  <2> QED
    BY <1>2, ImageIsFinite
<1>5. \A c \in {f[n] : n \in linked} :
        c.bound \in Int /\ c.src \in TimePoint /\ c.dst \in TimePoint
  BY <1>3 DEF Tied, Bounded
<1> QED
  BY <1>1, <1>4, <1>5 DEF Tied, Bounded

(* So do the edges to the events still to be fired.                          *)
LEMMA BeforeTodoTied ==
  ASSUME problem \in Problems, NEW todo, TodoOK(todo), IsFiniteSet(DOMAIN todo),
         NEW a \in Action, NEW i \in Nat, NEW k \in Nat
  PROVE  Tied(BeforeTodo(todo, a, i, k))
<1> DEFINE edge(b, j) == Before(EventOf(a, k, i), EventOf(b, todo[b].id, j), Gap(a, i, b, j))
           group(b) == {edge(b, j) : j \in From(b, todo[b].next)}
           g == [b \in DOMAIN todo |-> group(b)]
<1>1. BeforeTodo(todo, a, i, k) = UNION {g[b] : b \in DOMAIN todo}
  BY DEF BeforeTodo
<1>2. ASSUME NEW b \in DOMAIN todo
      PROVE  Tied(group(b))
  <2>1. /\ b \in Known /\ b \in Action
        /\ todo[b].next \in Nat \ {0} /\ todo[b].id \in Nat
    BY ProblemOK DEF TodoOK, From
  <2>2. IsFiniteSet(From(b, todo[b].next)) /\ From(b, todo[b].next) \subseteq Nat
    BY <2>1, EventsAreFinite
  <2> DEFINE f == [j \in From(b, todo[b].next) |-> edge(b, j)]
  <2>3. \A j \in From(b, todo[b].next) : Tied({f[j]})
    <3> SUFFICES ASSUME NEW j \in From(b, todo[b].next) PROVE Tied({edge(b, j)})
      OBVIOUS
    <3>1. EventOf(a, k, i) \in TimePoint
      BY TimePoints
    <3>2. EventOf(b, todo[b].id, j) \in TimePoint
      BY <2>1, <2>2, TimePoints
    <3>3. Gap(a, i, b, j) \in Int
      BY GapType
    <3> QED
      BY <3>1, <3>2, <3>3, TiedBefore
  <2>4. group(b) = {f[j] : j \in From(b, todo[b].next)}
    OBVIOUS
  <2> HIDE DEF f, group
  <2>5. IsFiniteSet(group(b))
    BY <2>2, <2>4, ImageIsFinite
  <2>6. \A c \in group(b) : c.bound \in Int /\ c.src \in TimePoint /\ c.dst \in TimePoint
    BY <2>3, <2>4 DEF Tied, Bounded
  <2> QED
    BY <2>5, <2>6 DEF Tied, Bounded
<1>3. \A b \in DOMAIN todo : Tied(g[b])
  <2> HIDE DEF group
  <2> QED
    BY <1>2
<1> HIDE DEF g
<1> QED
  BY <1>1, <1>3, TiedUnion

-----------------------------------------------------------------------------
(* The dates of a branch are numbers.                                        *)
LEMMA DatesAreNumbers ==
  ASSUME NEW s, s.path \in Seq(Step), NetOK(s)
  PROVE  /\ \A n \in DOMAIN s.path : Date(s.tn, PointOf(s.path[n])) \in Int
         /\ Makespan(s) \in Int
<1>1. s.tn.distances = Distances(s.tn.constraints)
  BY DEF NetOK, Network
<1>2. Distances(s.tn.constraints) \in [Points(s.tn.constraints) -> Int]
  BY DistancesAreLargest DEF NetOK, Tied
<1>3. \A n \in DOMAIN s.path : Date(s.tn, PointOf(s.path[n])) \in Int
  BY <1>1, <1>2 DEF NetOK, Date
<1>4. s.path # <<>> => Len(s.path) \in DOMAIN s.path /\ Last(s.path) = s.path[Len(s.path)]
  BY DEF Last
<1> QED
  BY <1>3, <1>4 DEF Makespan

(* A branch continues itself, and what continues a continuation continues    *)
(* the branch.                                                               *)
LEMMA GrowsReflexive ==
  ASSUME NEW s, s.path \in Seq(Step), NetOK(s)
  PROVE  Grows(s, s)
BY DatesAreNumbers DEF Grows

(* Growth is transitive.                                                     *)
LEMMA GrowsTransitive ==
  ASSUME NEW s, NEW r, NEW c, Grows(s, r), Grows(r, c),
         s.path \in Seq(Step), r.path \in Seq(Step), c.path \in Seq(Step),
         NetOK(s), NetOK(r), NetOK(c)
  PROVE  Grows(s, c)
<1>1. Makespan(s) \in Int /\ Makespan(r) \in Int /\ Makespan(c) \in Int
  BY DatesAreNumbers
<1>2. Makespan(c) >= Makespan(s)
  BY <1>1 DEF Grows
<1>3. ASSUME NEW n \in DOMAIN s.path
      PROVE  /\ n \in DOMAIN c.path
             /\ c.path[n] = s.path[n]
             /\ Date(c.tn, PointOf(s.path[n])) >= Date(s.tn, PointOf(s.path[n]))
  <2>1. n \in DOMAIN r.path /\ r.path[n] = s.path[n] /\ n \in DOMAIN c.path /\ c.path[n] = r.path[n]
    BY DEF Grows
  <2>2. /\ Date(s.tn, PointOf(s.path[n])) \in Int
        /\ Date(r.tn, PointOf(r.path[n])) \in Int
        /\ Date(c.tn, PointOf(c.path[n])) \in Int
    BY <2>1, DatesAreNumbers
  <2>3. /\ Date(r.tn, PointOf(s.path[n])) >= Date(s.tn, PointOf(s.path[n]))
        /\ Date(c.tn, PointOf(r.path[n])) >= Date(r.tn, PointOf(r.path[n]))
    BY <2>1 DEF Grows
  <2> QED
    BY <2>1, <2>2, <2>3
<1> QED
  BY <1>2, <1>3 DEF Grows

(* A child's network is one, and nothing in it happens earlier than in its   *)
(* parent's.                                                                 *)
LEMMA ExpandNet ==
  ASSUME problem \in Problems,
         NEW s, s.path \in Seq(Step), NetOK(s),
         NEW a \in Known, NEW i \in From(a, 1), NEW k \in Nat,
         NEW todo, TodoOK(todo), IsFiniteSet(DOMAIN todo), NEW g,
         NEW opening, Tied(opening),
         s.path # <<>> \/ EventOf(a, k, i) \in Points(opening),
         NEW c \in Expand(s, todo, g, a, i, k, opening)
  PROVE  NetOK(c) /\ Grows(s, c)
<1> DEFINE new == [action |-> a, pos |-> i, id |-> k]
           before == s.tn.constraints
           after == before \cup opening \cup AfterPath(s.path, a, i, k) \cup BeforeTodo(todo, a, i, k)
           d == Distances(after)
           last == PointOf(s.path[Len(s.path)])
<1>1. /\ c.todo = todo
      /\ c.path = Append(s.path, new)
      /\ c.tn = Network(after)
      /\ Sat(c.tn)
  BY DEF Expand
<1>2. a \in Action /\ i \in Nat /\ new \in Step
  BY ProblemOK DEF From, Step
<1>3. /\ c.path \in Seq(Step) /\ c.path # <<>>
      /\ Len(c.path) = Len(s.path) + 1 /\ DOMAIN c.path = 1 .. Len(s.path) + 1
      /\ c.path[Len(s.path) + 1] = new
      /\ \A n \in DOMAIN s.path : n \in DOMAIN c.path /\ c.path[n] = s.path[n]
  BY <1>1, <1>2
<1>4. PointOf(new) = EventOf(a, k, i)
  BY DEF PointOf
<1>5. Tied(after)
  <2>1. Tied(before)
    BY DEF NetOK
  <2>2. Tied(AfterPath(s.path, a, i, k)) /\ Tied(BeforeTodo(todo, a, i, k))
    BY <1>2, AfterPathTied, BeforeTodoTied
  <2>3. Tied(before \cup opening)
    BY <2>1, TiedTogether
  <2>4. Tied(before \cup opening \cup AfterPath(s.path, a, i, k))
    BY <2>2, <2>3, TiedTogether
  <2> QED
    BY <2>2, <2>4, TiedTogether
<1>6. s.path # <<>> =>
        /\ Len(s.path) \in DOMAIN s.path
        /\ Before(last, EventOf(a, k, i),
                  Gap(a, i, s.path[Len(s.path)].action, s.path[Len(s.path)].pos)) \in after
  BY DEF AfterPath
<1>7. EventOf(a, k, i) \in Points(after)
  <2>1. CASE s.path # <<>>
    <3> DEFINE e == Before(last, EventOf(a, k, i),
                           Gap(a, i, s.path[Len(s.path)].action, s.path[Len(s.path)].pos))
    <3>1. e \in after /\ e.dst = EventOf(a, k, i)
      BY <1>6, <2>1 DEF Before
    <3> HIDE DEF e, after
    <3> QED
      BY <3>1, EndsArePoints
  <2>2. CASE EventOf(a, k, i) \in Points(opening)
    <3>1. opening \subseteq after
      OBVIOUS
    <3> HIDE DEF after
    <3> QED
      BY <2>2, <3>1 DEF Points
  <2> QED
    BY <2>1, <2>2
<1>8. before \subseteq after /\ Points(before) \subseteq Points(after)
  <2>1. before \subseteq after
    OBVIOUS
  <2> HIDE DEF before, after
  <2> QED
    BY <2>1 DEF Points
<1>9. c.tn.constraints = after /\ c.tn.distances = d /\ s.tn.distances = Distances(before)
  BY <1>1 DEF Network, NetOK
<1>10. d \in [Points(after) -> Int] /\ (\A p \in Points(after) : d[p] <= 0) /\ Satisfied(d, after)
  <2>1. Bounded(after)
    BY <1>5 DEF Tied
  <2>2. Satisfied(d, after)
    BY <1>1, <1>9 DEF Sat
  <2> HIDE DEF after
  <2> QED
    BY <2>1, <2>2, DistancesAreLargest
<1> HIDE DEF after, d
<1>11. NetOK(c)
  <2>1. \A n \in DOMAIN c.path : PointOf(c.path[n]) \in Points(after)
    <3> SUFFICES ASSUME NEW n \in DOMAIN c.path PROVE PointOf(c.path[n]) \in Points(after)
      OBVIOUS
    <3>1. CASE n \in DOMAIN s.path
      <4>1. PointOf(s.path[n]) \in Points(before)
        BY <3>1 DEF NetOK
      <4> QED
        BY <4>1, <3>1, <1>3, <1>8
    <3>2. CASE n \notin DOMAIN s.path
      <4>1. n = Len(s.path) + 1
        BY <3>2, <1>3
      <4> QED
        BY <4>1, <1>3, <1>4, <1>7
    <3> QED
      BY <3>1, <3>2
  <2>2. c.tn = Network(c.tn.constraints)
    BY <1>1, <1>9
  <2> QED
    BY <2>1, <2>2, <1>1, <1>3, <1>5, <1>9 DEF NetOK
<1>12. \A p \in Points(before) : d[p] <= Distances(before)[p] /\ Distances(before)[p] \in Int /\ d[p] \in Int
  <2>1. Bounded(after) /\ Sat(Network(after))
    BY <1>1, <1>5 DEF Tied
  <2> HIDE DEF before
  <2> QED
    BY <2>1, <1>8, DatesGrow DEF d
<1>13. ASSUME NEW n \in DOMAIN s.path
       PROVE  Date(c.tn, PointOf(s.path[n])) >= Date(s.tn, PointOf(s.path[n]))
  <2>1. PointOf(s.path[n]) \in Points(before)
    BY DEF NetOK
  <2> HIDE DEF before
  <2> QED
    BY <1>9, <1>12, <2>1 DEF Date
<1>14. Makespan(c) = -d[EventOf(a, k, i)] /\ d[EventOf(a, k, i)] \in Int
  BY <1>3, <1>4, <1>7, <1>9, <1>10 DEF Makespan, Date, Last
<1>15. Makespan(c) >= Makespan(s)
  <2>1. CASE s.path = <<>>
    <3>1. Makespan(s) = 0
      BY <2>1 DEF Makespan
    <3> QED
      BY <3>1, <1>7, <1>10, <1>14
  <2>2. CASE s.path # <<>>
    <3>1. Makespan(s) = -Distances(before)[last]
      BY <2>2, <1>6, <1>9 DEF Makespan, Date, Last
    <3>2. last \in Points(before)
      BY <2>2, <1>6 DEF NetOK
    <3> DEFINE w == Gap(a, i, s.path[Len(s.path)].action, s.path[Len(s.path)].pos)
    <3>3. w \in Nat
      BY GapType
    <3>4. Before(last, EventOf(a, k, i), w) \in after
      BY <2>2, <1>6
    <3> HIDE DEF w, last, before
    <3>5. d[EventOf(a, k, i)] <= d[last] + (-w)
      BY <3>4, <1>10 DEF Satisfied, Before
    <3>6. d[last] \in Int /\ Distances(before)[last] \in Int /\ d[last] <= Distances(before)[last]
      BY <3>2, <1>12
    <3> QED
      BY <3>1, <3>3, <3>5, <3>6, <1>14
  <2> QED
    BY <2>1, <2>2
<1> QED
  BY <1>3, <1>11, <1>13, <1>15 DEF Grows

-----------------------------------------------------------------------------
(* What an expansion needs to know of the actions in progress, and where     *)
(* they are from.                                                            *)
Good(s) == StateOK(s) /\ NetOK(s)

(* There are as many actions in progress after an advance as before, or one  *)
(* more, or one less.                                                        *)
LEMMA AdvancedFinite ==
  ASSUME NEW todo, IsFiniteSet(DOMAIN todo), NEW a, NEW next, NEW id
  PROVE  IsFiniteSet(DOMAIN Advanced(todo, a, next, id))
<1>1. IsFiniteSet(DOMAIN todo \ {a})
  BY FS_Subset
<1>2. IsFiniteSet(DOMAIN todo \cup {a})
  BY FS_Singleton, FS_Union
<1> QED
  BY <1>1, <1>2 DEF Advanced, Without

(* Opening an action, from any state.                                        *)
LEMMA OpenNet ==
  ASSUME problem \in Problems, NEW s, Good(s),
         NEW a \in Known, NEW g, NEW c \in Open(s, a, g)
  PROVE  NetOK(c) /\ Grows(s, c)
<1> DEFINE k == FreshId(s)
           todo == Advanced(s.todo, a, 2, k)
           opening == OpeningConstraints(a, k, s.assignments)
<1>1. k \in Nat
  BY FreshIdType DEF Good, StateOK
<1>2. TodoOK(todo)
  BY <1>1, AdvancedOK DEF Good, StateOK
<1>3. IsFiniteSet(DOMAIN todo)
  BY AdvancedFinite DEF Good, NetOK
<1>4. 1 \in From(a, 1)
  BY ProblemOK DEF From
<1>5. Tied(opening) /\ EventOf(a, k, 1) \in Points(opening)
  BY <1>1, OpeningTied DEF Good, StateOK
<1>6. c \in Expand(s, todo, g, a, 1, k, opening)
  BY DEF Open
<1>7. s.path \in Seq(Step) /\ NetOK(s)
  BY DEF Good, StateOK
<1> HIDE DEF k, todo, opening
<1> QED
  BY <1>1, <1>2, <1>3, <1>4, <1>5, <1>6, <1>7, ExpandNet

(* Opening an applicable action.                                             *)
LEMMA OpenedNet ==
  ASSUME problem \in Problems, NEW s, Good(s),
         NEW a \in Known, NEW c \in Opened(s, a)
  PROVE  Good(c) /\ Grows(s, c)
<1>1. StateOK(c)
  BY OpenedOK DEF Good
<1>2. NetOK(c) /\ Grows(s, c)
  BY OpenNet DEF Opened
<1> QED
  BY <1>1, <1>2 DEF Good

(* Nothing is in progress where nothing has happened.                        *)
LEMMA ExpandedBefore ==
  ASSUME NEW s, NetOK(s), NEW a \in DOMAIN s.todo
  PROVE  s.path # <<>>
BY DEF NetOK

(* No constraint of its own comes with the next event of an action.          *)
LEMMA NoneTied == Tied({})
BY FS_EmptySet DEF Tied, Bounded

(* The next event of an action in progress.                                  *)
LEMMA ContinuedNet ==
  ASSUME problem \in Problems, NEW s, Good(s),
         NEW a \in DOMAIN s.todo, NEW c \in Continued(s, a)
  PROVE  Good(c) /\ Grows(s, c)
<1> DEFINE i == s.todo[a].next
           k == s.todo[a].id
           todo == Advanced(s.todo, a, i + 1, k)
<1>1. a \in Known /\ i \in From(a, 1) /\ k \in Nat
  BY DEF Good, StateOK, TodoOK
<1>2. TodoOK(todo)
  <2>1. i + 1 \in Nat \ {0}
    BY <1>1 DEF From
  <2> HIDE DEF i, k
  <2> QED
    BY <1>1, <2>1, AdvancedOK DEF Good, StateOK
<1>3. IsFiniteSet(DOMAIN todo)
  <2> HIDE DEF i, k
  <2> QED
    BY AdvancedFinite DEF Good, NetOK
<1>4. s.path \in Seq(Step) /\ NetOK(s) /\ s.path # <<>>
  BY ExpandedBefore DEF Good, StateOK
<1>5. c \in Expand(s, todo, s.g + 1, a, i, k, {})
  BY DEF Continued
<1>6. StateOK(c)
  BY ContinuedOK DEF Good
<1> HIDE DEF i, k, todo
<1>7. NetOK(c) /\ Grows(s, c)
  BY <1>1, <1>2, <1>3, <1>4, <1>5, NoneTied, ExpandNet
<1> QED
  BY <1>6, <1>7 DEF Good

(* The rest of a compressed action, event by event.                          *)
LEMMA FinishNet ==
  ASSUME problem \in Problems, NEW s, Good(s),
         NEW a \in DOMAIN s.todo, NEW c \in Finish(s, a)
  PROVE  Good(c) /\ Grows(s, c)
<1> DEFINE N == Len(Events(a))
           k == s.todo[a].id
           Reached(r) == Good(r) /\ Grows(s, r) /\ r.path # <<>>
<1>1. a \in Known /\ k \in Nat
  BY DEF Good, StateOK, TodoOK
<1>2. N \in Nat \ {0}
  BY <1>1, ProblemOK
<1>3. PICK f :
        /\ f = [i \in From(a, 1) |->
                 IF i = 1 THEN {[s EXCEPT !.todo = Without(s.todo, a)]}
                 ELSE UNION {Expand(r, r.todo, r.g + 1, a, i, k, {}) :
                               r \in {q \in f[i - 1] : MayStart(a, i, q)}}]
        /\ Finish(s, a) = f[N]
  BY <1>1, FinishUnfolds
<1> DEFINE Bad == {n \in 1 .. N : \E r \in f[n] : ~Reached(r)}
<1>4. Bad = {}
  <2> SUFFICES ASSUME Bad # {}
               PROVE  FALSE
    OBVIOUS
  <2>1. Bad \in SUBSET Nat
    BY <1>2
  <2>2. PICK n \in Bad : \A m \in Bad : n <= m
    <3> HIDE DEF Bad
    <3> QED
      BY <2>1, Least
  <2>3. PICK r \in f[n] : ~Reached(r)
    BY <2>2
  <2>4. n \in 1 .. N /\ n \in From(a, 1)
    BY <2>2 DEF From
  <2>5. CASE n = 1
    <3>1. r = [s EXCEPT !.todo = Without(s.todo, a)]
      BY <1>3, <2>3, <2>4, <2>5
    <3>2. /\ r.assignments = s.assignments /\ r.path = s.path /\ r.active = s.active
          /\ r.tn = s.tn /\ r.todo = Without(s.todo, a) /\ Shaped(r)
      BY <3>1 DEF Good, StateOK, Shaped
    <3>3. TodoOK(r.todo)
      BY <3>2 DEF Good, StateOK, TodoOK, Without
    <3>4. StateOK(r)
      BY <3>2, <3>3 DEF Good, StateOK, Kept, Ordered
    <3>5. DOMAIN r.todo \subseteq DOMAIN s.todo /\ s.path # <<>>
      BY <3>2, ExpandedBefore DEF Without, Good
    <3>6. IsFiniteSet(DOMAIN r.todo)
      BY <3>5, FS_Subset DEF Good, NetOK
    <3>7. NetOK(r)
      BY <3>2, <3>5, <3>6 DEF Good, NetOK
    <3>8. Grows(s, s)
      BY GrowsReflexive DEF Good, StateOK
    <3>9. Grows(s, r)
      BY <3>2, <3>8 DEF Grows, Makespan
    <3> QED
      BY <2>3, <3>2, <3>4, <3>5, <3>7, <3>9 DEF Good
  <2>6. CASE n # 1
    <3>1. n - 1 \in 1 .. N /\ n - 1 < n
      BY <2>4, <2>6, <1>2
    <3>2. n - 1 \notin Bad
      <4> HIDE DEF Bad, N
      <4> QED
        BY <2>1, <2>2, <3>1
    <3> HIDE DEF k
    <3>3. f[n] = UNION {Expand(q, q.todo, q.g + 1, a, n, k, {}) :
                          q \in {x \in f[n - 1] : MayStart(a, n, x)}}
      BY <1>3, <2>4, <2>6
    <3>4. PICK q \in f[n - 1] : MayStart(a, n, q) /\ r \in Expand(q, q.todo, q.g + 1, a, n, k, {})
      BY <2>3, <3>3
    <3>5. Good(q) /\ Grows(s, q) /\ q.path # <<>>
      BY <3>1, <3>2, <3>4
    <3>6. TodoOK(q.todo) /\ IsFiniteSet(DOMAIN q.todo) /\ q.path \in Seq(Step) /\ NetOK(q) /\ StateOK(q)
      BY <3>5 DEF Good, StateOK, NetOK
    <3>7. StateOK(r)
      BY <1>1, <2>3, <2>4, <3>4, <3>6, ExpandOK
    <3>8. NetOK(r) /\ Grows(q, r)
      BY <1>1, <2>4, <3>4, <3>5, <3>6, NoneTied, ExpandNet
    <3>9. Grows(s, r)
      <4>1. s.path \in Seq(Step) /\ NetOK(s) /\ r.path \in Seq(Step)
        BY <3>7 DEF Good, StateOK
      <4> QED
        BY <4>1, <3>5, <3>6, <3>8, GrowsTransitive
    <3>10. r.path # <<>>
      <4>1. PICK e \in Step : r.path = Append(q.path, e)
        <5>1. [action |-> a, pos |-> n, id |-> k] \in Step
          BY <1>1, <2>4, ProblemOK DEF Step
        <5> QED
          BY <5>1, <3>4 DEF Expand
      <4> QED
        BY <4>1, <3>6
    <3> QED
      BY <2>3, <3>7, <3>8, <3>9, <3>10 DEF Good
  <2> QED
    BY <2>5, <2>6
<1>5. N \in 1 .. N /\ N \notin Bad
  BY <1>2, <1>4
<1> QED
  BY <1>3, <1>5

(* A successor.                                                              *)
LEMMA SuccessorsNet ==
  ASSUME problem \in Problems, NEW s, Good(s), NEW a \in Known,
         NEW compress, NEW c \in Successors(s, a, compress)
  PROVE  Good(c) /\ Grows(s, c)
<1>1. CASE a \in DOMAIN s.todo
  BY <1>1, ContinuedNet DEF Successors
<1>2. CASE a \notin DOMAIN s.todo /\ c \in Opened(s, a)
  BY <1>2, OpenedNet
<1>3. CASE /\ a \notin DOMAIN s.todo
           /\ Len(Events(a)) > 1
           /\ c \in UNION {Finish(r, a) : r \in Opened(s, a)}
  <2>1. PICK r \in Opened(s, a) : c \in Finish(r, a)
    BY <1>3
  <2>2. Good(r) /\ Grows(s, r)
    BY <2>1, OpenedNet
  <2>3. a \in DOMAIN r.todo
    BY <1>3, <2>1, ProblemOK, OpenedInTodo
  <2>4. Good(c) /\ Grows(r, c)
    BY <2>1, <2>2, <2>3, FinishNet
  <2> QED
    BY <2>2, <2>4, GrowsTransitive DEF Good, StateOK
<1> QED
  BY <1>1, <1>2, <1>3 DEF Successors

(* The state before anything has happened.                                   *)
LEMMA RootIsGood ==
  ASSUME problem \in Problems
  PROVE  Good(Root)
<1> DEFINE horizon == IF problem.deadline = NoDeadline THEN {}
                      ELSE Between(PlanStart, PlanEnd, problem.deadline, problem.deadline)
<1>1. Tied(horizon)
  <2>1. PlanStart \in TimePoint /\ PlanEnd \in TimePoint
    BY DEF PlanStart, PlanEnd, TimePoint
  <2>2. problem.deadline \in Int
    BY ProblemOK
  <2> QED
    BY <2>1, <2>2, NoneTied, TiedBetween
<1>2. Root.tn = Network(horizon) /\ Root.path = <<>> /\ Root.todo = <<>>
  BY DEF Root
<1>3. DOMAIN Root.path = {} /\ DOMAIN Root.todo = {}
  BY <1>2
<1> HIDE DEF horizon
<1>4. NetOK(Root)
  <2>1. Root.tn.constraints = horizon
    BY <1>2 DEF Network
  <2> QED
    BY <1>1, <1>2, <1>3, <2>1, FS_EmptySet DEF NetOK
<1> QED
  BY <1>4, RootOK DEF Good

(* The initial state.                                                        *)
LEMMA InitialNet ==
  ASSUME problem \in Problems, NEW s \in InitialStates
  PROVE  Good(s)
<1>1. CASE problem.timed = NoTimed
  BY <1>1, RootIsGood DEF InitialStates
<1>2. CASE problem.timed # NoTimed
  <2>1. problem.timed \in Known
    BY <1>2 DEF Known
  <2>2. s \in Open(Root, problem.timed, 0)
    BY <1>2 DEF InitialStates
  <2> QED
    BY <2>1, <2>2, RootIsGood, InitialOK, OpenNet DEF Good
<1> QED
  BY <1>1, <1>2

-----------------------------------------------------------------------------
IInv == problem \in Problems /\ Good(state)

(* The inductive invariant holds initially.                                  *)
LEMMA InitInv == Init => IInv
BY InitialNet DEF Init, IInv

(* An expansion, as a successor of a good state.                             *)
LEMMA NextGrows ==
  ASSUME IInv, [Next]_vars
  PROVE  problem' = problem /\ Good(state') /\ Grows(state, state')
<1>1. CASE Next
  <2>1. PICK a \in problem.relevant : Apply(a)
    BY <1>1 DEF Next
  <2>2. a \in Known
    BY DEF Known
  <2> QED
    BY <2>1, <2>2, SuccessorsNet DEF Apply, IInv
<1>2. CASE UNCHANGED vars
  <2>1. Grows(state, state)
    BY GrowsReflexive DEF IInv, Good, StateOK
  <2>2. problem' = problem /\ state' = state
    BY <1>2 DEF vars
  <2> QED
    BY <2>1, <2>2 DEF IInv
<1> QED
  BY <1>1, <1>2

(* Every expansion keeps the inductive invariant.                            *)
LEMMA NextInv == IInv /\ [Next]_vars => IInv'
<1> SUFFICES ASSUME IInv, [Next]_vars
             PROVE  IInv'
  OBVIOUS
<1>1. problem' = problem /\ StateOK(state') /\ NetOK(state')
  BY NextGrows DEF Good
<1>2. problem' = problem /\ problem' \in Problems
  BY <1>1 DEF IInv
<1>3. Shaped(state)' /\ Kept(state)' /\ (state'.assignments \in Assignment) /\ (state'.path \in Seq(Step))
  BY <1>1 DEF StateOK, Shaped, Kept
<1>4. TodoOK(state.todo)'
  BY <1>1, <1>2 DEF StateOK, TodoOK, Known, From, Events
<1>5. Ordered(state)'
  <2>1. \A a, i : Events(a)' = Events(a) /\ Writes(a, i)' = Writes(a, i) /\ Reads(a, i)' = Reads(a, i)
    BY <1>2 DEF Events, Writes, Reads, EventReads
  <2>2. \A a, i, b, j : Mutex(a, i, b, j)' <=> Mutex(a, i, b, j)
    BY <2>1 DEF Mutex
  <2>3. \A a, i, b, j : Gap(a, i, b, j)' = Gap(a, i, b, j)
    BY <1>2, <2>2 DEF Gap
  <2>4. Ordered(state')
    BY <1>1 DEF StateOK
  <2> QED
    BY <2>3, <2>4 DEF Ordered
<1>6. NetOK(state)'
  BY <1>1 DEF NetOK
<1> QED
  BY <1>2, <1>3, <1>4, <1>5, <1>6 DEF IInv, Good, StateOK

(* The conditions being maintained hold in every state of the space,         *)
(* compressed or not: what _expand_event checks is enough.                   *)
THEOREM ConditionsKept == Spec => []ActiveConditionsHold
<1>1. IInv => ActiveConditionsHold
  BY DEF IInv, Good, StateOK, ActiveConditionsHold
<1> QED
  BY <1>1, InitInv, NextInv, PTL DEF Spec

(* In every schedule of a branch its events are in the order of the path,    *)
(* epsilon apart when they are mutex, although each is tied to at most two   *)
(* of the events before it.                                                  *)
THEOREM BranchOrdered == Spec => []PathOrdered
<1>1. IInv => PathOrdered
  BY DEF IInv, Good, StateOK, PathOrdered
<1> QED
  BY <1>1, InitInv, NextInv, PTL DEF Spec

(* The earliest schedule of a branch is one of its schedules.                *)
LEMMA EarliestIsSchedule ==
  ASSUME NEW s, NetOK(s), s.path # <<>>
  PROVE  \E t \in [TimePoint -> Int] :
           /\ Satisfied(t, s.tn.constraints)
           /\ \A p \in Points(s.tn.constraints) : t[p] = s.tn.distances[p]
<1> DEFINE cs == s.tn.constraints
           d == s.tn.distances
           t == [p \in TimePoint |-> IF p \in Points(cs) THEN d[p] ELSE 0]
<1>1. d = Distances(cs)
  BY DEF NetOK, Network
<1>2. d \in [Points(cs) -> Int]
  BY <1>1, DistancesAreLargest DEF NetOK, Tied
<1>3. t \in [TimePoint -> Int]
  BY <1>2
<1>4. Satisfied(d, cs)
  BY DEF NetOK, Sat
<1>5. \A c \in cs : c.src \in TimePoint /\ c.dst \in TimePoint
  BY DEF NetOK, Tied
<1>6. Points(cs) \subseteq TimePoint
  BY <1>5 DEF Points
<1>7. \A p \in Points(cs) : t[p] = d[p]
  BY <1>6
<1> HIDE DEF t, d, cs
<1>8. Satisfied(t, cs)
  BY <1>4, <1>7, EndsArePoints DEF Satisfied
<1>9. \E u \in [TimePoint -> Int] :
        Satisfied(u, cs) /\ \A p \in Points(cs) : u[p] = d[p]
  BY <1>3, <1>7, <1>8
<1> QED
  BY <1>9 DEF cs, d

(* So the dates the search computes keep every pair of events of the branch  *)
(* in order, and epsilon apart when they are mutex: the edges left out       *)
(* follow from the two that are added.                                       *)
THEOREM TwoEdgesSuffice == Spec => []PathEdgesSuffice
<1>1. IInv => PathEdgesSuffice
  <2> SUFFICES ASSUME IInv, NEW n \in DOMAIN state.path, NEW m \in 1 .. n - 1
               PROVE  Date(state.tn, PointOf(state.path[n]))
                        >= Date(state.tn, PointOf(state.path[m]))
                             + Gap(state.path[n].action, state.path[n].pos,
                                   state.path[m].action, state.path[m].pos)
    BY DEF PathEdgesSuffice
  <2> DEFINE e == state.path[m]
             f == state.path[n]
             w == Gap(f.action, f.pos, e.action, e.pos)
  <2>1. state.path \in Seq(Step) /\ NetOK(state) /\ Ordered(state) /\ problem \in Problems
    BY DEF IInv, Good, StateOK
  <2>2. m \in DOMAIN state.path /\ state.path # <<>>
    BY <2>1
  <2>3. PICK t \in [TimePoint -> Int] :
          /\ Satisfied(t, state.tn.constraints)
          /\ \A p \in Points(state.tn.constraints) : t[p] = state.tn.distances[p]
    BY <2>1, <2>2, EarliestIsSchedule
  <2>4. t[PointOf(f)] <= t[PointOf(e)] - w
    BY <2>1, <2>3 DEF Ordered
  <2>5. PointOf(e) \in Points(state.tn.constraints) /\ PointOf(f) \in Points(state.tn.constraints)
    BY <2>1, <2>2 DEF NetOK
  <2>6. t[PointOf(e)] \in Int /\ t[PointOf(f)] \in Int
    BY <2>1, <2>2, PointsOfPath
  <2>7. w \in Nat
    BY <2>1, GapType
  <2> HIDE DEF e, f, w
  <2>8. Date(state.tn, PointOf(f)) = -t[PointOf(f)] /\ Date(state.tn, PointOf(e)) = -t[PointOf(e)]
    BY <2>3, <2>5 DEF Date
  <2>9. Date(state.tn, PointOf(f)) >= Date(state.tn, PointOf(e)) + w
    BY <2>4, <2>6, <2>7, <2>8
  <2> QED
    BY <2>9 DEF e, f, w
<1> QED
  BY <1>1, InitInv, NextInv, PTL DEF Spec

(* The makespan of a state bounds those of its successors from below, and    *)
(* the date of an event fired never gets earlier.                            *)
THEOREM DatesAdvance == Spec => DatesOnlyGrow
<1>1. IInv /\ [Next]_vars =>
        [/\ Makespan(state') >= Makespan(state)
         /\ \A n \in DOMAIN state.path :
              Date(state'.tn, PointOf(state.path[n])) >= Date(state.tn, PointOf(state.path[n]))]_vars
  BY NextGrows DEF Grows
<1> QED
  BY <1>1, InitInv, NextInv, PTL DEF Spec, DatesOnlyGrow

(* A round of relaxation gives no time point more than a constraint allows.  *)
LEMMA RelaxedEnough ==
  ASSUME NEW cs, Bounded(cs), NEW d \in [Points(cs) -> Int], NEW c \in cs
  PROVE  Relaxed(d, cs)[c.dst] <= d[c.src] + c.bound
<1> DEFINE p == c.dst
           into == {e \in cs : e.dst = p}
           f == [e \in cs |-> d[e.src] + e.bound]
           asked == {f[e] : e \in into}
<1>1. p \in Points(cs) /\ c \in into
  BY EndsArePoints
<1>2. Relaxed(d, cs)[p] = Min({d[p]} \cup asked)
  <2>1. asked = {d[e.src] + e.bound : e \in into}
    OBVIOUS
  <2> HIDE DEF asked
  <2> QED
    BY <1>1, <2>1 DEF Relaxed
<1>3. {d[p]} \cup asked \in SUBSET Int
  <2>1. \A e \in cs : d[e.src] \in Int /\ e.bound \in Int
    BY EndsArePoints DEF Bounded
  <2>2. \A e \in into : f[e] \in Int
    BY <2>1
  <2> QED
    BY <1>1, <2>2
<1>4. IsFiniteSet({d[p]} \cup asked)
  <2>1. IsFiniteSet(into)
    BY FS_Subset DEF Bounded
  <2> HIDE DEF into, f
  <2>2. IsFiniteSet(asked)
    BY <2>1, ImageIsFinite
  <2> HIDE DEF asked
  <2> QED
    BY <2>2, FS_Singleton, FS_Union
<1>5. f[c] \in {d[p]} \cup asked /\ f[c] = d[c.src] + c.bound
  BY <1>1
<1> HIDE DEF asked, f
<1>6. \A k \in {d[p]} \cup asked : Min({d[p]} \cup asked) <= k
  BY <1>3, <1>4, LeastOfFinite
<1> QED
  BY <1>2, <1>5, <1>6

(* A bounded set of numbers has a greatest one.                              *)
LEMMA GreatestBelowZero ==
  ASSUME NEW S \in SUBSET Int, S # {}, \A k \in S : k <= 0
  PROVE  \E m \in S : \A k \in S : k <= m
<1> DEFINE T == {-k : k \in S}
<1>1. T \in SUBSET Nat /\ T # {}
  <2>1. \A k \in S : -k \in Nat
    OBVIOUS
  <2> QED
    BY <2>1
<1> HIDE DEF T
<1>2. PICK n \in T : \A k \in T : n <= k
  BY <1>1, Least
<1>3. PICK m \in S : n = -m
  BY DEF T
<1>4. ASSUME NEW k \in S
      PROVE  k <= m
  <2>1. -k \in T
    BY DEF T
  <2>2. n <= -k
    BY <1>2, <2>1
  <2> QED
    BY <1>3, <2>2
<1> QED
  BY <1>4

(* Of the schedules of a network one is the latest at every time point, if   *)
(* there is any: the greatest distances.                                     *)
LEMMA LargestSchedule ==
  ASSUME NEW cs, Bounded(cs), NEW some, Schedule(some, cs)
  PROVE  \E D : Schedule(D, cs) /\ \A d : Schedule(d, cs) => \A p \in Points(cs) : d[p] <= D[p]
<1> DEFINE All == {d \in [Points(cs) -> Int] : Schedule(d, cs)}
           At(p) == {d[p] : d \in All}
           Top(p, m) == m \in At(p) /\ \A k \in At(p) : k <= m
           D == [p \in Points(cs) |-> CHOOSE m : Top(p, m)]
<1>1. some \in All /\ \A d : Schedule(d, cs) <=> d \in All
  BY DEF Schedule
<1>2. ASSUME NEW p \in Points(cs)
      PROVE  Top(p, D[p])
  <2>1. At(p) \in SUBSET Int /\ At(p) # {} /\ \A k \in At(p) : k <= 0
    BY <1>1 DEF Schedule
  <2>2. \E m \in At(p) : \A k \in At(p) : k <= m
    <3> HIDE DEF At
    <3> QED
      BY <2>1, GreatestBelowZero
  <2>3. \E m : Top(p, m)
    BY <2>2
  <2>4. D[p] = CHOOSE m : Top(p, m)
    OBVIOUS
  <2> HIDE DEF Top, D
  <2> QED
    BY <2>3, <2>4
<1>3. \A p \in Points(cs) : \E d \in All : d[p] = D[p]
  <2> HIDE DEF D, All
  <2> QED
    BY <1>2
<1>4. \A p \in Points(cs) : \A d \in All : d[p] <= D[p]
  <2> HIDE DEF D, All
  <2> QED
    BY <1>2
<1>5. D = [p \in Points(cs) |-> D[p]]
  OBVIOUS
<1> HIDE DEF D, Top, At
<1>6. \A p \in Points(cs) : D[p] \in Int /\ D[p] <= 0
  BY <1>3 DEF Schedule
<1>7. D \in [Points(cs) -> Int]
  BY <1>5, <1>6
<1>8. Satisfied(D, cs)
  <2> SUFFICES ASSUME NEW c \in cs PROVE D[c.dst] <= D[c.src] + c.bound
    BY DEF Satisfied
  <2>1. c.src \in Points(cs) /\ c.dst \in Points(cs) /\ c.bound \in Int
    BY EndsArePoints DEF Bounded
  <2>2. PICK d \in All : d[c.dst] = D[c.dst]
    BY <1>3, <2>1
  <2>3. d[c.dst] <= d[c.src] + c.bound
    BY <2>2 DEF Schedule, Satisfied
  <2>4. d[c.src] <= D[c.src]
    BY <1>4, <2>1
  <2>5. d[c.src] \in Int /\ D[c.src] \in Int /\ d[c.dst] \in Int
    BY <1>6, <2>1
  <2> QED
    BY <2>1, <2>2, <2>3, <2>4, <2>5
<1>9. Schedule(D, cs)
  BY <1>6, <1>7, <1>8 DEF Schedule
<1> HIDE DEF All
<1>10. \A d : Schedule(d, cs) => \A p \in Points(cs) : d[p] <= D[p]
  BY <1>1, <1>4
<1> QED
  BY <1>9, <1>10

(* A constraint that the time points reached by round n do not satisfy       *)
(* reaches another in the next round, as long as there are some left.        *)
LEMMA RoundReachesMore ==
  ASSUME NEW cs, Bounded(cs), NEW D, Schedule(D, cs),
         \A d : Schedule(d, cs) => \A p \in Points(cs) : d[p] <= D[p],
         NEW e \in [Points(cs) -> Int], \A p \in Points(cs) : D[p] <= e[p] /\ e[p] <= 0,
         NEW q \in Points(cs), e[q] # D[q]
  PROVE  \E p \in Points(cs) : e[p] # D[p] /\ Relaxed(e, cs)[p] = D[p]
<1> DEFINE d == [p \in Points(cs) |-> IF e[p] = D[p] THEN D[p] ELSE D[p] + 1]
           x == Relaxed(e, cs)
<1>1. \A p \in Points(cs) : D[p] \in Int /\ e[p] \in Int
  BY DEF Schedule
<1>2. d \in [Points(cs) -> Int] /\ \A p \in Points(cs) : d[p] <= 0 /\ D[p] <= d[p] /\ d[p] <= D[p] + 1
  BY <1>1 DEF Schedule
<1>3. ~(d[q] <= D[q])
  BY <1>1
<1>4. ~Schedule(d, cs)
  BY <1>3
<1>5. PICK c \in cs : ~(d[c.dst] <= d[c.src] + c.bound)
  <2> HIDE DEF d
  <2> QED
    BY <1>2, <1>4 DEF Schedule, Satisfied
<1>6. c.src \in Points(cs) /\ c.dst \in Points(cs) /\ c.bound \in Int
  BY EndsArePoints DEF Bounded
<1>7. D[c.dst] <= D[c.src] + c.bound
  BY DEF Schedule, Satisfied
<1>8. e[c.dst] # D[c.dst] /\ e[c.src] = D[c.src] /\ D[c.dst] = D[c.src] + c.bound
  BY <1>1, <1>5, <1>6, <1>7
<1>9. x[c.dst] <= e[c.src] + c.bound
  BY RelaxedEnough
<1>10. D[c.dst] <= x[c.dst] /\ x[c.dst] \in Int
  <2>1. /\ x \in [Points(cs) -> Int]
        /\ x[c.dst] = e[c.dst] \/ \E b \in cs : b.dst = c.dst /\ x[c.dst] = e[b.src] + b.bound
    BY <1>6, RelaxedType
  <2> HIDE DEF x
  <2>2. ASSUME NEW b \in cs, b.dst = c.dst, x[c.dst] = e[b.src] + b.bound
        PROVE  D[c.dst] <= x[c.dst]
    <3>1. b.src \in Points(cs) /\ b.bound \in Int
      BY EndsArePoints DEF Bounded
    <3>2. D[b.dst] <= D[b.src] + b.bound /\ D[b.src] <= e[b.src]
      BY <3>1 DEF Schedule, Satisfied
    <3> QED
      BY <1>1, <1>6, <2>2, <3>1, <3>2
  <2> QED
    BY <1>6, <2>1, <2>2
<1>11. x[c.dst] = D[c.dst]
  <2> HIDE DEF x
  <2> QED
    BY <1>1, <1>6, <1>8, <1>9, <1>10
<1> QED
  BY <1>6, <1>8, <1>11

(* A round stays above every schedule.                                       *)
LEMMA RoundStaysAbove ==
  ASSUME NEW cs, Bounded(cs), NEW D, Schedule(D, cs),
         NEW e \in [Points(cs) -> Int], \A p \in Points(cs) : D[p] <= e[p] /\ e[p] <= 0
  PROVE  /\ Relaxed(e, cs) \in [Points(cs) -> Int]
         /\ \A p \in Points(cs) : D[p] <= Relaxed(e, cs)[p] /\ Relaxed(e, cs)[p] <= e[p]
                                    /\ Relaxed(e, cs)[p] <= 0
<1> DEFINE x == Relaxed(e, cs)
<1>1. /\ x \in [Points(cs) -> Int]
      /\ \A p \in Points(cs) : x[p] <= e[p]
      /\ \A p \in Points(cs) : x[p] = e[p] \/ \E c \in cs : c.dst = p /\ x[p] = e[c.src] + c.bound
  BY RelaxedType
<1> HIDE DEF x
<1>2. \A p \in Points(cs) : D[p] \in Int /\ e[p] \in Int /\ x[p] \in Int
  BY <1>1 DEF Schedule
<1>3. ASSUME NEW p \in Points(cs)
      PROVE  D[p] <= x[p]
  <2>1. ASSUME NEW c \in cs, c.dst = p, x[p] = e[c.src] + c.bound
        PROVE  D[p] <= x[p]
    <3>1. c.src \in Points(cs) /\ c.bound \in Int
      BY EndsArePoints DEF Bounded
    <3>2. D[c.dst] <= D[c.src] + c.bound /\ D[c.src] <= e[c.src]
      BY <3>1 DEF Schedule, Satisfied
    <3> QED
      BY <1>2, <2>1, <3>1, <3>2
  <2> QED
    BY <1>1, <2>1
<1>4. \A p \in Points(cs) : x[p] <= 0
  BY <1>1, <1>2
<1> QED
  BY <1>1, <1>3, <1>4 DEF x

(* The check of a network is complete: where the constraints can be          *)
(* scheduled at all, the distances are a schedule. Every round settles one   *)
(* more time point for good.                                                 *)
LEMMA ConsistentIsFound ==
  ASSUME NEW cs, Bounded(cs), NEW some, Schedule(some, cs)
  PROVE  Sat(Network(cs))
<1> DEFINE N == Cardinality(Points(cs))
<1>1. PICK D : Schedule(D, cs) /\ \A d : Schedule(d, cs) => \A p \in Points(cs) : d[p] <= D[p]
  BY LargestSchedule
<1>2. N \in Nat /\ IsFiniteSet(Points(cs))
  BY PointsAreFinite
<1>3. PICK r :
        /\ r = [n \in 0 .. N |-> IF n = 0 THEN [p \in Points(cs) |-> 0] ELSE Relaxed(r[n - 1], cs)]
        /\ Distances(cs) = r[N]
  BY <1>2, DistancesUnfold
<1> DEFINE Above(e) == e \in [Points(cs) -> Int] /\ \A p \in Points(cs) : D[p] <= e[p] /\ e[p] <= 0
           Settled(n) == {p \in Points(cs) : r[n][p] = D[p]}
           Reached(n) == Above(r[n]) /\ Cardinality(Settled(n)) >= n
           Bad == {n \in 0 .. N : ~Reached(n)}
<1>4. \A n \in 0 .. N : IsFiniteSet(Settled(n)) /\ Cardinality(Settled(n)) \in Nat
  <2> SUFFICES ASSUME NEW n \in 0 .. N PROVE IsFiniteSet(Settled(n)) /\ Cardinality(Settled(n)) \in Nat
    OBVIOUS
  <2>1. Settled(n) \subseteq Points(cs)
    OBVIOUS
  <2> HIDE DEF Settled, N
  <2> QED
    BY <1>2, <2>1, FS_Subset, FS_CardinalityType
<1>5. Bad = {}
  <2> SUFFICES ASSUME Bad # {} PROVE FALSE
    OBVIOUS
  <2>1. Bad \in SUBSET Nat
    BY <1>2
  <2>2. PICK n \in Bad : \A k \in Bad : n <= k
    <3> HIDE DEF Bad
    <3> QED
      BY <2>1, Least
  <2>3. n \in 0 .. N /\ ~Reached(n)
    BY <2>2
  <2>4. n # 0
    <3> SUFFICES ASSUME n = 0 PROVE FALSE
      OBVIOUS
    <3>1. r[0] = [p \in Points(cs) |-> 0]
      <4> HIDE DEF N
      <4> QED
        BY <1>2, <1>3
    <3>2. Above(r[0])
      BY <3>1, <1>1 DEF Schedule
    <3>3. Cardinality(Settled(0)) >= 0
      <4> HIDE DEF Settled, N
      <4> QED
        BY <1>2, <1>4
    <3> HIDE DEF Above, Settled
    <3> QED
      BY <2>3, <3>2, <3>3
  <2>5. n - 1 \in 0 .. N /\ n \in Nat
    BY <1>2, <2>3, <2>4
  <2>6. n - 1 \notin Bad
    <3> HIDE DEF Bad, N
    <3> QED
      BY <2>1, <2>2, <2>5
  <2>7. Above(r[n - 1]) /\ Cardinality(Settled(n - 1)) >= n - 1
    BY <2>5, <2>6
  <2>8. r[n] = Relaxed(r[n - 1], cs)
    <3> HIDE DEF N
    <3> QED
      BY <1>3, <2>3, <2>4
  <2> DEFINE e == r[n - 1]
             x == r[n]
  <2>9. /\ x \in [Points(cs) -> Int]
        /\ \A p \in Points(cs) : D[p] <= x[p] /\ x[p] <= e[p] /\ x[p] <= 0
    <3>1. e \in [Points(cs) -> Int] /\ \A p \in Points(cs) : D[p] <= e[p] /\ e[p] <= 0
      BY <2>7
    <3> HIDE DEF e
    <3>2. x = Relaxed(e, cs)
      BY <2>8 DEF e
    <3> HIDE DEF x
    <3> QED
      BY <1>1, <3>1, <3>2, RoundStaysAbove
  <2>10. Settled(n - 1) \subseteq Settled(n)
    <3> SUFFICES ASSUME NEW p \in Points(cs), e[p] = D[p] PROVE x[p] = D[p]
      OBVIOUS
    <3>1. D[p] \in Int /\ x[p] \in Int /\ D[p] <= x[p] /\ x[p] <= e[p]
      BY <1>1, <2>9 DEF Schedule
    <3> QED
      BY <3>1
  <2>11. CASE Settled(n - 1) = Points(cs)
    <3>1. Settled(n) = Points(cs)
      BY <2>10, <2>11
    <3>2. Cardinality(Settled(n)) >= n
      <4> HIDE DEF Settled
      <4> QED
        BY <3>1, <2>3, <1>2
    <3> HIDE DEF Settled
    <3> QED
      BY <2>3, <2>9, <3>2
  <2>12. CASE Settled(n - 1) # Points(cs)
    <3>1. PICK q \in Points(cs) : e[q] # D[q]
      BY <2>12
    <3>2. PICK p \in Points(cs) : e[p] # D[p] /\ x[p] = D[p]
      <4>1. e \in [Points(cs) -> Int] /\ \A p \in Points(cs) : D[p] <= e[p] /\ e[p] <= 0
        BY <2>7
      <4>2. x = Relaxed(e, cs)
        BY <2>8
      <4> HIDE DEF e, x
      <4> QED
        BY <1>1, <3>1, <4>1, <4>2, RoundReachesMore
    <3>3. p \notin Settled(n - 1) /\ Settled(n - 1) \cup {p} \subseteq Settled(n)
      BY <2>10, <3>2
    <3> DEFINE S == Settled(n - 1)
               T == Settled(n)
    <3>4. IsFiniteSet(S) /\ IsFiniteSet(T) /\ Cardinality(S) >= n - 1 /\ Cardinality(S) \in Nat
          /\ Cardinality(T) \in Nat
      <4> HIDE DEF Settled, N
      <4> QED
        BY <1>4, <2>3, <2>5, <2>7
    <3>5. p \notin S /\ S \cup {p} \subseteq T
      BY <3>3
    <3> HIDE DEF S, T
    <3>6. Cardinality(S \cup {p}) = Cardinality(S) + 1
      BY <3>4, <3>5, FS_AddElement
    <3>7. Cardinality(S \cup {p}) <= Cardinality(T)
      BY <3>4, <3>5, FS_Subset
    <3>8. Cardinality(T) >= n
      BY <2>5, <3>4, <3>6, <3>7
    <3>9. Cardinality(Settled(n)) >= n
      BY <3>8 DEF T
    <3> HIDE DEF Settled
    <3> QED
      BY <2>3, <2>9, <3>9
  <2> QED
    BY <2>11, <2>12
<1>6. N \in 0 .. N /\ N \notin Bad
  BY <1>2, <1>5
<1>7. Above(r[N]) /\ Cardinality(Settled(N)) >= N
  BY <1>6
<1>8. Settled(N) = Points(cs)
  <2> DEFINE T == Settled(N)
  <2>1. T \subseteq Points(cs) /\ Cardinality(T) >= N
    BY <1>7
  <2>2. Cardinality(T) \in Nat
    BY <1>4, <1>6
  <2> HIDE DEF T
  <2>3. Cardinality(T) <= N /\ (Cardinality(T) = N => T = Points(cs))
    BY <1>2, <2>1, FS_Subset
  <2> HIDE DEF N
  <2>4. T = Points(cs)
    BY <1>2, <2>1, <2>2, <2>3
  <2> QED
    BY <2>4 DEF T
<1>9. \A p \in Points(cs) : Distances(cs)[p] = D[p]
  BY <1>3, <1>8
<1>10. Satisfied(Distances(cs), cs)
  <2> HIDE DEF Bad, Reached, Above, Settled, N
  <2> QED
    BY <1>1, <1>9, EndsArePoints DEF Schedule, Satisfied
<1> QED
  BY <1>10 DEF Sat, Network

(* So a network whose constraints have a schedule at all passes the check.   *)
LEMMA SchedulableIsSat ==
  ASSUME NEW cs, Tied(cs), NEW t \in [TimePoint -> Int], Satisfied(t, cs)
  PROVE  Sat(Network(cs))
<1> DEFINE f == [p \in Points(cs) |-> -t[p]]
           S == {0} \cup {f[p] : p \in Points(cs)}
           d == [p \in Points(cs) |-> t[p] + Min(S)]
<1>1. Bounded(cs)
  BY DEF Tied
<1>2. \A p \in Points(cs) : t[p] \in Int
  BY DEF Points, Tied
<1>3. S \in SUBSET Int /\ S # {}
  BY <1>2
<1>4. IsFiniteSet(S)
  <2>1. IsFiniteSet(Points(cs))
    BY <1>1, PointsAreFinite
  <2> HIDE DEF f
  <2>2. IsFiniteSet({f[p] : p \in Points(cs)})
    BY <2>1, ImageIsFinite
  <2> QED
    BY <2>2, FS_Singleton, FS_Union
<1>5. Min(S) \in Int /\ \A p \in Points(cs) : Min(S) <= f[p]
  <2> HIDE DEF f
  <2>1. Min(S) \in S /\ \A k \in S : Min(S) <= k
    <3> HIDE DEF S
    <3> QED
      BY <1>3, <1>4, LeastOfFinite
  <2> QED
    BY <1>3, <2>1
<1>6. PICK m \in Int : m = Min(S)
  BY <1>5
<1>7. \A p \in Points(cs) : d[p] \in Int /\ d[p] <= 0 /\ d[p] = t[p] + m
  BY <1>2, <1>5, <1>6
<1>8. d = [p \in Points(cs) |-> d[p]]
  OBVIOUS
<1> HIDE DEF d
<1>9. d \in [Points(cs) -> Int]
  BY <1>7, <1>8
<1>10. Satisfied(d, cs)
  <2> SUFFICES ASSUME NEW c \in cs PROVE d[c.dst] <= d[c.src] + c.bound
    BY DEF Satisfied
  <2>1. c.src \in Points(cs) /\ c.dst \in Points(cs) /\ c.bound \in Int
    BY <1>1, EndsArePoints DEF Bounded
  <2>2. t[c.dst] <= t[c.src] + c.bound
    BY DEF Satisfied
  <2> QED
    BY <1>2, <1>6, <1>7, <2>1, <2>2
<1>11. Schedule(d, cs)
  BY <1>7, <1>9, <1>10 DEF Schedule
<1> QED
  BY <1>1, <1>11, ConsistentIsFound

-----------------------------------------------------------------------------
(* What the encoder guarantees of the actions of the problem being solved.   *)
LEMMA ActionsOK ==
  ASSUME problem \in Problems, NEW a \in Known
  PROVE  /\ StartsFirst(problem.duration[a], Events(a)[1])
         /\ EndsAfterStart(problem.duration[a], Events(a)[Len(Events(a))])
         /\ a = problem.timed => Constant(problem.duration[a])
         /\ problem.safe[a] => Compressible(Events(a))
BY ProblemsAssumption DEF Known, Events

(* A state has at most one successor by an action.                           *)
LEMMA SuccessorIsUnique ==
  ASSUME NEW r, NEW a, NEW c \in Successors(r, a, FALSE)
  PROVE  Successors(r, a, FALSE) = {c}
BY DEF Successors, Continued, Opened, Open, Expand

(* A problem has at most one initial state.                                  *)
LEMMA InitialIsUnique ==
  ASSUME NEW c \in InitialStates
  PROVE  InitialStates = {c}
BY DEF InitialStates, Open, Expand

(* The counts of the conditions being maintained stay positive.              *)
LEMMA ActiveAfterIsBag ==
  ASSUME NEW a, NEW i, NEW active, IsABag(active)
  PROVE  IsABag(ActiveAfter(a, i, active))
<1> DEFINE less == active (-) SetToBag(Events(a)[i].end)
           more == SetToBag(Events(a)[i].start)
<1>1. \A x \in DOMAIN active : active[x] \in Nat /\ active[x] > 0
  BY DEF IsABag
<1>2. \A x \in DOMAIN less : less[x] \in Nat /\ less[x] > 0
  BY <1>1 DEF (-), BagToSet, SetToBag
<1>3. \A x \in DOMAIN more : more[x] = 1
  BY DEF SetToBag
<1> HIDE DEF less, more
<1>4. ActiveAfter(a, i, active) = less (+) more
  BY DEF ActiveAfter, less, more
<1>5. less (+) more \in [DOMAIN less \cup DOMAIN more -> {n \in Nat : n > 0}]
  BY <1>2, <1>3 DEF (+)
<1> QED
  BY <1>4, <1>5 DEF IsABag

(* A condition that an event does not end is still maintained after it, and  *)
(* so is one that it starts.                                                 *)
LEMMA ActiveAfterKeeps ==
  ASSUME NEW a, NEW i, NEW active, IsABag(active), NEW c,
         \/ c \in Events(a)[i].start
         \/ c \in BagToSet(active) /\ c \notin Events(a)[i].end
  PROVE  c \in BagToSet(ActiveAfter(a, i, active))
<1> DEFINE less == active (-) SetToBag(Events(a)[i].end)
           more == SetToBag(Events(a)[i].start)
<1>1. BagToSet(ActiveAfter(a, i, active)) = DOMAIN less \cup DOMAIN more
  BY DEF ActiveAfter, (+), BagToSet
<1>2. CASE c \in Events(a)[i].start
  BY <1>1, <1>2 DEF SetToBag
<1>3. CASE c \in BagToSet(active) /\ c \notin Events(a)[i].end
  <2>1. active[c] \in Nat /\ active[c] > 0
    BY <1>3 DEF IsABag, BagToSet
  <2>2. c \in DOMAIN less
    BY <1>3, <2>1 DEF (-), BagToSet, SetToBag
  <2> QED
    BY <1>1, <2>2
<1> QED
  BY <1>2, <1>3

-----------------------------------------------------------------------------
(* The replay of a branch.                                                   *)

(* Every schedule of the one is a schedule of the other.                     *)
Implies(cs, ds) == \A t \in [TimePoint -> Int] : Satisfied(t, cs) => Satisfied(t, ds)

(* The state r that the replay reaches agrees with that of the branch but    *)
(* for its network, which asks for no more.                                  *)
Mirrors(s, r) ==
  /\ Good(s) /\ Good(r) /\ IsABag(s.active)
  /\ r.assignments = s.assignments
  /\ r.todo = s.todo
  /\ r.active = s.active
  /\ r.path = s.path
  /\ Implies(s.tn.constraints, r.tn.constraints)

(* The fields of a child.                                                    *)
LEMMA ExpandFields ==
  ASSUME NEW s, NEW todo, NEW g, NEW a, NEW i, NEW k, NEW opening,
         NEW c \in Expand(s, todo, g, a, i, k, opening)
  PROVE  /\ c.assignments = AfterEffects(a, i, s.assignments)
         /\ c.todo = todo
         /\ c.active = ActiveAfter(a, i, s.active)
         /\ c.path = Append(s.path, [action |-> a, pos |-> i, id |-> k])
         /\ c.tn.constraints = s.tn.constraints \cup opening
                                 \cup AfterPath(s.path, a, i, k) \cup BeforeTodo(todo, a, i, k)
         /\ ActiveHold(a, i, s, ActiveAfter(a, i, s.active))
BY DEF Expand, Network

(* A child exists where the conditions hold and there is a schedule.         *)
LEMMA ExpandExists ==
  ASSUME problem \in Problems,
         NEW r, r.path \in Seq(Step), Tied(r.tn.constraints),
         NEW a \in Known, NEW i \in From(a, 1), NEW k \in Nat,
         NEW todo, TodoOK(todo), IsFiniteSet(DOMAIN todo), NEW g, NEW opening, Tied(opening),
         ActiveHold(a, i, r, ActiveAfter(a, i, r.active)),
         NEW t \in [TimePoint -> Int],
         Satisfied(t, r.tn.constraints), Satisfied(t, opening),
         Satisfied(t, AfterPath(r.path, a, i, k)), Satisfied(t, BeforeTodo(todo, a, i, k))
  PROVE  \E d : d \in Expand(r, todo, g, a, i, k, opening)
<1> DEFINE after == r.tn.constraints \cup opening
                      \cup AfterPath(r.path, a, i, k) \cup BeforeTodo(todo, a, i, k)
           d == [assignments |-> AfterEffects(a, i, r.assignments),
                 todo |-> todo,
                 active |-> ActiveAfter(a, i, r.active),
                 path |-> Append(r.path, [action |-> a, pos |-> i, id |-> k]),
                 tn |-> Network(after),
                 g |-> g]
<1>1. a \in Action /\ i \in Nat
  BY ProblemOK DEF From
<1>2. Tied(after)
  <2>1. Tied(AfterPath(r.path, a, i, k)) /\ Tied(BeforeTodo(todo, a, i, k))
    BY <1>1, AfterPathTied, BeforeTodoTied
  <2>2. Tied(r.tn.constraints \cup opening)
    BY TiedTogether
  <2>3. Tied(r.tn.constraints \cup opening \cup AfterPath(r.path, a, i, k))
    BY <2>1, <2>2, TiedTogether
  <2> QED
    BY <2>1, <2>3, TiedTogether
<1>3. Satisfied(t, after)
  BY DEF Satisfied
<1> HIDE DEF after
<1>4. Sat(Network(after))
  BY <1>2, <1>3, SchedulableIsSat
<1>5. d \in Expand(r, todo, g, a, i, k, opening)
  BY <1>4 DEF Expand, after
<1> QED
  BY <1>5

(* What the branch fires next, the replay can fire too.                      *)
LEMMA MirrorExpand ==
  ASSUME problem \in Problems, NEW s, NEW r, Mirrors(s, r),
         NEW a \in Known, NEW i \in From(a, 1), NEW k \in Nat,
         NEW todo, TodoOK(todo), IsFiniteSet(DOMAIN todo), NEW g, NEW h, NEW opening, Tied(opening),
         NEW c \in Expand(s, todo, g, a, i, k, opening), Good(c)
  PROVE  \E d \in Expand(r, todo, h, a, i, k, opening) : Good(d) => Mirrors(c, d)
<1>1. /\ c.assignments = AfterEffects(a, i, s.assignments)
      /\ c.todo = todo
      /\ c.active = ActiveAfter(a, i, s.active)
      /\ c.path = Append(s.path, [action |-> a, pos |-> i, id |-> k])
      /\ c.tn.constraints = s.tn.constraints \cup opening
                              \cup AfterPath(s.path, a, i, k) \cup BeforeTodo(todo, a, i, k)
      /\ ActiveHold(a, i, s, ActiveAfter(a, i, s.active))
  BY ExpandFields
<1>2. ActiveHold(a, i, r, ActiveAfter(a, i, r.active))
  BY <1>1 DEF ActiveHold, Mirrors
<1>3. s.path \in Seq(Step) /\ r.path = s.path /\ Tied(r.tn.constraints)
  BY DEF Mirrors, Good, StateOK, NetOK
<1>4. \A t \in [TimePoint -> Int] : Satisfied(t, c.tn.constraints) =>
         /\ Satisfied(t, r.tn.constraints) /\ Satisfied(t, opening)
         /\ Satisfied(t, AfterPath(r.path, a, i, k)) /\ Satisfied(t, BeforeTodo(todo, a, i, k))
  <2> SUFFICES ASSUME NEW t \in [TimePoint -> Int], Satisfied(t, c.tn.constraints)
               PROVE  /\ Satisfied(t, r.tn.constraints) /\ Satisfied(t, opening)
                      /\ Satisfied(t, AfterPath(r.path, a, i, k))
                      /\ Satisfied(t, BeforeTodo(todo, a, i, k))
    OBVIOUS
  <2>1. /\ Satisfied(t, s.tn.constraints) /\ Satisfied(t, opening)
        /\ Satisfied(t, AfterPath(s.path, a, i, k)) /\ Satisfied(t, BeforeTodo(todo, a, i, k))
    BY <1>1 DEF Satisfied
  <2>2. Satisfied(t, r.tn.constraints)
    BY <2>1 DEF Mirrors, Implies
  <2> QED
    BY <1>3, <2>1, <2>2
<1>5. c.path # <<>>
  <2>1. [action |-> a, pos |-> i, id |-> k] \in Step
    BY ProblemOK DEF From, Step
  <2> QED
    BY <1>1, <1>3, <2>1
<1>6. PICK t \in [TimePoint -> Int] : Satisfied(t, c.tn.constraints)
  BY <1>5, EarliestIsSchedule DEF Good
<1>7. /\ Satisfied(t, r.tn.constraints) /\ Satisfied(t, opening)
      /\ Satisfied(t, AfterPath(r.path, a, i, k)) /\ Satisfied(t, BeforeTodo(todo, a, i, k))
  BY <1>4, <1>6
<1>8. PICK d : d \in Expand(r, todo, h, a, i, k, opening)
  BY <1>2, <1>3, <1>7, ExpandExists
<1>9. /\ d.assignments = AfterEffects(a, i, r.assignments)
      /\ d.todo = todo
      /\ d.active = ActiveAfter(a, i, r.active)
      /\ d.path = Append(r.path, [action |-> a, pos |-> i, id |-> k])
      /\ d.tn.constraints = r.tn.constraints \cup opening
                              \cup AfterPath(r.path, a, i, k) \cup BeforeTodo(todo, a, i, k)
      /\ ActiveHold(a, i, r, ActiveAfter(a, i, r.active))
  BY <1>8, ExpandFields
<1>10. Implies(c.tn.constraints, d.tn.constraints)
  <2> SUFFICES ASSUME NEW t2 \in [TimePoint -> Int], Satisfied(t2, c.tn.constraints)
               PROVE  Satisfied(t2, d.tn.constraints)
    BY DEF Implies
  <2>1. /\ Satisfied(t2, r.tn.constraints) /\ Satisfied(t2, opening)
        /\ Satisfied(t2, AfterPath(r.path, a, i, k)) /\ Satisfied(t2, BeforeTodo(todo, a, i, k))
    BY <1>4
  <2> QED
    BY <1>9, <2>1 DEF Satisfied
<1>11. IsABag(c.active)
  BY <1>1, ActiveAfterIsBag DEF Mirrors
<1>12. r.assignments = s.assignments /\ r.active = s.active /\ r.path = s.path
  BY DEF Mirrors
<1>13. d.assignments = c.assignments /\ d.todo = c.todo /\ d.active = c.active /\ d.path = c.path
  BY <1>1, <1>9, <1>12
<1>14. Good(d) => Mirrors(c, d)
  BY <1>10, <1>11, <1>13 DEF Mirrors
<1> QED
  BY <1>8, <1>14

(* An action that the branch opens, the replay can open.                     *)
LEMMA MirrorOpened ==
  ASSUME problem \in Problems, NEW s, NEW r, Mirrors(s, r),
         NEW a \in Known, NEW c \in Opened(s, a)
  PROVE  \E d \in Opened(r, a) : Mirrors(c, d)
<1> DEFINE k == FreshId(s)
           todo == Advanced(s.todo, a, 2, k)
           opening == OpeningConstraints(a, k, s.assignments)
<1>1. Good(s) /\ Good(r) /\ r.assignments = s.assignments /\ r.todo = s.todo /\ r.path = s.path
  BY DEF Mirrors
<1>2. k \in Nat
  BY <1>1, FreshIdType DEF Good, StateOK
<1>3. TodoOK(todo)
  BY <1>1, <1>2, AdvancedOK DEF Good, StateOK
<1>4. IsFiniteSet(DOMAIN todo)
  BY <1>1, AdvancedFinite DEF Good, NetOK
<1>5. 1 \in From(a, 1)
  BY ProblemOK DEF From
<1>6. Tied(opening)
  BY <1>1, <1>2, OpeningTied DEF Good, StateOK
<1>7. Good(c)
  BY <1>1, OpenedNet
<1>8. /\ a # problem.timed /\ SymmetryAllows(s, a) /\ Applicable(a, 1, s)
      /\ c \in Expand(s, todo, s.g + 1, a, 1, k, opening)
  BY DEF Opened, Open
<1>9. SymmetryAllows(r, a) /\ Applicable(a, 1, r)
  BY <1>1, <1>8 DEF SymmetryAllows, Applicable, MayStart
<1>10. Opened(r, a) = Expand(r, todo, r.g + 1, a, 1, k, opening)
  BY <1>1, <1>8, <1>9 DEF Opened, Open, FreshId
<1> HIDE DEF k, todo, opening
<1>11. PICK d \in Expand(r, todo, r.g + 1, a, 1, k, opening) : Good(d) => Mirrors(c, d)
  BY <1>2, <1>3, <1>4, <1>5, <1>6, <1>7, <1>8, MirrorExpand
<1>12. Good(d)
  BY <1>1, <1>10, <1>11, OpenedNet
<1> QED
  BY <1>10, <1>11, <1>12

(* The next event of an action in progress can be replayed.                  *)
LEMMA MirrorContinued ==
  ASSUME problem \in Problems, NEW s, NEW r, Mirrors(s, r),
         NEW a \in DOMAIN s.todo, NEW c \in Continued(s, a)
  PROVE  a \in DOMAIN r.todo /\ \E d \in Continued(r, a) : Mirrors(c, d)
<1> DEFINE i == s.todo[a].next
           k == s.todo[a].id
           todo == Advanced(s.todo, a, i + 1, k)
<1>1. Good(s) /\ Good(r) /\ r.assignments = s.assignments /\ r.todo = s.todo /\ r.path = s.path
  BY DEF Mirrors
<1>2. a \in Known /\ i \in From(a, 1) /\ k \in Nat
  BY <1>1 DEF Good, StateOK, TodoOK
<1>3. TodoOK(todo)
  <2>1. i + 1 \in Nat \ {0}
    BY <1>2 DEF From
  <2> HIDE DEF i, k
  <2> QED
    BY <1>1, <1>2, <2>1, AdvancedOK DEF Good, StateOK
<1>4. IsFiniteSet(DOMAIN todo)
  <2> HIDE DEF i, k
  <2> QED
    BY <1>1, AdvancedFinite DEF Good, NetOK
<1>5. Good(c)
  BY <1>1, ContinuedNet
<1>6. Applicable(a, i, s) /\ c \in Expand(s, todo, s.g + 1, a, i, k, {})
  BY DEF Continued
<1>7. Applicable(a, i, r)
  BY <1>1, <1>6 DEF Applicable, MayStart
<1>8. Continued(r, a) = Expand(r, todo, r.g + 1, a, i, k, {})
  BY <1>1, <1>7 DEF Continued
<1> HIDE DEF i, k, todo
<1>9. PICK d \in Expand(r, todo, r.g + 1, a, i, k, {}) : Good(d) => Mirrors(c, d)
  BY <1>2, <1>3, <1>4, <1>5, <1>6, NoneTied, MirrorExpand
<1>10. Good(d)
  BY <1>1, <1>8, <1>9, ContinuedNet
<1> QED
  BY <1>1, <1>8, <1>9, <1>10

(* The states the replay of a path goes through; each event is the next of   *)
(* the path.                                                                 *)
Trail(f, path) ==
  /\ f[Applied - 1] \in InitialStates
  /\ \A n \in Applied .. Len(path) :
       path[n].action \in Known /\ f[n] \in Successors(f[n - 1], path[n].action, FALSE)
  /\ \A n \in Applied - 1 .. Len(path) :
       /\ Len(f[n].path) = n
       /\ \A m \in 1 .. n : f[n].path[m] = path[m]
Follows(path, r) == \E f : Trail(f, path) /\ r = f[Len(path)]

(* At most one event is fired by the initial state.                          *)
LEMMA AppliedType == Applied \in {1, 2}
BY DEF Applied

(* A trail goes on.                                                          *)
LEMMA FollowsFurther ==
  ASSUME NEW path \in Seq(Step), Applied - 1 <= Len(path), NEW r, Follows(path, r),
         r.path = path, NEW e \in Step, e.action \in Known,
         NEW q \in Successors(r, e.action, FALSE), q.path = Append(path, e)
  PROVE  Follows(Append(path, e), q)
<1>1. PICK f : Trail(f, path) /\ r = f[Len(path)]
  BY DEF Follows
<1> DEFINE L == Len(path)
           longer == Append(path, e)
           h == [n \in Applied - 1 .. L + 1 |-> IF n = L + 1 THEN q ELSE f[n]]
<1>2. /\ longer \in Seq(Step) /\ Len(longer) = L + 1 /\ longer[L + 1] = e /\ L \in Nat
      /\ \A n \in 1 .. L : longer[n] = path[n]
  OBVIOUS
<1>3. Applied \in Int /\ Applied >= 1
  BY AppliedType
<1> HIDE DEF longer
<1>4. \A n \in Applied - 1 .. L : h[n] = f[n]
  BY <1>2, <1>3
<1>5. h[L + 1] = q
  BY <1>2, <1>3
<1> HIDE DEF h
<1>6. h[Applied - 1] \in InitialStates
  BY <1>1, <1>2, <1>3, <1>4 DEF Trail
<1>7. ASSUME NEW n \in Applied .. L + 1
      PROVE  longer[n].action \in Known /\ h[n] \in Successors(h[n - 1], longer[n].action, FALSE)
  <2>1. CASE n = L + 1
    <3>1. h[n] = q /\ h[n - 1] = r /\ longer[n] = e
      BY <1>1, <1>2, <1>3, <1>4, <1>5, <2>1
    <3> QED
      BY <3>1
  <2>2. CASE n # L + 1
    <3>1. n \in Applied .. L /\ n \in 1 .. L /\ n \in Applied - 1 .. L /\ n - 1 \in Applied - 1 .. L
      BY <1>2, <1>3, <2>2
    <3>2. h[n] = f[n] /\ h[n - 1] = f[n - 1] /\ longer[n] = path[n]
      BY <1>2, <1>4, <3>1
    <3> QED
      BY <1>1, <3>1, <3>2 DEF Trail
  <2> QED
    BY <2>1, <2>2
<1>8. ASSUME NEW n \in Applied - 1 .. L + 1
      PROVE  Len(h[n].path) = n /\ \A m \in 1 .. n : h[n].path[m] = longer[m]
  <2>1. CASE n = L + 1
    BY <1>2, <1>5, <2>1 DEF longer
  <2>2. CASE n # L + 1
    <3>1. n \in Applied - 1 .. L
      BY <1>2, <1>3, <2>2
    <3>2. \A m \in 1 .. n : m \in 1 .. L
      BY <1>2, <3>1
    <3> QED
      BY <1>1, <1>2, <1>4, <3>1, <3>2 DEF Trail
  <2> QED
    BY <2>1, <2>2
<1>9. Trail(h, longer)
  BY <1>2, <1>6, <1>7, <1>8 DEF Trail
<1>10. Follows(longer, q)
  BY <1>2, <1>5, <1>9 DEF Follows
<1> QED
  BY <1>10 DEF longer

(* A child's path has one event more.                                        *)
LEMMA ExpandPath ==
  ASSUME problem \in Problems, NEW s, s.path \in Seq(Step),
         NEW a \in Known, NEW i \in From(a, 1), NEW k \in Nat, NEW todo, NEW g, NEW opening,
         NEW c \in Expand(s, todo, g, a, i, k, opening)
  PROVE  \E e \in Step : e.action = a /\ e.pos = i /\ e.id = k /\ c.path = Append(s.path, e)
<1> DEFINE e == [action |-> a, pos |-> i, id |-> k]
<1>1. e \in Step
  BY ProblemOK DEF From, Step
<1>2. c.path = Append(s.path, e)
  BY DEF Expand
<1> QED
  BY <1>1, <1>2

-----------------------------------------------------------------------------
(* The state the replay of a branch reaches.                                 *)
Replayed(s, r) ==
  /\ Mirrors(s, r)
  /\ Follows(s.path, r)
  /\ Applied - 1 <= Len(s.path)

(* One uncompressed step, replayed.                                          *)
LEMMA ReplayedStep ==
  ASSUME problem \in Problems, NEW s, NEW r, Replayed(s, r),
         NEW a \in Known, NEW c \in Successors(s, a, FALSE)
  PROVE  \E d : Replayed(c, d)
<1>1. Mirrors(s, r) /\ Follows(s.path, r) /\ r.path = s.path /\ r.todo = s.todo
      /\ s.path \in Seq(Step) /\ Good(s)
  BY DEF Replayed, Mirrors, Good, StateOK
<1>2. PICK d \in Successors(r, a, FALSE) : Mirrors(c, d)
  <2>1. CASE a \in DOMAIN s.todo
    <3>1. c \in Continued(s, a)
      BY <2>1 DEF Successors
    <3>2. a \in DOMAIN r.todo /\ \E d \in Continued(r, a) : Mirrors(c, d)
      BY <1>1, <2>1, <3>1, MirrorContinued
    <3> QED
      BY <3>2 DEF Successors
  <2>2. CASE a \notin DOMAIN s.todo
    <3>1. c \in Opened(s, a)
      BY <2>2 DEF Successors
    <3>2. \E d \in Opened(r, a) : Mirrors(c, d)
      BY <1>1, <3>1, MirrorOpened
    <3> QED
      BY <1>1, <2>2, <3>2 DEF Successors
  <2> QED
    BY <2>1, <2>2
<1>3. PICK e \in Step : e.action = a /\ c.path = Append(s.path, e)
  <2>1. CASE a \in DOMAIN s.todo
    <3>1. a \in Known /\ s.todo[a].next \in From(a, 1) /\ s.todo[a].id \in Nat
      BY <1>1, <2>1 DEF Good, StateOK, TodoOK
    <3>2. c \in Expand(s, Advanced(s.todo, a, s.todo[a].next + 1, s.todo[a].id), s.g + 1, a,
                       s.todo[a].next, s.todo[a].id, {})
      BY <2>1 DEF Successors, Continued
    <3> QED
      BY <1>1, <3>1, <3>2, ExpandPath
  <2>2. CASE a \notin DOMAIN s.todo
    <3>1. c \in Open(s, a, s.g + 1)
      BY <2>2 DEF Successors, Opened
    <3>2. FreshId(s) \in Nat /\ 1 \in From(a, 1)
      BY <1>1, FreshIdType, ProblemOK DEF From
    <3> QED
      BY <1>1, <3>1, <3>2, ExpandPath DEF Open
  <2> QED
    BY <2>1, <2>2
<1>4. d.path = c.path
  BY <1>2 DEF Mirrors
<1>5. Follows(c.path, d)
  BY <1>1, <1>2, <1>3, <1>4, FollowsFurther DEF Replayed
<1>6. Len(c.path) = Len(s.path) + 1 /\ Len(s.path) \in Nat
  BY <1>1, <1>3
<1>7. Applied - 1 <= Len(c.path)
  BY <1>6, AppliedType DEF Replayed
<1> QED
  BY <1>2, <1>5, <1>7 DEF Replayed

-----------------------------------------------------------------------------
(* A compressed action, replayed. The state x that expansion goes through    *)
(* after i events of a, opened in the state o.                               *)
Chain(o, a, x, i) ==
  /\ Good(x) /\ IsABag(x.active)
  /\ x.todo = Without(o.todo, a)
  /\ Len(x.path) = Len(o.path) + i - 1
  /\ \A j \in 1 .. i :
       /\ x.path[Len(o.path) + j - 1].action = a
       /\ x.path[Len(o.path) + j - 1].pos = j
       /\ x.path[Len(o.path) + j - 1].id = o.todo[a].id
  /\ \A c \in Events(a)[1].start \ UNION {Events(a)[j].end : j \in 2 .. i} : c \in BagToSet(x.active)

(* The state o: the first event of a was fired just now.                     *)
JustOpened(o, a) ==
  /\ Good(o) /\ IsABag(o.active) /\ o.path # <<>>
  /\ a \in DOMAIN o.todo /\ o.todo[a].next = 2
  /\ o.path[Len(o.path)].action = a
  /\ o.path[Len(o.path)].pos = 1
  /\ o.path[Len(o.path)].id = o.todo[a].id
  /\ Events(a)[1].start \subseteq BagToSet(o.active)
  /\ o.todo = Advanced(o.todo, a, 2, o.todo[a].id)

(* An action with more than one event, just opened.                          *)
LEMMA OpenedIsJustOpened ==
  ASSUME problem \in Problems, NEW s, Good(s), IsABag(s.active), NEW a \in Known,
         Len(Events(a)) > 1, NEW o \in Opened(s, a)
  PROVE  JustOpened(o, a)
<1> DEFINE k == FreshId(s)
           todo == Advanced(s.todo, a, 2, k)
<1>1. k \in Nat
  BY FreshIdType DEF Good, StateOK
<1>2. /\ o.todo = todo /\ o.active = ActiveAfter(a, 1, s.active)
      /\ o.path = Append(s.path, [action |-> a, pos |-> 1, id |-> k])
  BY DEF Opened, Open, Expand
<1>3. Good(o)
  BY OpenedNet
<1>4. s.path \in Seq(Step) /\ Len(Events(a)) \in Nat
  BY ProblemOK DEF Good, StateOK
<1>5. a \in DOMAIN todo /\ todo[a].next = 2 /\ todo[a].id = k
  BY <1>4 DEF Advanced
<1>10. todo = Advanced(todo, a, 2, k)
  <2>1. ~(2 > Len(Events(a)))
    BY <1>4
  <2>2. todo = [b \in DOMAIN s.todo \cup {a} |-> IF b = a THEN [next |-> 2, id |-> k] ELSE s.todo[b]]
    BY <2>1 DEF Advanced
  <2>3. Advanced(todo, a, 2, k)
          = [b \in DOMAIN todo \cup {a} |-> IF b = a THEN [next |-> 2, id |-> k] ELSE todo[b]]
    BY <2>1 DEF Advanced
  <2> HIDE DEF todo, k
  <2> QED
    BY <2>2, <2>3
<1> HIDE DEF k, todo
<1>6. [action |-> a, pos |-> 1, id |-> k] \in Step
  BY <1>1, ProblemOK DEF Step
<1>7. /\ o.path # <<>> /\ o.path[Len(o.path)] = [action |-> a, pos |-> 1, id |-> k]
  BY <1>2, <1>4, <1>6
<1>8. IsABag(o.active)
  BY <1>2, ActiveAfterIsBag
<1>9. Events(a)[1].start \subseteq BagToSet(o.active)
  BY <1>2, ActiveAfterKeeps
<1> QED
  BY <1>2, <1>3, <1>5, <1>7, <1>8, <1>9, <1>10 DEF JustOpened

(* The state that the rest of the action starts from.                        *)
LEMMA ChainBegins ==
  ASSUME problem \in Problems, NEW a \in Known, NEW o, JustOpened(o, a),
         NEW x, x = [o EXCEPT !.todo = Without(o.todo, a)]
  PROVE  Chain(o, a, x, 1)
<1>1. /\ Good(o) /\ StateOK(o) /\ NetOK(o) /\ o.path \in Seq(Step) /\ Len(o.path) \in Nat
  BY DEF JustOpened, Good, StateOK
<1>2. /\ x.assignments = o.assignments /\ x.path = o.path /\ x.active = o.active
      /\ x.tn = o.tn /\ x.todo = Without(o.todo, a) /\ Shaped(x)
  BY <1>1 DEF StateOK, Shaped
<1>3. TodoOK(x.todo)
  BY <1>1, <1>2 DEF StateOK, TodoOK, Without
<1>4. StateOK(x)
  BY <1>1, <1>2, <1>3 DEF StateOK, Kept, Ordered
<1>5. DOMAIN x.todo \subseteq DOMAIN o.todo
  BY <1>2 DEF Without
<1>6. IsFiniteSet(DOMAIN x.todo)
  BY <1>1, <1>5, FS_Subset DEF NetOK
<1>7. NetOK(x)
  BY <1>1, <1>2, <1>5, <1>6 DEF NetOK, JustOpened
<1>8. Good(x)
  BY <1>4, <1>7 DEF Good
<1>9. Len(o.path) + 1 - 1 = Len(o.path)
  BY <1>1
<1>10. UNION {Events(a)[j].end : j \in 2 .. 1} = {}
  OBVIOUS
<1>11. \A j \in 1 .. 1 : Len(o.path) + j - 1 = Len(o.path) /\ j = 1
  BY <1>1
<1> QED
  BY <1>2, <1>8, <1>9, <1>10, <1>11 DEF Chain, JustOpened

(* The next event of it.                                                     *)
LEMMA ChainGoesOn ==
  ASSUME problem \in Problems, NEW a \in Known, NEW o, JustOpened(o, a),
         NEW i \in From(a, 2), NEW x, Chain(o, a, x, i - 1), MayStart(a, i, x),
         NEW y \in Expand(x, x.todo, x.g + 1, a, i, o.todo[a].id, {})
  PROVE  Chain(o, a, y, i)
<1> DEFINE k == o.todo[a].id
           L == Len(o.path)
           new == [action |-> a, pos |-> i, id |-> k]
<1>1. /\ k \in Nat /\ i \in From(a, 1) /\ i \in Nat /\ i >= 2 /\ L \in Nat
  BY ProblemOK DEF JustOpened, Good, StateOK, TodoOK, From
<1>2. /\ Good(x) /\ StateOK(x) /\ NetOK(x) /\ TodoOK(x.todo) /\ IsFiniteSet(DOMAIN x.todo)
      /\ x.path \in Seq(Step) /\ IsABag(x.active)
  BY DEF Chain, Good, StateOK, NetOK
<1>3. Len(x.path) = L + i - 2 /\ x.path # <<>>
  BY <1>1, <1>2 DEF Chain, JustOpened
<1> HIDE DEF k, L
<1>4. StateOK(y)
  BY <1>1, <1>2, ExpandOK DEF k
<1>5. NetOK(y)
  BY <1>1, <1>2, <1>3, NoneTied, ExpandNet DEF k
<1>6. /\ y.todo = x.todo /\ y.active = ActiveAfter(a, i, x.active) /\ y.path = Append(x.path, new)
  BY DEF Expand, k
<1>7. new \in Step
  BY <1>1, ProblemOK DEF Step
<1>8. /\ Len(y.path) = L + i - 1 /\ y.path[L + i - 1] = new
      /\ \A n \in 1 .. L + i - 2 : y.path[n] = x.path[n]
  BY <1>1, <1>2, <1>3, <1>6, <1>7
<1>9. ASSUME NEW j \in 1 .. i
      PROVE  y.path[L + j - 1].action = a /\ y.path[L + j - 1].pos = j /\ y.path[L + j - 1].id = k
  <2>1. CASE j = i
    BY <1>8, <2>1
  <2>2. CASE j # i
    <3>1. j \in 1 .. i - 1 /\ L + j - 1 \in 1 .. L + i - 2
      <4>1. L >= 1
        BY <1>1 DEF JustOpened, Good, StateOK, L
      <4> QED
        BY <1>1, <2>2, <4>1
    <3> QED
      BY <1>8, <3>1 DEF Chain, L, k
  <2> QED
    BY <2>1, <2>2
<1>10. ASSUME NEW c \in Events(a)[1].start \ UNION {Events(a)[j].end : j \in 2 .. i}
       PROVE  c \in BagToSet(y.active)
  <2>1. c \notin Events(a)[i].end
    BY <1>1
  <2>2. \A j \in 2 .. i - 1 : j \in 2 .. i
    BY <1>1
  <2>3. c \in BagToSet(x.active)
    BY <2>2 DEF Chain
  <2> QED
    BY <1>2, <1>6, <2>1, <2>3, ActiveAfterKeeps
<1>11. IsABag(y.active)
  BY <1>2, <1>6, ActiveAfterIsBag
<1>12. y.todo = Without(o.todo, a)
  BY <1>6 DEF Chain
<1> QED
  BY <1>4, <1>5, <1>8, <1>9, <1>10, <1>11, <1>12 DEF Chain, Good, k, L

(* The states of a compressed expansion, in a row.                           *)
Row(f, o, a) ==
  f = [i \in From(a, 1) |->
        IF i = 1 THEN {[o EXCEPT !.todo = Without(o.todo, a)]}
        ELSE UNION {Expand(x, x.todo, x.g + 1, a, i, o.todo[a].id, {}) :
                      x \in {q \in f[i - 1] : MayStart(a, i, q)}}]

(* Each follows from the one before.                                         *)
LEMMA RowStep ==
  ASSUME NEW f, NEW o, NEW a, Row(f, o, a), NEW i \in From(a, 1), i # 1, NEW y \in f[i]
  PROVE  \E x \in f[i - 1] :
           MayStart(a, i, x) /\ y \in Expand(x, x.todo, x.g + 1, a, i, o.todo[a].id, {})
<1>1. f[i] = UNION {Expand(x, x.todo, x.g + 1, a, i, o.todo[a].id, {}) :
                      x \in {q \in f[i - 1] : MayStart(a, i, q)}}
  BY DEF Row
<1> QED
  BY <1>1

(* The first is the state the action was opened in, nothing of it pending.   *)
LEMMA RowStart ==
  ASSUME NEW f, NEW o, NEW a, Row(f, o, a), 1 \in From(a, 1), NEW y \in f[1]
  PROVE  y = [o EXCEPT !.todo = Without(o.todo, a)]
<1>1. f[1] = {[o EXCEPT !.todo = Without(o.todo, a)]}
  BY DEF Row
<1> QED
  BY <1>1

(* Each has the shape of its place in the row.                               *)
LEMMA RowIsChain ==
  ASSUME problem \in Problems, NEW a \in Known, NEW o, JustOpened(o, a),
         NEW f, Row(f, o, a), NEW i \in From(a, 1), NEW x \in f[i]
  PROVE  Chain(o, a, x, i)
<1> DEFINE Bad == {n \in From(a, 1) : \E y \in f[n] : ~Chain(o, a, y, n)}
<1>1. Len(Events(a)) \in Nat \ {0}
  BY ProblemOK
<1>2. Bad \in SUBSET Nat
  BY <1>1 DEF From
<1>3. Bad = {}
  <2> SUFFICES ASSUME Bad # {}
               PROVE  FALSE
    OBVIOUS
  <2>1. PICK n \in Bad : \A m \in Bad : n <= m
    <3> HIDE DEF Bad
    <3> QED
      BY <1>2, Least
  <2>2. n \in From(a, 1) /\ n \in Nat
    BY <1>1, <2>1 DEF From
  <2>3. PICK y \in f[n] : ~Chain(o, a, y, n)
    BY <2>1
  <2>4. CASE n = 1
    <3>1. y = [o EXCEPT !.todo = Without(o.todo, a)]
      BY <2>2, <2>3, <2>4, RowStart
    <3> QED
      BY <2>3, <2>4, <3>1, ChainBegins
  <2>5. CASE n # 1
    <3>1. n \in From(a, 2) /\ n - 1 \in From(a, 1) /\ n - 1 < n
      BY <1>1, <2>2, <2>5 DEF From
    <3>2. n - 1 \notin Bad
      <4> HIDE DEF Bad
      <4> QED
        BY <1>2, <2>1, <2>2, <3>1
    <3>3. PICK z \in f[n - 1] :
            MayStart(a, n, z) /\ y \in Expand(z, z.todo, z.g + 1, a, n, o.todo[a].id, {})
      BY <2>2, <2>3, <2>5, RowStep
    <3>4. Chain(o, a, z, n - 1)
      BY <3>1, <3>2, <3>3
    <3> QED
      BY <2>3, <3>1, <3>3, <3>4, ChainGoesOn
  <2> QED
    BY <2>4, <2>5
<1> QED
  BY <1>3

(* The replay q at x, a state of the row that ends in c.                     *)
Shadow(c, o, a, x, i, q) ==
  /\ Good(q)
  /\ q.assignments = x.assignments
  /\ q.active = x.active
  /\ q.path = x.path
  /\ q.todo = Advanced(o.todo, a, i + 1, o.todo[a].id)
  /\ Implies(c.tn.constraints, q.tn.constraints)
  /\ Follows(x.path, q)
  /\ Applied - 1 <= Len(x.path)

(* The conditions that compression does not look at hold.                    *)
LEMMA ShadowApplicable ==
  ASSUME problem \in Problems, NEW a \in Known, problem.safe[a], NEW o,
         NEW i \in From(a, 2), NEW x, Chain(o, a, x, i - 1), MayStart(a, i, x),
         NEW q, q.assignments = x.assignments
  PROVE  Applicable(a, i, q)
<1>1. Good(x) /\ Kept(x) /\ x.assignments \in Assignment
  BY DEF Chain, Good, StateOK
<1>2. \A c \in Events(a)[1].start \ UNION {Events(a)[j].end : j \in 2 .. i - 1} :
        x.assignments \in c.holds
  BY <1>1 DEF Chain, Kept, Holds
<1>3. Compressible(Events(a))
  BY ActionsOK
<1>4. x.assignments \in Events(a)[i].conditions.holds
  BY <1>1, <1>2, <1>3 DEF Compressible, From
<1> QED
  BY <1>4 DEF Applicable, Holds, MayStart

(* The network of the replay follows from that of c.                         *)
LEMMA ShadowOrderings ==
  ASSUME problem \in Problems, NEW a \in Known, NEW o, JustOpened(o, a),
         NEW i \in From(a, 1), NEW x, x.todo = Without(o.todo, a), NEW y,
         y \in Expand(x, x.todo, x.g + 1, a, i, o.todo[a].id, {}),
         NEW c, Chain(o, a, c, Len(Events(a))), y.tn.constraints \subseteq c.tn.constraints,
         NEW t \in [TimePoint -> Int], Satisfied(t, c.tn.constraints)
  PROVE  /\ Satisfied(t, AfterPath(x.path, a, i, o.todo[a].id))
         /\ Satisfied(t, BeforeTodo(Advanced(o.todo, a, i + 1, o.todo[a].id), a, i, o.todo[a].id))
<1> DEFINE k == o.todo[a].id
           L == Len(o.path)
           N == Len(Events(a))
           todo == Advanced(o.todo, a, i + 1, k)
<1>1. y.tn.constraints = x.tn.constraints \cup {}
                           \cup AfterPath(x.path, a, i, k) \cup BeforeTodo(x.todo, a, i, k)
  BY DEF Expand, Network
<1>2. Satisfied(t, AfterPath(x.path, a, i, k)) /\ Satisfied(t, BeforeTodo(x.todo, a, i, k))
  BY <1>1 DEF Satisfied
<1>3. N \in Nat /\ i \in 1 .. N /\ L \in Nat /\ L >= 1 /\ Len(c.path) = L + N - 1
      /\ c.path \in Seq(Step)
  <2>1. N \in Nat /\ i \in 1 .. N
    BY ProblemOK DEF From
  <2>2. L \in Nat /\ L >= 1
    BY DEF JustOpened, Good, StateOK
  <2> QED
    BY <2>1, <2>2 DEF Chain, Good, StateOK
<1>4. ASSUME NEW j \in i + 1 .. N
      PROVE  t[EventOf(a, k, j)] <= t[EventOf(a, k, i)] - problem.epsilon
  <2> DEFINE n == L + j - 1
             m == L + i - 1
  <2>1. n \in DOMAIN c.path /\ m \in 1 .. n - 1 /\ j \in 1 .. N /\ i \in 1 .. N
    BY <1>3
  <2>2. /\ c.path[n].action = a /\ c.path[n].pos = j /\ c.path[n].id = k
        /\ c.path[m].action = a /\ c.path[m].pos = i /\ c.path[m].id = k
    BY <2>1 DEF Chain
  <2> HIDE DEF n, m, k
  <2>3. t[PointOf(c.path[n])]
          <= t[PointOf(c.path[m])] - Gap(c.path[n].action, c.path[n].pos, c.path[m].action, c.path[m].pos)
    BY <2>1 DEF Chain, Good, StateOK, Ordered
  <2> QED
    BY <2>2, <2>3 DEF PointOf, Gap, Mutex
<1>5. ASSUME NEW e \in BeforeTodo(todo, a, i, k)
      PROVE  t[e.dst] <= t[e.src] + e.bound
  <2>1. PICK b \in DOMAIN todo : \E j \in From(b, todo[b].next) :
          e = Before(EventOf(a, k, i), EventOf(b, todo[b].id, j), Gap(a, i, b, j))
    BY DEF BeforeTodo
  <2>4. PICK j \in From(b, todo[b].next) :
          e = Before(EventOf(a, k, i), EventOf(b, todo[b].id, j), Gap(a, i, b, j))
    BY <2>1
  <2>2. CASE b = a
    <3>1. todo[a] = [next |-> i + 1, id |-> k]
      BY <2>1, <2>2 DEF Advanced, Without
    <3>2. j \in i + 1 .. N
      BY <2>4, <2>2, <3>1 DEF From
    <3>3. Gap(a, i, b, j) = problem.epsilon
      BY <2>2 DEF Gap, Mutex
    <3>4. e.src = EventOf(a, k, i) /\ e.dst = EventOf(a, k, j) /\ e.bound = -problem.epsilon
      BY <2>4, <2>2, <3>1, <3>3 DEF Before
    <3>5. t[EventOf(a, k, j)] <= t[EventOf(a, k, i)] - problem.epsilon
      BY <1>4, <3>2
    <3>6. t[EventOf(a, k, j)] \in Int /\ t[EventOf(a, k, i)] \in Int /\ problem.epsilon \in Int
      <4>1. a \in Action /\ k \in Nat /\ j \in Nat /\ i \in Nat
        BY <1>3, <3>2, ProblemOK DEF JustOpened, Good, StateOK, TodoOK
      <4> HIDE DEF k, todo
      <4>2. EventOf(a, k, j) \in TimePoint /\ EventOf(a, k, i) \in TimePoint
        BY <4>1, TimePoints
      <4> QED
        BY <4>2, ProblemOK
    <3> QED
      BY <3>4, <3>5, <3>6
  <2>3. CASE b # a
    <3>1. b \in DOMAIN x.todo /\ x.todo[b] = todo[b]
      BY <2>1, <2>3 DEF Advanced, Without
    <3>2. e \in BeforeTodo(x.todo, a, i, k)
      BY <2>4, <3>1 DEF BeforeTodo
    <3> QED
      BY <1>2, <3>2 DEF Satisfied
  <2> QED
    BY <2>2, <2>3
<1> QED
  BY <1>2, <1>5 DEF Satisfied

(* An action opened just now has its second event next.                      *)
LEMMA AdvancedTwice ==
  ASSUME NEW todo, NEW a, NEW i, NEW next, NEW id
  PROVE  Advanced(Advanced(todo, a, i, id), a, next, id) = Advanced(todo, a, next, id)
<1> DEFINE once == Advanced(todo, a, i, id)
<1>1. /\ DOMAIN once \ {a} = DOMAIN todo \ {a}
      /\ \A b \in DOMAIN todo \ {a} : once[b] = todo[b]
  BY DEF Advanced, Without
<1> HIDE DEF once
<1>2. Without(once, a) = Without(todo, a)
  BY <1>1 DEF Without
<1>3. DOMAIN once \cup {a} = DOMAIN todo \cup {a}
  BY <1>1
<1>4. [b \in DOMAIN once \cup {a} |-> IF b = a THEN [next |-> next, id |-> id] ELSE once[b]]
        = [b \in DOMAIN todo \cup {a} |-> IF b = a THEN [next |-> next, id |-> id] ELSE todo[b]]
  BY <1>1, <1>3
<1>5. Advanced(once, a, next, id) = Advanced(todo, a, next, id)
  BY <1>2, <1>4 DEF Advanced
<1> QED
  BY <1>5 DEF once

(* The next event of a compressed action, replayed.                          *)
LEMMA ShadowGoesOn ==
  ASSUME problem \in Problems, NEW a \in Known, problem.safe[a], NEW o, JustOpened(o, a),
         NEW c, Chain(o, a, c, Len(Events(a))),
         NEW i \in From(a, 2), NEW x, Chain(o, a, x, i - 1), MayStart(a, i, x),
         NEW y \in Expand(x, x.todo, x.g + 1, a, i, o.todo[a].id, {}), Chain(o, a, y, i),
         y.tn.constraints \subseteq c.tn.constraints,
         NEW q, Shadow(c, o, a, x, i - 1, q)
  PROVE  \E d : Shadow(c, o, a, y, i, d)
<1> DEFINE k == o.todo[a].id
           todo == Advanced(o.todo, a, i + 1, k)
           e == [action |-> a, pos |-> i, id |-> k]
<1>1. /\ Good(q) /\ q.assignments = x.assignments /\ q.active = x.active /\ q.path = x.path
      /\ q.todo = Advanced(o.todo, a, i, k)
      /\ Implies(c.tn.constraints, q.tn.constraints)
      /\ Follows(x.path, q) /\ Applied - 1 <= Len(x.path)
  <2>1. i - 1 + 1 = i
    BY ProblemOK DEF From
  <2> QED
    BY <2>1 DEF Shadow
<1>2. /\ k \in Nat /\ i \in From(a, 1) /\ i \in Nat /\ i <= Len(Events(a)) /\ i + 1 \in Nat \ {0}
      /\ x.path \in Seq(Step) /\ c.path \in Seq(Step) /\ Good(c) /\ Good(o)
  BY ProblemOK DEF JustOpened, Chain, Good, StateOK, TodoOK, From
<1>3. a \in DOMAIN q.todo /\ q.todo[a].next = i /\ q.todo[a].id = k
  BY <1>1, <1>2, ProblemOK DEF Advanced
<1>4. Applicable(a, i, q)
  BY <1>1, ShadowApplicable
<1>5. Advanced(q.todo, a, i + 1, k) = todo
  BY <1>1, AdvancedTwice
<1>6. Continued(q, a) = Expand(q, todo, q.g + 1, a, i, k, {})
  BY <1>3, <1>4, <1>5 DEF Continued
<1>7. TodoOK(todo) /\ IsFiniteSet(DOMAIN todo)
  <2> HIDE DEF k
  <2> QED
    BY <1>2, AdvancedOK, AdvancedFinite DEF Good, StateOK, NetOK
<1>8. \A t \in [TimePoint -> Int] : Satisfied(t, c.tn.constraints) =>
        /\ Satisfied(t, q.tn.constraints)
        /\ Satisfied(t, AfterPath(q.path, a, i, k))
        /\ Satisfied(t, BeforeTodo(todo, a, i, k))
  <2> SUFFICES ASSUME NEW t \in [TimePoint -> Int], Satisfied(t, c.tn.constraints)
               PROVE  /\ Satisfied(t, q.tn.constraints)
                      /\ Satisfied(t, AfterPath(q.path, a, i, k))
                      /\ Satisfied(t, BeforeTodo(todo, a, i, k))
    OBVIOUS
  <2>1. x.todo = Without(o.todo, a)
    BY DEF Chain
  <2>2. Satisfied(t, AfterPath(x.path, a, i, k)) /\ Satisfied(t, BeforeTodo(todo, a, i, k))
    BY <1>2, <2>1, ShadowOrderings
  <2>3. Satisfied(t, q.tn.constraints)
    BY <1>1 DEF Implies
  <2> QED
    BY <1>1, <2>2, <2>3
<1>9. ActiveHold(a, i, q, ActiveAfter(a, i, q.active))
  BY <1>1, ExpandFields DEF ActiveHold
<1>10. PICK t \in [TimePoint -> Int] : Satisfied(t, c.tn.constraints)
  <2>1. c.path # <<>> /\ NetOK(c)
    <3>1. Len(c.path) = Len(o.path) + Len(Events(a)) - 1 /\ Len(o.path) \in Nat
          /\ Len(o.path) >= 1 /\ Len(Events(a)) \in Nat \ {0}
      BY ProblemOK DEF JustOpened, Chain, Good, StateOK
    <3>2. Len(c.path) >= 1
      BY <3>1
    <3> QED
      BY <1>2, <3>2 DEF Good
  <2> QED
    BY <2>1, EarliestIsSchedule
<1>11. Good(q) /\ q.path \in Seq(Step) /\ Tied(q.tn.constraints)
  BY <1>1 DEF Good, StateOK, NetOK
<1> HIDE DEF k, todo
<1>12. Satisfied(t, {})
  BY DEF Satisfied
<1>13. PICK d : d \in Expand(q, todo, q.g + 1, a, i, k, {})
  BY <1>2, <1>7, <1>8, <1>9, <1>10, <1>11, <1>12, NoneTied, ExpandExists
<1>14. d \in Continued(q, a)
  BY <1>6, <1>13
<1>15. Good(d)
  BY <1>3, <1>11, <1>14, ContinuedNet
<1>16. /\ d.assignments = AfterEffects(a, i, q.assignments)
       /\ d.todo = todo
       /\ d.active = ActiveAfter(a, i, q.active)
       /\ d.path = Append(q.path, e)
       /\ d.tn.constraints = q.tn.constraints \cup {}
                               \cup AfterPath(q.path, a, i, k) \cup BeforeTodo(todo, a, i, k)
  BY <1>13 DEF Expand, Network
<1>17. /\ y.assignments = AfterEffects(a, i, x.assignments)
       /\ y.active = ActiveAfter(a, i, x.active)
       /\ y.path = Append(x.path, e)
  BY DEF Expand, k
<1>18. e \in Step
  BY <1>2, ProblemOK DEF Step
<1> HIDE DEF e
<1>19. Implies(c.tn.constraints, d.tn.constraints)
  BY <1>8, <1>16 DEF Implies, Satisfied
<1>20. Follows(y.path, d)
  <2>1. d \in Successors(q, a, FALSE)
    BY <1>3, <1>14 DEF Successors
  <2>2. e.action = a
    BY DEF e
  <2> QED
    BY <1>1, <1>2, <1>16, <1>17, <1>18, <2>1, <2>2, FollowsFurther
<1>21. Applied - 1 <= Len(y.path)
  <2>1. Len(y.path) = Len(x.path) + 1 /\ Len(x.path) \in Nat
    BY <1>2, <1>17, <1>18
  <2> QED
    BY <1>1, <2>1, AppliedType
<1> QED
  BY <1>1, <1>15, <1>16, <1>17, <1>19, <1>20, <1>21 DEF Shadow, todo, k

(* A compressed action, replayed event by event.                             *)
LEMMA FinishReplayed ==
  ASSUME problem \in Problems, NEW a \in Known, problem.safe[a], NEW o, JustOpened(o, a),
         NEW r, Replayed(o, r), NEW c \in Finish(o, a)
  PROVE  \E d : Replayed(c, d)
<1> DEFINE k == o.todo[a].id
           N == Len(Events(a))
<1>1. N \in Nat \ {0} /\ k \in Nat
  BY ProblemOK DEF JustOpened, Good, StateOK, TodoOK
<1>2. PICK f : Row(f, o, a) /\ Finish(o, a) = f[N]
  BY FinishUnfolds DEF Row
<1>3. N \in From(a, 1) /\ c \in f[N]
  BY <1>1, <1>2 DEF From
<1>4. Chain(o, a, c, N)
  BY <1>2, <1>3, RowIsChain
<1> DEFINE Lost(n, y) == y.tn.constraints \subseteq c.tn.constraints /\ ~ \E q : Shadow(c, o, a, y, n, q)
           Bad == {n \in From(a, 1) : \E y \in f[n] : Lost(n, y)}
<1>5. Bad \in SUBSET Nat
  BY <1>1 DEF From
<1>6. Bad = {}
  <2> SUFFICES ASSUME Bad # {}
               PROVE  FALSE
    OBVIOUS
  <2>1. PICK n \in Bad : \A m \in Bad : n <= m
    <3> HIDE DEF Bad
    <3> QED
      BY <1>5, Least
  <2>2. n \in From(a, 1) /\ n \in 1 .. N /\ n \in Nat
    BY <1>1, <2>1 DEF From
  <2>3. PICK y \in f[n] : Lost(n, y)
    BY <2>1
  <2>4. CASE n = 1
    <3>1. y = [o EXCEPT !.todo = Without(o.todo, a)]
      BY <1>2, <2>2, <2>3, <2>4, RowStart
    <3>2. /\ Mirrors(o, r) /\ Follows(o.path, r) /\ Applied - 1 <= Len(o.path)
          /\ Good(r) /\ r.assignments = o.assignments /\ r.todo = o.todo
          /\ r.active = o.active /\ r.path = o.path
          /\ Implies(o.tn.constraints, r.tn.constraints)
      BY DEF Replayed, Mirrors
    <3>3. y.assignments = o.assignments /\ y.path = o.path /\ y.active = o.active /\ y.tn = o.tn
      BY <3>1 DEF JustOpened, Good, StateOK, Shaped
    <3>4. Implies(c.tn.constraints, r.tn.constraints)
      <4>1. o.tn.constraints \subseteq c.tn.constraints
        BY <2>3, <3>3
      <4> QED
        BY <3>2, <4>1 DEF Implies, Satisfied
    <3>5. r.todo = Advanced(o.todo, a, 1 + 1, k)
      BY <3>2 DEF JustOpened
    <3>6. Shadow(c, o, a, y, 1, r)
      BY <3>2, <3>3, <3>4, <3>5 DEF Shadow
    <3> QED
      BY <2>3, <2>4, <3>6
  <2>5. CASE n # 1
    <3>1. n \in From(a, 2) /\ n - 1 \in From(a, 1) /\ n - 1 < n
      BY <1>1, <2>2, <2>5 DEF From
    <3>2. n - 1 \notin Bad
      <4> HIDE DEF Bad
      <4> QED
        BY <1>5, <2>1, <2>2, <3>1
    <3>3. PICK x \in f[n - 1] :
            MayStart(a, n, x) /\ y \in Expand(x, x.todo, x.g + 1, a, n, o.todo[a].id, {})
      BY <1>2, <2>2, <2>3, <2>5, RowStep
    <3>4. Chain(o, a, x, n - 1) /\ Chain(o, a, y, n)
      BY <1>2, <2>2, <2>3, <3>1, <3>3, RowIsChain
    <3>5. x.tn.constraints \subseteq y.tn.constraints
      BY <3>3 DEF Expand, Network
    <3>6. PICK q : Shadow(c, o, a, x, n - 1, q)
      BY <2>3, <3>1, <3>2, <3>3, <3>5
    <3>7. \E d : Shadow(c, o, a, y, n, d)
      BY <1>4, <2>3, <3>1, <3>3, <3>4, <3>6, ShadowGoesOn
    <3> QED
      BY <2>3, <3>7
  <2> QED
    BY <2>4, <2>5
<1>7. PICK q : Shadow(c, o, a, c, N, q)
  BY <1>3, <1>6
<1>8. q.todo = c.todo
  <2>1. q.todo = Without(o.todo, a)
    BY <1>1, <1>7 DEF Shadow, Advanced
  <2> QED
    BY <1>4, <2>1 DEF Chain
<1> QED
  BY <1>4, <1>7, <1>8 DEF Shadow, Chain, Replayed, Mirrors

(* Any successor can be replayed.                                            *)
LEMMA SuccessorReplayed ==
  ASSUME problem \in Problems, NEW s, NEW r, Replayed(s, r), NEW a \in Known,
         NEW c \in Successors(s, a, TRUE)
  PROVE  \E d : Replayed(c, d)
<1>1. CASE c \in Successors(s, a, FALSE)
  BY <1>1, ReplayedStep
<1>2. CASE /\ a \notin DOMAIN s.todo /\ problem.safe[a] /\ Len(Events(a)) > 1
           /\ c \in UNION {Finish(o, a) : o \in Opened(s, a)}
  <2>1. PICK o \in Opened(s, a) : c \in Finish(o, a)
    BY <1>2
  <2>2. Good(s) /\ IsABag(s.active)
    BY DEF Replayed, Mirrors
  <2>3. JustOpened(o, a)
    BY <1>2, <2>1, <2>2, OpenedIsJustOpened
  <2>4. o \in Successors(s, a, FALSE)
    BY <1>2, <2>1 DEF Successors
  <2>5. PICK q : Replayed(o, q)
    BY <2>4, ReplayedStep
  <2> QED
    BY <1>2, <2>1, <2>3, <2>5, FinishReplayed
<1> QED
  BY <1>1, <1>2 DEF Successors

(* The replay starts where the search starts.                                *)
LEMMA InitialReplayed ==
  ASSUME problem \in Problems, NEW s \in InitialStates
  PROVE  Replayed(s, s)
<1>1. Good(s)
  BY InitialNet
<1>2. IsABag(Root.active)
  BY DEF Root, EmptyBag, SetToBag, IsABag
<1>3. Len(s.path) = Applied - 1 /\ IsABag(s.active)
  <2>1. CASE problem.timed = NoTimed
    BY <1>2, <2>1 DEF InitialStates, Root, Applied
  <2>2. CASE problem.timed # NoTimed
    <3>1. s \in Open(Root, problem.timed, 0)
      BY <2>2 DEF InitialStates
    <3>2. /\ s.active = ActiveAfter(problem.timed, 1, Root.active)
          /\ s.path = Append(Root.path, [action |-> problem.timed, pos |-> 1, id |-> FreshId(Root)])
      BY <3>1 DEF Open, Expand
    <3>3. Root.path = <<>>
      BY DEF Root
    <3> QED
      BY <1>2, <2>2, <3>2, <3>3, ActiveAfterIsBag DEF Applied
  <2> QED
    BY <2>1, <2>2
<1>4. Follows(s.path, s)
  <2> DEFINE f == [n \in {Applied - 1} |-> s]
  <2>1. f[Applied - 1] = s /\ f[Len(s.path)] = s
    BY <1>3
  <2>2. Applied .. Len(s.path) = {} /\ Applied - 1 .. Len(s.path) = {Applied - 1}
    BY <1>3, AppliedType
  <2> HIDE DEF f
  <2>3. \A n \in Applied - 1 .. Len(s.path) : Len(f[n].path) = n /\ \A m \in 1 .. n : f[n].path[m] = s.path[m]
    BY <1>3, <2>1, <2>2
  <2>4. Trail(f, s.path)
    BY <2>1, <2>2, <2>3 DEF Trail
  <2> QED
    BY <2>1, <2>4 DEF Follows
<1>5. Implies(s.tn.constraints, s.tn.constraints)
  BY DEF Implies
<1> QED
  BY <1>1, <1>3, <1>4, <1>5, AppliedType DEF Replayed, Mirrors

-----------------------------------------------------------------------------
(* What the space is made of depends on the problem alone, and the problem   *)
(* does not change: its orderings.                                           *)
LEMMA SameOrderings ==
  ASSUME problem' = problem
  PROVE  /\ \A a, i : From(a, i)' = From(a, i)
         /\ \A a, i, b, j : Gap(a, i, b, j)' = Gap(a, i, b, j)
         /\ \A path, a, i, k : AfterPath(path, a, i, k)' = AfterPath(path, a, i, k)
         /\ \A todo, a, i, k : BeforeTodo(todo, a, i, k)' = BeforeTodo(todo, a, i, k)
         /\ \A a, k, v : OpeningConstraints(a, k, v)' = OpeningConstraints(a, k, v)
<1>1. \A a, i : /\ Events(a)' = Events(a) /\ From(a, i)' = From(a, i)
                /\ Writes(a, i)' = Writes(a, i) /\ Reads(a, i)' = Reads(a, i)
  BY DEF Events, From, Writes, Reads, EventReads
<1>2. \A a, i, b, j : Mutex(a, i, b, j)' <=> Mutex(a, i, b, j)
  BY <1>1 DEF Mutex
<1>3. \A a, i, b, j : Gap(a, i, b, j)' = Gap(a, i, b, j)
  BY <1>2 DEF Gap
<1>4. \A path, a, i, k : AfterPath(path, a, i, k)' = AfterPath(path, a, i, k)
  BY <1>2, <1>3 DEF AfterPath
<1>5. \A todo, a, i, k : BeforeTodo(todo, a, i, k)' = BeforeTodo(todo, a, i, k)
  BY <1>1, <1>3 DEF BeforeTodo
<1>6. \A a, k : Anchored(a, k)' = Anchored(a, k)
  BY <1>1 DEF Anchored
<1>7. \A a, k, v : Lasting(a, k, v)' = Lasting(a, k, v)
  BY DEF Lasting
<1>8. \A a, k, v : OpeningConstraints(a, k, v)' = OpeningConstraints(a, k, v)
  BY <1>6, <1>7 DEF OpeningConstraints
<1> QED
  BY <1>1, <1>3, <1>4, <1>5, <1>8

(* The same of the child of a state.                                         *)
LEMMA SameExpansion ==
  ASSUME problem' = problem
  PROVE  /\ \A a, i, s : Applicable(a, i, s)' <=> Applicable(a, i, s)
         /\ \A s, todo, g, a, i, k, opening :
              Expand(s, todo, g, a, i, k, opening)' = Expand(s, todo, g, a, i, k, opening)
         /\ \A todo, a, next, id : Advanced(todo, a, next, id)' = Advanced(todo, a, next, id)
<1>1. \A a, i : Events(a)' = Events(a) /\ Writes(a, i)' = Writes(a, i)
  BY DEF Events, Writes
<1>2. \A a, i, s : MayStart(a, i, s)' <=> MayStart(a, i, s)
  BY <1>1 DEF MayStart, EffectIndependent
<1>3. \A a, i, s : Applicable(a, i, s)' <=> Applicable(a, i, s)
  BY <1>1, <1>2 DEF Applicable
<1>4. \A a, i, v : AfterEffects(a, i, v)' = AfterEffects(a, i, v)
  BY <1>1 DEF AfterEffects
<1>5. \A a, i, active : ActiveAfter(a, i, active)' = ActiveAfter(a, i, active)
  BY <1>1 DEF ActiveAfter
<1>6. \A a, i, s, active : ActiveHold(a, i, s, active)' <=> ActiveHold(a, i, s, active)
  BY <1>1, <1>4 DEF ActiveHold
<1>7. \A s, todo, g, a, i, k, opening :
        Expand(s, todo, g, a, i, k, opening)' = Expand(s, todo, g, a, i, k, opening)
  <2> TAKE s, todo, g, a, i, k, opening
  <2> DEFINE child(effects, active, before, after) ==
               [assignments |-> effects, todo |-> todo, active |-> active,
                path |-> Append(s.path, [action |-> a, pos |-> i, id |-> k]),
                tn |-> Network(s.tn.constraints \cup opening \cup before \cup after),
                g |-> g]
             only(holds, r) == {c \in {r} : holds /\ Sat(c.tn)}
  <2>1. Expand(s, todo, g, a, i, k, opening)
          = only(ActiveHold(a, i, s, ActiveAfter(a, i, s.active)),
                 child(AfterEffects(a, i, s.assignments), ActiveAfter(a, i, s.active),
                       AfterPath(s.path, a, i, k), BeforeTodo(todo, a, i, k)))
    BY DEF Expand
  <2>2. Expand(s, todo, g, a, i, k, opening)'
          = only(ActiveHold(a, i, s, ActiveAfter(a, i, s.active))',
                 child(AfterEffects(a, i, s.assignments)', ActiveAfter(a, i, s.active)',
                       AfterPath(s.path, a, i, k)', BeforeTodo(todo, a, i, k)'))
    BY DEF Expand
  <2>3. ActiveHold(a, i, s, ActiveAfter(a, i, s.active))'
          = ActiveHold(a, i, s, ActiveAfter(a, i, s.active))
    BY <1>5, <1>6 DEF ActiveHold
  <2> HIDE DEF only, child
  <2> QED
    BY <1>4, <1>5, <2>1, <2>2, <2>3, SameOrderings
<1>8. \A todo, a, next, id : Advanced(todo, a, next, id)' = Advanced(todo, a, next, id)
  BY <1>1 DEF Advanced
<1> QED
  BY <1>3, <1>7, <1>8

(* The same of the initial states and of the successors.                     *)
LEMMA SameSpace ==
  ASSUME problem' = problem
  PROVE  /\ InitialStates' = InitialStates
         /\ \A s, a : Successors(s, a, FALSE)' = Successors(s, a, FALSE)
<1>1. \A s, a, g : Open(s, a, g)' = Open(s, a, g)
  BY SameExpansion, SameOrderings DEF Open
<1>2. Root' = Root
  BY DEF Root
<1>3. InitialStates' = InitialStates
  BY <1>1, <1>2, SameExpansion DEF InitialStates
<1>4. \A s, a : SymmetryAllows(s, a)' <=> SymmetryAllows(s, a)
  BY DEF SymmetryAllows
<1>5. \A s, a : Opened(s, a)' = Opened(s, a)
  BY <1>1, <1>4, SameExpansion DEF Opened
<1>6. \A s, a : Continued(s, a)' = Continued(s, a)
  BY SameExpansion DEF Continued
<1>7. \A s, a : Successors(s, a, FALSE)' = Successors(s, a, FALSE)
  BY <1>5, <1>6 DEF Successors
<1> QED
  BY <1>3, <1>7

(* A state that is good stays so.                                            *)
LEMMA SameGood ==
  ASSUME problem' = problem, NEW s, Good(s)
  PROVE  Good(s)'
<1>1. TodoOK(s.todo)'
  BY SameOrderings DEF Good, StateOK, TodoOK, Known
<1>2. Ordered(s)'
  BY SameOrderings DEF Good, StateOK, Ordered
<1> QED
  BY <1>1, <1>2 DEF Good, StateOK, Shaped, Kept, NetOK

(* The replay of a branch stays its replay.                                  *)
LEMMA SameReplay ==
  ASSUME problem' = problem, NEW s, NEW r, Replayed(s, r)
  PROVE  Replayed(s, r)'
<1>1. Mirrors(s, r)'
  BY SameGood DEF Replayed, Mirrors
<1>2. Applied' = Applied
  BY DEF Applied
<1>3. PICK f : Trail(f, s.path) /\ r = f[Len(s.path)]
  BY DEF Replayed, Follows
<1>4. Trail(f, s.path)'
  BY <1>2, <1>3, SameSpace DEF Trail, Known
<1>5. Follows(s.path, r)'
  BY <1>3, <1>4 DEF Follows
<1> QED
  BY <1>1, <1>2, <1>5 DEF Replayed

(* Every state has a replay.                                                 *)
RInv == IInv /\ \E r : Replayed(state, r)

(* That every state has a replay is inductive.                               *)
LEMMA RInvHolds == Spec => []RInv
<1>1. Init => RInv
  <2> SUFFICES ASSUME Init PROVE RInv
    OBVIOUS
  <2>1. IInv
    BY InitInv
  <2>2. Replayed(state, state)
    BY InitialReplayed DEF Init
  <2> QED
    BY <2>1, <2>2 DEF RInv
<1>2. RInv /\ [Next]_vars => RInv'
  <2> SUFFICES ASSUME RInv, [Next]_vars
               PROVE  RInv'
    OBVIOUS
  <2>1. IInv /\ IInv' /\ problem' = problem /\ problem \in Problems
    BY NextInv, NextGrows DEF RInv, IInv
  <2>2. PICK r : Replayed(state, r)
    BY DEF RInv
  <2>3. PICK d : Replayed(state', d)
    <3>1. CASE Next
      <4>1. PICK a \in problem.relevant : Apply(a)
        BY <3>1 DEF Next
      <4>2. a \in Known
        BY DEF Known
      <4> QED
        BY <2>1, <2>2, <4>1, <4>2, SuccessorReplayed DEF Apply
    <3>2. CASE UNCHANGED vars
      BY <2>2, <3>2 DEF vars
    <3> QED
      BY <3>1, <3>2
  <2>4. \A s : Replayed(s, d) => Replayed(s, d)'
    BY <2>1, SameReplay
  <2>5. Replayed(state, d)'
    BY <2>3, <2>4
  <2> QED
    BY <2>1, <2>5 DEF RInv
<1> QED
  BY <1>1, <1>2, PTL DEF Spec

-----------------------------------------------------------------------------
(* The replay goes through the states of the trail, and no others.           *)
LEMMA ReplayIsTrail ==
  ASSUME NEW s, Len(s.path) \in Nat, NEW f, Trail(f, s.path), NEW n \in Applied - 1 .. Len(s.path)
  PROVE  Replay(s)[n] = {f[n]}
<1> DEFINE D == Applied - 1 .. Len(s.path)
           Body(h, m) == IF m = Applied - 1 THEN InitialStates
                         ELSE UNION {Successors(r, s.path[m].action, FALSE) : r \in h[m - 1]}
           g == [m \in D |-> {f[m]}]
           Bad == {m \in D : Replay(s)[m] # {f[m]}}
<1>1. Applied \in {1, 2}
  BY AppliedType
<1>2. ASSUME NEW h, NEW m \in D, m # Applied - 1 => h[m - 1] = {f[m - 1]}
      PROVE  Body(h, m) = {f[m]}
  <2>1. CASE m = Applied - 1
    <3>1. f[m] \in InitialStates
      BY <2>1 DEF Trail
    <3> QED
      BY <2>1, <3>1, InitialIsUnique
  <2>2. CASE m # Applied - 1
    <3>1. m \in Applied .. Len(s.path)
      BY <1>1, <2>2
    <3>2. f[m] \in Successors(f[m - 1], s.path[m].action, FALSE)
      BY <3>1 DEF Trail
    <3>3. Successors(f[m - 1], s.path[m].action, FALSE) = {f[m]}
      BY <3>2, SuccessorIsUnique
    <3> QED
      BY <1>2, <2>2, <3>3
  <2> QED
    BY <2>1, <2>2
<1>3. \A m \in D : m # Applied - 1 => m - 1 \in D /\ m - 1 < m
  BY <1>1
<1>4. g = [m \in D |-> Body(g, m)]
  <2>1. \A m \in D : m # Applied - 1 => g[m - 1] = {f[m - 1]}
    BY <1>3
  <2>2. g = [m \in D |-> {f[m]}]
    OBVIOUS
  <2> HIDE DEF g, Body, D
  <2>3. \A m \in D : Body(g, m) = {f[m]}
    BY <1>2, <2>1
  <2> QED
    BY <2>2, <2>3
<1>5. Replay(s) = [m \in D |-> Body(Replay(s), m)]
  <2> DEFINE C == CHOOSE h : h = [m \in D |-> Body(h, m)]
  <2>1. \E h : h = [m \in D |-> Body(h, m)]
    <3> HIDE DEF g, Body, D
    <3> QED
      BY <1>4
  <2>2. C = [m \in D |-> Body(C, m)]
    <3> HIDE DEF Body, D
    <3> QED
      BY <2>1
  <2>3. Replay(s) = C
    BY DEF Replay
  <2> HIDE DEF C, Body, D
  <2> QED
    BY <2>2, <2>3
<1>6. \A m \in D : Replay(s)[m] = Body(Replay(s), m)
  <2> HIDE DEF Body, D
  <2> QED
    BY <1>5
<1> HIDE DEF Body
<1>7. Bad \in SUBSET Nat
  BY <1>1
<1>8. Bad = {}
  <2> SUFFICES ASSUME Bad # {}
               PROVE  FALSE
    OBVIOUS
  <2>1. PICK m \in Bad : \A k \in Bad : m <= k
    <3> HIDE DEF Bad
    <3> QED
      BY <1>7, Least
  <2>2. m \in D /\ m \in Int /\ Replay(s)[m] # {f[m]}
    BY <2>1
  <2>3. m # Applied - 1 => Replay(s)[m - 1] = {f[m - 1]}
    <3> SUFFICES ASSUME m # Applied - 1
                 PROVE  m - 1 \in D /\ m - 1 \notin Bad
      OBVIOUS
    <3>1. m - 1 \in D /\ m - 1 < m
      BY <1>3, <2>2
    <3>2. m - 1 \in Bad => m <= m - 1
      <4> HIDE DEF Bad
      <4> QED
        BY <2>1
    <3> QED
      BY <2>2, <3>1, <3>2
  <2>4. Body(Replay(s), m) = {f[m]}
    <3> HIDE DEF D
    <3> QED
      BY <1>2, <2>2, <2>3
  <2> QED
    BY <1>6, <2>2, <2>4
<1> QED
  BY <1>8

-----------------------------------------------------------------------------
(* What the branch has recorded. Firing e, the next event of its action, the *)
(* child c of p keeps p's orderings and adds those of e.                     *)
Fires(p, c, e) ==
  /\ e \in Step /\ e.action \in Known /\ e.pos \in From(e.action, 1)
  /\ c.path = Append(p.path, e)
  /\ p.tn.constraints \subseteq c.tn.constraints
  /\ BeforeTodo(c.todo, e.action, e.pos, e.id) \subseteq c.tn.constraints
  /\ e.pos = 1 =>
       /\ OpeningConstraints(e.action, e.id, p.assignments) \subseteq c.tn.constraints
       /\ \A j \in From(e.action, 2) :
            Before(EventOf(e.action, e.id, 1), EventOf(e.action, e.id, j), problem.epsilon)
              \in c.tn.constraints

(* The first event of an action in progress is fired.                        *)
Begun(s) == \A b \in DOMAIN s.todo : s.todo[b].next >= 2

(* The next event of an action is at least as far as asked.                  *)
LEMMA AdvancedBegun ==
  ASSUME NEW todo, \A b \in DOMAIN todo : todo[b].next >= 2, NEW a, NEW next, next >= 2, NEW id,
         NEW b \in DOMAIN Advanced(todo, a, next, id)
  PROVE  Advanced(todo, a, next, id)[b].next >= 2
BY DEF Advanced, Without

(* Opening an action.                                                        *)
LEMMA OpenFires ==
  ASSUME problem \in Problems, NEW p, Good(p), Begun(p), NEW a \in Known, NEW g, NEW c \in Open(p, a, g)
  PROVE  Begun(c) /\ \E e : e.action = a /\ e.pos = 1 /\ Fires(p, c, e)
<1> DEFINE k == FreshId(p)
           todo == Advanced(p.todo, a, 2, k)
           opening == OpeningConstraints(a, k, p.assignments)
           e == [action |-> a, pos |-> 1, id |-> k]
<1>1. k \in Nat
  BY FreshIdType DEF Good, StateOK
<1>2. e \in Step /\ 1 \in From(a, 1)
  BY <1>1, ProblemOK DEF Step, From
<1>3. /\ c.todo = todo /\ c.path = Append(p.path, e)
      /\ c.tn.constraints = p.tn.constraints \cup opening
                              \cup AfterPath(p.path, a, 1, k) \cup BeforeTodo(todo, a, 1, k)
  BY DEF Open, Expand, Network
<1>4. \A b \in DOMAIN todo : todo[b].next >= 2
  <2> HIDE DEF k
  <2> QED
    BY AdvancedBegun DEF Begun
<1>5. ASSUME NEW j \in From(a, 2)
      PROVE  Before(EventOf(a, k, 1), EventOf(a, k, j), problem.epsilon) \in BeforeTodo(todo, a, 1, k)
  <2>1. ~(2 > Len(Events(a)))
    BY ProblemOK DEF From
  <2>2. a \in DOMAIN todo /\ todo[a].next = 2 /\ todo[a].id = k
    BY <2>1 DEF Advanced
  <2>3. Gap(a, 1, a, j) = problem.epsilon
    BY DEF Gap, Mutex
  <2> HIDE DEF todo, k
  <2> QED
    BY <2>2, <2>3 DEF BeforeTodo
<1> HIDE DEF k, todo, opening
<1>6. Fires(p, c, e)
  BY <1>1, <1>2, <1>3, <1>5 DEF Fires, opening
<1> QED
  BY <1>3, <1>4, <1>6 DEF Begun

(* The next event of an action in progress.                                  *)
LEMMA ContinuedFires ==
  ASSUME problem \in Problems, NEW p, Good(p), Begun(p), NEW a \in DOMAIN p.todo,
         NEW c \in Continued(p, a)
  PROVE  Begun(c) /\ \E e : e.action = a /\ Fires(p, c, e)
<1> DEFINE i == p.todo[a].next
           k == p.todo[a].id
           todo == Advanced(p.todo, a, i + 1, k)
           e == [action |-> a, pos |-> i, id |-> k]
<1>1. a \in Known /\ i \in From(a, 1) /\ k \in Nat /\ i >= 2
  BY DEF Begun, Good, StateOK, TodoOK
<1>2. e \in Step /\ i \in Nat
  BY <1>1, ProblemOK DEF Step, From
<1>3. /\ c.todo = todo /\ c.path = Append(p.path, e)
      /\ c.tn.constraints = p.tn.constraints \cup {}
                              \cup AfterPath(p.path, a, i, k) \cup BeforeTodo(todo, a, i, k)
  BY DEF Continued, Expand, Network
<1> HIDE DEF i, k
<1>4. \A b \in DOMAIN todo : todo[b].next >= 2
  <2>1. i + 1 >= 2
    BY <1>1, <1>2
  <2> QED
    BY <2>1, AdvancedBegun DEF Begun
<1> HIDE DEF todo
<1>5. Fires(p, c, e)
  BY <1>1, <1>2, <1>3 DEF Fires
<1> QED
  BY <1>3, <1>4, <1>5 DEF Begun

(* A successor, uncompressed.                                                *)
LEMMA SuccessorFires ==
  ASSUME problem \in Problems, NEW p, Good(p), Begun(p), NEW a \in Known,
         NEW c \in Successors(p, a, FALSE)
  PROVE  Begun(c) /\ \E e : e.action = a /\ (p.todo = <<>> => e.pos = 1) /\ Fires(p, c, e)
<1>1. CASE a \in DOMAIN p.todo
  BY <1>1, ContinuedFires DEF Successors
<1>2. CASE a \notin DOMAIN p.todo
  <2>1. c \in Open(p, a, p.g + 1)
    BY <1>2 DEF Successors, Opened
  <2> QED
    BY <2>1, OpenFires
<1> QED
  BY <1>1, <1>2

(* The start of a trail.                                                     *)
LEMMA InitialFires ==
  ASSUME problem \in Problems, NEW s \in InitialStates
  PROVE  /\ Good(s) /\ Begun(s) /\ Root.tn.constraints \subseteq s.tn.constraints
         /\ problem.timed = NoTimed => s = Root
         /\ problem.timed # NoTimed => \E e : e.action = problem.timed /\ e.pos = 1 /\ Fires(Root, s, e)
<1>1. Good(s)
  BY InitialNet
<1>2. Begun(Root)
  BY DEF Begun, Root
<1>3. CASE problem.timed = NoTimed
  BY <1>1, <1>2, <1>3 DEF InitialStates
<1>4. CASE problem.timed # NoTimed
  <2>1. s \in Open(Root, problem.timed, 0)
    BY <1>4 DEF InitialStates
  <2>2. Good(Root)
    BY RootIsGood
  <2>3. problem.timed \in Known
    BY <1>4 DEF Known
  <2>4. Begun(s) /\ \E e : e.action = problem.timed /\ e.pos = 1 /\ Fires(Root, s, e)
    BY <1>2, <2>1, <2>2, <2>3, OpenFires
  <2> QED
    BY <1>1, <1>4, <2>4 DEF Fires
<1> QED
  BY <1>3, <1>4

(* The states of a trail are good.                                           *)
LEMMA TrailGood ==
  ASSUME problem \in Problems, NEW path \in Seq(Step), NEW f, Trail(f, path),
         NEW n \in Applied - 1 .. Len(path)
  PROVE  Good(f[n]) /\ Begun(f[n])
<1> DEFINE D == Applied - 1 .. Len(path)
           Bad == {m \in D : ~(Good(f[m]) /\ Begun(f[m]))}
<1>1. Applied \in {1, 2} /\ Len(path) \in Nat
  BY AppliedType
<1>2. Bad \in SUBSET Nat
  BY <1>1
<1>3. Bad = {}
  <2> SUFFICES ASSUME Bad # {}
               PROVE  FALSE
    OBVIOUS
  <2>1. PICK m \in Bad : \A k \in Bad : m <= k
    <3> HIDE DEF Bad
    <3> QED
      BY <1>2, Least
  <2>2. m \in D /\ m \in Int /\ ~(Good(f[m]) /\ Begun(f[m]))
    BY <2>1
  <2>3. CASE m = Applied - 1
    <3>1. f[m] \in InitialStates
      BY <2>3 DEF Trail
    <3> QED
      BY <2>2, <3>1, InitialFires
  <2>4. CASE m # Applied - 1
    <3>1. m \in Applied .. Len(path) /\ m - 1 \in D /\ m - 1 < m
      BY <1>1, <2>2, <2>4
    <3>2. m - 1 \notin Bad
      <4> HIDE DEF Bad
      <4> QED
        BY <1>1, <2>1, <2>2, <3>1
    <3>3. Good(f[m - 1]) /\ Begun(f[m - 1])
      BY <3>1, <3>2
    <3>4. path[m].action \in Known /\ f[m] \in Successors(f[m - 1], path[m].action, FALSE)
      BY <3>1 DEF Trail
    <3>5. Good(f[m])
      BY <3>3, <3>4, SuccessorsNet
    <3>6. Begun(f[m])
      BY <3>3, <3>4, SuccessorFires
    <3> QED
      BY <2>2, <3>5, <3>6
  <2> QED
    BY <2>3, <2>4
<1> QED
  BY <1>3

(* Each fires the event of its place in the path.                            *)
LEMMA TrailFires ==
  ASSUME problem \in Problems, NEW path \in Seq(Step), NEW f, Trail(f, path),
         NEW n \in Applied .. Len(path)
  PROVE  /\ Fires(f[n - 1], f[n], path[n])
         /\ f[n - 1].todo = <<>> => path[n].pos = 1
<1>1. /\ Applied \in {1, 2} /\ Len(path) \in Nat /\ n - 1 \in Applied - 1 .. Len(path)
      /\ n \in Applied - 1 .. Len(path) /\ n \in 1 .. n /\ n \in Nat
  BY AppliedType
<1>2. Good(f[n - 1]) /\ Begun(f[n - 1])
  BY <1>1, TrailGood
<1>3. path[n].action \in Known /\ f[n] \in Successors(f[n - 1], path[n].action, FALSE)
  BY DEF Trail
<1>4. PICK e : /\ (f[n - 1].todo = <<>> => e.pos = 1)
               /\ Fires(f[n - 1], f[n], e)
  BY <1>2, <1>3, SuccessorFires
<1>5. e = path[n]
  <2>1. f[n].path = Append(f[n - 1].path, e) /\ f[n - 1].path \in Seq(Step) /\ e \in Step
    BY <1>2, <1>4 DEF Fires, Good, StateOK
  <2>2. Len(f[n - 1].path) = n - 1 /\ f[n].path[n] = path[n]
    BY <1>1 DEF Trail
  <2> QED
    BY <1>1, <2>1, <2>2
<1> QED
  BY <1>4, <1>5

(* The timed action is open from the start.                                  *)
LEMMA TrailStarts ==
  ASSUME problem \in Problems, problem.timed # NoTimed,
         NEW path \in Seq(Step), Len(path) >= 1, NEW f, Trail(f, path)
  PROVE  Fires(Root, f[1], path[1]) /\ path[1].pos = 1 /\ path[1].action = problem.timed
<1>1. Applied = 2
  BY DEF Applied
<1>2. f[1] \in InitialStates /\ 1 \in Applied - 1 .. Len(path)
  BY <1>1 DEF Trail
<1>3. PICK e : e.action = problem.timed /\ e.pos = 1 /\ Fires(Root, f[1], e)
  BY <1>2, InitialFires
<1>4. e = path[1]
  <2>1. f[1].path = Append(<<>>, e) /\ e \in Step
    BY <1>3 DEF Fires, Root
  <2>2. f[1].path[1] = path[1]
    BY <1>2 DEF Trail
  <2> QED
    BY <2>1, <2>2
<1> QED
  BY <1>3, <1>4

(* Nothing recorded is dropped.                                              *)
LEMMA TrailGrows ==
  ASSUME problem \in Problems, NEW path \in Seq(Step), NEW f, Trail(f, path),
         NEW n \in Applied - 1 .. Len(path)
  PROVE  f[n].tn.constraints \subseteq f[Len(path)].tn.constraints
<1> DEFINE L == Len(path)
           Bad == {k \in 0 .. L - (Applied - 1) : ~(f[L - k].tn.constraints \subseteq f[L].tn.constraints)}
<1>1. Applied \in {1, 2} /\ L \in Nat /\ n \in Int
  BY AppliedType
<1>2. Bad \in SUBSET Nat
  BY <1>1
<1>3. Bad = {}
  <2> SUFFICES ASSUME Bad # {}
               PROVE  FALSE
    OBVIOUS
  <2>1. PICK k \in Bad : \A j \in Bad : k <= j
    <3> HIDE DEF Bad
    <3> QED
      BY <1>2, Least
  <2>2. k \in 0 .. L - (Applied - 1) /\ k \in Nat /\ ~(f[L - k].tn.constraints \subseteq f[L].tn.constraints)
    BY <1>1, <2>1
  <2> HIDE DEF L
  <2>3. CASE k = 0
    BY <1>1, <2>2, <2>3
  <2>4. CASE k # 0
    <3> DEFINE m == L - k + 1
    <3>1. m \in Applied .. L /\ m - 1 = L - k /\ m = L - (k - 1)
          /\ k - 1 \in 0 .. L - (Applied - 1) /\ k - 1 < k
      BY <1>1, <2>2, <2>4
    <3>2. k - 1 \notin Bad
      <4> HIDE DEF Bad
      <4> QED
        BY <2>1, <2>2, <3>1
    <3> HIDE DEF m
    <3>3. f[m].tn.constraints \subseteq f[L].tn.constraints
      BY <3>1, <3>2
    <3>4. Fires(f[m - 1], f[m], path[m])
      BY <3>1, TrailFires DEF L
    <3> QED
      BY <2>2, <3>1, <3>3, <3>4 DEF Fires
  <2> QED
    BY <2>3, <2>4
<1>4. L - n \in 0 .. L - (Applied - 1) /\ L - (L - n) = n
  BY <1>1
<1> HIDE DEF L
<1>5. L - n \notin Bad
  BY <1>3
<1>6. f[L - (L - n)].tn.constraints \subseteq f[L].tn.constraints
  BY <1>4, <1>5
<1> QED
  BY <1>4, <1>6 DEF L

(* The first event of a branch opens an action.                              *)
LEMMA TrailOpens ==
  ASSUME problem \in Problems, NEW path \in Seq(Step), path # <<>>, NEW f, Trail(f, path)
  PROVE  path[1].pos = 1
<1>1. Len(path) \in Nat /\ Len(path) >= 1
  OBVIOUS
<1>2. CASE problem.timed # NoTimed
  BY <1>1, <1>2, TrailStarts
<1>3. CASE problem.timed = NoTimed
  <2>1. Applied = 1
    BY <1>3 DEF Applied
  <2>2. f[0] \in InitialStates
    BY <2>1 DEF Trail
  <2>3. f[1 - 1].todo = <<>>
    BY <1>3, <2>2 DEF InitialStates, Root
  <2> QED
    BY <1>1, <2>1, <2>3, TrailFires
<1> QED
  BY <1>2, <1>3

(* The state that the event n of the path is applied in; the first event of  *)
(* the timed action is applied already.                                      *)
ParentState(f, n) == f[Max({n, Applied}) - 1]

(* Which state that is.                                                      *)
LEMMA ParentOf ==
  ASSUME NEW n \in Nat \ {0}
  PROVE  /\ n >= Applied => Max({n, Applied}) - 1 = n - 1
         /\ n < Applied => n = 1 /\ Applied = 2 /\ Max({n, Applied}) - 1 = 1
<1>1. Applied \in {1, 2}
  BY AppliedType
<1> DEFINE S == {n, Applied}
<1>2. S \in SUBSET (1 .. n + 2) /\ S # {} /\ n + 2 \in Nat
  BY <1>1
<1>3. Max(S) \in S /\ \A k \in S : k <= Max(S)
  <2> HIDE DEF S
  <2> QED
    BY <1>2, Greatest
<1> QED
  BY <1>1, <1>3

(* The timed action lasts as long whatever it is opened in.                  *)
LEMMA TimedOpening ==
  ASSUME problem \in Problems, problem.timed # NoTimed, NEW k,
         NEW v \in Assignment, NEW w \in Assignment
  PROVE  OpeningConstraints(problem.timed, k, v) = OpeningConstraints(problem.timed, k, w)
<1>1. problem.timed \in Known
  BY DEF Known
<1>2. Constant(problem.duration[problem.timed])
  BY <1>1, ActionsOK
<1>3. /\ problem.duration[problem.timed].lower[v] = problem.duration[problem.timed].lower[w]
      /\ problem.duration[problem.timed].upper[v] = problem.duration[problem.timed].upper[w]
  BY <1>2 DEF Constant
<1> QED
  BY <1>3 DEF OpeningConstraints, Lasting

(* An action opened in a branch leaves its constraints, and its first event  *)
(* before the others.                                                        *)
LEMMA OpeningRecorded ==
  ASSUME problem \in Problems, NEW path \in Seq(Step), NEW f, Trail(f, path),
         NEW n \in DOMAIN path, path[n].pos = 1
  PROVE  /\ path[n].action \in Known /\ path[n].id \in Nat
         /\ ParentState(f, n).assignments \in Assignment
         /\ OpeningConstraints(path[n].action, path[n].id, ParentState(f, n).assignments)
              \subseteq f[Len(path)].tn.constraints
         /\ \A j \in From(path[n].action, 2) :
              Before(EventOf(path[n].action, path[n].id, 1), EventOf(path[n].action, path[n].id, j),
                     problem.epsilon) \in f[Len(path)].tn.constraints
<1>1. n \in Nat \ {0} /\ Len(path) \in Nat /\ n <= Len(path) /\ Applied \in {1, 2}
  BY AppliedType
<1>4. path[n].id \in Nat
  <2>1. path[n] \in Step
    OBVIOUS
  <2> QED
    BY <2>1 DEF Step
<1>2. CASE n >= Applied
  <2>1. ParentState(f, n) = f[n - 1]
    BY <1>1, <1>2, ParentOf DEF ParentState
  <2>2. n \in Applied .. Len(path) /\ n \in Applied - 1 .. Len(path) /\ n - 1 \in Applied - 1 .. Len(path)
    BY <1>1, <1>2
  <2>3. Fires(f[n - 1], f[n], path[n])
    BY <2>2, TrailFires
  <2>4. f[n].tn.constraints \subseteq f[Len(path)].tn.constraints
    BY <2>2, TrailGrows
  <2>5. Good(f[n - 1])
    BY <2>2, TrailGood
  <2> QED
    BY <1>4, <2>1, <2>3, <2>4, <2>5 DEF Fires, Good, StateOK
<1>3. CASE n < Applied
  <2>1. n = 1 /\ Applied = 2 /\ ParentState(f, n) = f[1]
    BY <1>1, <1>3, ParentOf DEF ParentState
  <2>2. problem.timed # NoTimed /\ 1 \in Applied - 1 .. Len(path)
    BY <1>1, <2>1 DEF Applied
  <2>3. Fires(Root, f[1], path[1]) /\ path[1].action = problem.timed
    BY <1>1, <2>1, <2>2, TrailStarts
  <2>4. f[1].tn.constraints \subseteq f[Len(path)].tn.constraints
    BY <2>2, TrailGrows
  <2>5. Good(f[1]) /\ f[1].assignments \in Assignment
    BY <2>2, TrailGood DEF Good, StateOK
  <2>6. Root.assignments \in Assignment
    BY RootOK DEF StateOK
  <2>7. OpeningConstraints(path[1].action, path[1].id, Root.assignments)
          = OpeningConstraints(path[1].action, path[1].id, f[1].assignments)
    BY <2>2, <2>3, <2>5, <2>6, TimedOpening
  <2> QED
    BY <1>4, <2>1, <2>3, <2>4, <2>5, <2>7 DEF Fires
<1>5. n >= Applied \/ n < Applied
  BY <1>1
<1> QED
  BY <1>2, <1>3, <1>5

(* An event fired leaves itself before what is still to come.                *)
LEMMA PendingRecorded ==
  ASSUME problem \in Problems, NEW path \in Seq(Step), NEW f, Trail(f, path),
         NEW n \in DOMAIN path, n >= Applied
  PROVE  /\ Good(f[n])
         /\ BeforeTodo(f[n].todo, path[n].action, path[n].pos, path[n].id)
              \subseteq f[Len(path)].tn.constraints
<1>1. n \in Applied .. Len(path) /\ n \in Applied - 1 .. Len(path)
  BY AppliedType
<1>2. Fires(f[n - 1], f[n], path[n])
  BY <1>1, TrailFires
<1>3. f[n].tn.constraints \subseteq f[Len(path)].tn.constraints
  BY <1>1, TrailGrows
<1>4. Good(f[n])
  BY <1>1, TrailGood
<1> QED
  BY <1>2, <1>3, <1>4 DEF Fires

-----------------------------------------------------------------------------
(* What build_plan asks of the event n of the path.                          *)
Asked(path, f, n) ==
  (IF path[n].pos = 1 THEN PlanOpening(path[n].action, path[n].id, ParentState(f, n).assignments) ELSE {})
    \cup (UNION {PlanOrder(path[m], path[n]) : m \in 1 .. n - 1})
    \cup (IF n < Applied THEN {} ELSE PlanPending(f[n].todo, path[n]))
Plan(path, f) == UNION {Asked(path, f, n) : n \in DOMAIN path}

(* The network of build_plan.                                                *)
LEMMA PlanAsks ==
  ASSUME NEW s, s.path \in Seq(Step), NEW f, Trail(f, s.path)
  PROVE  PlanNetworks(s) = {Network(Plan(s.path, f))}
<1> DEFINE At(n) == CHOOSE r \in Replay(s)[n] : TRUE
           Part(n) ==
             (IF s.path[n].pos = 1
                THEN PlanOpening(s.path[n].action, s.path[n].id, At(Max({n, Applied}) - 1).assignments)
                ELSE {})
               \cup (UNION {PlanOrder(s.path[m], s.path[n]) : m \in 1 .. n - 1})
               \cup (IF n < Applied THEN {} ELSE PlanPending(At(n).todo, s.path[n]))
<1>1. Len(s.path) \in Nat /\ Applied \in {1, 2}
  BY AppliedType
<1>2. ASSUME NEW n \in Applied - 1 .. Len(s.path)
      PROVE  At(n) = f[n]
  <2>1. Replay(s)[n] = {f[n]}
    BY <1>1, ReplayIsTrail
  <2> QED
    BY <2>1
<1>3. ASSUME NEW n \in DOMAIN s.path
      PROVE  Part(n) = Asked(s.path, f, n)
  <2>1. n \in Nat \ {0} /\ n <= Len(s.path)
    BY <1>1
  <2>2. Max({n, Applied}) - 1 \in Applied - 1 .. Len(s.path)
    BY <1>1, <2>1, ParentOf
  <2>3. At(Max({n, Applied}) - 1) = ParentState(f, n)
    BY <1>2, <2>2 DEF ParentState
  <2>4. ~(n < Applied) => At(n) = f[n]
    BY <1>1, <1>2, <2>1
  <2> HIDE DEF At
  <2> QED
    BY <2>3, <2>4 DEF Asked
<1>4. ReplayedConstraints(s, Replay(s)) = UNION {Part(n) : n \in DOMAIN s.path}
  BY DEF ReplayedConstraints
<1> HIDE DEF Part
<1>5. {Part(n) : n \in DOMAIN s.path} = {Asked(s.path, f, n) : n \in DOMAIN s.path}
  BY <1>3
<1>6. ReplayedConstraints(s, Replay(s)) = UNION {Asked(s.path, f, n) : n \in DOMAIN s.path}
  BY <1>4, <1>5
<1> QED
  BY <1>6 DEF PlanNetworks, Plan

(* An instance is neither before the plan start nor, with the epsilon, after *)
(* the plan end.                                                             *)
LEMMA InstancePlaced ==
  ASSUME problem \in Problems, NEW a \in Known, NEW k \in Nat, NEW v \in Assignment,
         NEW t \in [TimePoint -> Int], Satisfied(t, OpeningConstraints(a, k, v)),
         \A j \in From(a, 2) : t[EventOf(a, k, j)] <= t[EventOf(a, k, 1)] - problem.epsilon
  PROVE  /\ t[StartOf(a, k)] <= t[PlanStart]
         /\ t[EndOf(a, k)] <= t[PlanStart]
         /\ \A i \in From(a, 1) : t[EventOf(a, k, i)] <= t[PlanStart]
         /\ t[PlanEnd] <= t[EndOf(a, k)] - problem.epsilon
<1> DEFINE d == problem.duration[a]
           low == d.lower[v] + (IF d.leftOpen THEN problem.epsilon ELSE 0)
           N == Len(Events(a))
           start == t[StartOf(a, k)]
           end == t[EndOf(a, k)]
           At(i) == t[EventOf(a, k, i)]
           delay(i) == Events(a)[i].delay
<1>1. /\ problem.epsilon \in Nat /\ N \in Nat \ {0} /\ a \in Action
      /\ d.lower[v] \in Int /\ \A i \in From(a, 1) : delay(i) \in Int
      /\ From(a, 1) = 1 .. N /\ From(a, 2) = 2 .. N
  BY ProblemOK DEF From
<1>2. /\ start \in Int /\ end \in Int /\ t[PlanStart] \in Int /\ t[PlanEnd] \in Int
      /\ \A i \in 1 .. N : At(i) \in Int
  <2>1. /\ PlanStart \in TimePoint /\ PlanEnd \in TimePoint
        /\ StartOf(a, k) \in TimePoint /\ EndOf(a, k) \in TimePoint
    BY <1>1, TimePoints
  <2>2. \A i \in 1 .. N : EventOf(a, k, i) \in TimePoint
    BY <1>1, TimePoints
  <2> QED
    BY <2>1, <2>2
<1>3. /\ Satisfied(t, Lasting(a, k, v)) /\ Satisfied(t, Anchored(a, k))
      /\ Before(PlanStart, StartOf(a, k), 0) \in OpeningConstraints(a, k, v)
      /\ Before(EndOf(a, k), PlanEnd, problem.epsilon) \in OpeningConstraints(a, k, v)
  BY DEF OpeningConstraints, Satisfied
<1>4. start <= t[PlanStart]
  <2>1. t[StartOf(a, k)] <= t[PlanStart] + (-0)
    BY <1>3 DEF Satisfied, Before
  <2> QED
    BY <1>2, <2>1
<1>5. t[PlanEnd] <= end - problem.epsilon
  <2>1. t[PlanEnd] <= t[EndOf(a, k)] + (-problem.epsilon)
    BY <1>3 DEF Satisfied, Before
  <2> QED
    BY <1>1, <1>2, <2>1
<1>6. end <= start - low /\ low \in Int /\ low >= d.lower[v]
  <2>1. Before(StartOf(a, k), EndOf(a, k), low) \in Lasting(a, k, v)
    BY DEF Lasting, Between
  <2>2. t[EndOf(a, k)] <= t[StartOf(a, k)] + (-low)
    BY <1>3, <2>1 DEF Satisfied, Before
  <2>3. low \in Int /\ low >= d.lower[v]
    BY <1>1
  <2> HIDE DEF low
  <2> QED
    BY <1>2, <2>2, <2>3
<1>7. ASSUME NEW i \in 1 .. N
      PROVE  /\ Events(a)[i].fromStart => At(i) <= start - delay(i)
             /\ ~Events(a)[i].fromStart => At(i) <= end - delay(i) /\ end <= At(i) + delay(i)
  <2> DEFINE anchor == IF Events(a)[i].fromStart THEN StartOf(a, k) ELSE EndOf(a, k)
  <2>1. Between(anchor, EventOf(a, k, i), delay(i), delay(i)) \subseteq Anchored(a, k)
    BY <1>1 DEF Anchored
  <2>2. /\ Before(anchor, EventOf(a, k, i), delay(i)) \in Anchored(a, k)
        /\ Before(EventOf(a, k, i), anchor, -delay(i)) \in Anchored(a, k)
    BY <2>1 DEF Between
  <2>3. /\ t[EventOf(a, k, i)] <= t[anchor] + (-delay(i))
        /\ t[anchor] <= t[EventOf(a, k, i)] + (-(-delay(i)))
    BY <1>3, <2>2 DEF Satisfied, Before
  <2>4. delay(i) \in Int
    BY <1>1
  <2> HIDE DEF delay
  <2>5. t[anchor] \in Int
    BY <1>2
  <2> QED
    BY <1>2, <2>3, <2>4, <2>5
<1>8. At(1) <= t[PlanStart]
  <2>1. StartsFirst(d, Events(a)[1])
    BY ActionsOK
  <2>2. IF Events(a)[1].fromStart THEN delay(1) >= 0 ELSE d.lower[v] + delay(1) >= 0
    BY <2>1 DEF StartsFirst
  <2>3. 1 \in 1 .. N /\ delay(1) \in Int
    BY <1>1
  <2>4. At(1) \in Int
    BY <1>2, <2>3
  <2> HIDE DEF At, start, end, delay, low, d
  <2> QED
    BY <1>1, <1>2, <1>4, <1>6, <1>7, <2>2, <2>3, <2>4
<1>9. ASSUME NEW i \in 1 .. N
      PROVE  At(i) <= t[PlanStart]
  <2>1. CASE i = 1
    BY <1>8, <2>1
  <2>2. CASE i # 1
    <3>1. i \in From(a, 2) /\ 1 \in 1 .. N
      BY <1>1, <2>2
    <3>2. t[EventOf(a, k, i)] <= t[EventOf(a, k, 1)] - problem.epsilon
      BY <3>1
    <3>3. At(1) \in Int /\ At(i) \in Int
      BY <1>2, <3>1
    <3> QED
      BY <1>1, <1>2, <1>8, <3>2, <3>3
  <2> QED
    BY <2>1, <2>2
<1>10. end <= t[PlanStart]
  <2>1. EndsAfterStart(d, Events(a)[N])
    BY ActionsOK
  <2>2. \/ ~Events(a)[N].fromStart /\ delay(N) <= 0
        \/ d.lower[v] >= 0
    BY <2>1 DEF EndsAfterStart
  <2>3. N \in 1 .. N /\ delay(N) \in Int
    BY <1>1
  <2>4. At(N) \in Int /\ At(N) <= t[PlanStart]
    BY <1>2, <1>9, <2>3
  <2>5. CASE ~Events(a)[N].fromStart /\ delay(N) <= 0
    <3>1. end <= At(N) + delay(N)
      BY <1>7, <2>3, <2>5
    <3> HIDE DEF At, start, end, delay, low, d, N
    <3> QED
      BY <1>2, <2>3, <2>4, <2>5, <3>1
  <2>6. CASE d.lower[v] >= 0
    <3> HIDE DEF At, start, end, delay, low, d, N
    <3> QED
      BY <1>1, <1>2, <1>4, <1>6, <2>6
  <2> QED
    BY <2>2, <2>5, <2>6
<1> QED
  BY <1>1, <1>4, <1>5, <1>9, <1>10

(* Every constraint of an opening is part of what the search asserts.        *)
LEMMA PlanOpeningIsOpening ==
  ASSUME NEW a, NEW k, NEW v
  PROVE  PlanOpening(a, k, v) \subseteq OpeningConstraints(a, k, v)
BY DEF PlanOpening, OpeningConstraints

(* Fewer constraints are still constraints between time points.              *)
LEMMA TiedSubset ==
  ASSUME NEW A, NEW B, Tied(B), A \subseteq B
  PROVE  Tied(A)
<1>1. IsFiniteSet(A)
  BY FS_Subset DEF Tied, Bounded
<1> QED
  BY <1>1 DEF Tied, Bounded

(* What build_plan asks of the events to come, the search has asserted.       *)
LEMMA PlanPendingIsPending ==
  ASSUME NEW todo, NEW e
  PROVE  PlanPending(todo, e) \subseteq BeforeTodo(todo, e.action, e.pos, e.id)
<1> DEFINE rest == IF e.pos = 1 THEN Without(todo, e.action) ELSE todo
<1>1. DOMAIN rest \subseteq DOMAIN todo /\ \A b \in DOMAIN rest : rest[b] = todo[b]
  BY DEF Without
<1>2. PlanPending(todo, e) \subseteq BeforeTodo(rest, e.action, e.pos, e.id)
  BY DEF PlanPending
<1> HIDE DEF rest
<1>3. BeforeTodo(rest, e.action, e.pos, e.id) \subseteq BeforeTodo(todo, e.action, e.pos, e.id)
  BY <1>1 DEF BeforeTodo
<1> QED
  BY <1>2, <1>3

(* What build_plan asserts are constraints between time points.              *)
LEMMA AskedTied ==
  ASSUME problem \in Problems, NEW path \in Seq(Step), NEW f, Trail(f, path), NEW n \in DOMAIN path
  PROVE  Tied(Asked(path, f, n))
<1> DEFINE opening == IF path[n].pos = 1
                        THEN PlanOpening(path[n].action, path[n].id, ParentState(f, n).assignments)
                        ELSE {}
           ordering == UNION {PlanOrder(path[m], path[n]) : m \in 1 .. n - 1}
           pending == IF n < Applied THEN {} ELSE PlanPending(f[n].todo, path[n])
<1>1. Tied(opening)
  <2>1. CASE path[n].pos = 1
    <3>1. /\ path[n].action \in Known /\ path[n].id \in Nat
          /\ ParentState(f, n).assignments \in Assignment
      BY <2>1, OpeningRecorded
    <3>2. Tied(OpeningConstraints(path[n].action, path[n].id, ParentState(f, n).assignments))
      BY <3>1, OpeningTied
    <3> QED
      BY <2>1, <3>2, PlanOpeningIsOpening, TiedSubset
  <2>2. CASE path[n].pos # 1
    BY <2>2, NoneTied
  <2> QED
    BY <2>1, <2>2
<1>2. Tied(ordering)
  <2> DEFINE g == [m \in 1 .. n - 1 |-> PlanOrder(path[m], path[n])]
  <2>1. ASSUME NEW m \in 1 .. n - 1
        PROVE  Tied(PlanOrder(path[m], path[n]))
    <3>1. m \in DOMAIN path
      OBVIOUS
    <3>2. PointOf(path[m]) \in TimePoint /\ PointOf(path[n]) \in TimePoint
      BY <3>1, PointsOfPath
    <3>3. problem.epsilon \in Int /\ 0 \in Int
      BY ProblemOK
    <3>4. /\ Tied({Before(PointOf(path[m]), PointOf(path[n]), problem.epsilon)})
          /\ Tied({Before(PointOf(path[m]), PointOf(path[n]), 0)})
      BY <3>2, <3>3, TiedBefore
    <3> QED
      BY <3>4, NoneTied DEF PlanOrder
  <2>2. IsFiniteSet(1 .. n - 1)
    BY FS_Interval
  <2>3. \A m \in 1 .. n - 1 : Tied(g[m])
    BY <2>1
  <2>4. ordering = UNION {g[m] : m \in 1 .. n - 1}
    OBVIOUS
  <2> HIDE DEF g, ordering
  <2>5. Tied(UNION {g[m] : m \in 1 .. n - 1})
    BY <2>2, <2>3, TiedUnion
  <2> QED
    BY <2>4, <2>5
<1>3. Tied(pending)
  <2>1. CASE n < Applied
    BY <2>1, NoneTied
  <2>2. CASE ~(n < Applied)
    <3>1. Good(f[n])
      BY <2>2, AppliedType, PendingRecorded
    <3>2. path[n] \in Step
      OBVIOUS
    <3>3. Tied(BeforeTodo(f[n].todo, path[n].action, path[n].pos, path[n].id))
      BY <3>1, <3>2, BeforeTodoTied DEF Step, Good, StateOK, NetOK
    <3> QED
      BY <2>2, <3>3, PlanPendingIsPending, TiedSubset
  <2> QED
    BY <2>1, <2>2
<1>4. Asked(path, f, n) = (opening \cup ordering) \cup pending
  BY DEF Asked
<1> HIDE DEF opening, ordering, pending
<1> QED
  BY <1>1, <1>2, <1>3, <1>4, TiedTogether

-----------------------------------------------------------------------------
(* A schedule t of the replayed branch.                                      *)
LEMMA OpeningPlaced ==
  ASSUME problem \in Problems, NEW path \in Seq(Step), NEW f, Trail(f, path),
         NEW t \in [TimePoint -> Int], Satisfied(t, f[Len(path)].tn.constraints),
         NEW n \in DOMAIN path, path[n].pos = 1
  PROVE  /\ Satisfied(t, OpeningConstraints(path[n].action, path[n].id, ParentState(f, n).assignments))
         /\ t[StartOf(path[n].action, path[n].id)] <= t[PlanStart]
         /\ t[EndOf(path[n].action, path[n].id)] <= t[PlanStart]
         /\ \A i \in From(path[n].action, 1) : t[EventOf(path[n].action, path[n].id, i)] <= t[PlanStart]
         /\ t[PlanEnd] <= t[EndOf(path[n].action, path[n].id)] - problem.epsilon
<1> DEFINE a == path[n].action
           k == path[n].id
           v == ParentState(f, n).assignments
           cs == f[Len(path)].tn.constraints
<1>1. /\ a \in Known /\ k \in Nat /\ v \in Assignment
      /\ OpeningConstraints(a, k, v) \subseteq cs
      /\ \A j \in From(a, 2) :
           Before(EventOf(a, k, 1), EventOf(a, k, j), problem.epsilon) \in cs
  BY OpeningRecorded
<1>2. Satisfied(t, OpeningConstraints(a, k, v))
  BY <1>1 DEF Satisfied
<1>3. ASSUME NEW j \in From(a, 2)
      PROVE  t[EventOf(a, k, j)] <= t[EventOf(a, k, 1)] - problem.epsilon
  <2>1. t[EventOf(a, k, j)] <= t[EventOf(a, k, 1)] + (-problem.epsilon)
    BY <1>1 DEF Satisfied, Before
  <2>2. EventOf(a, k, j) \in TimePoint /\ EventOf(a, k, 1) \in TimePoint
    <3>1. a \in Action /\ j \in Nat
      BY <1>1, ProblemOK DEF From
    <3> HIDE DEF a, k
    <3> QED
      BY <1>1, <3>1, TimePoints
  <2> HIDE DEF a, k
  <2> QED
    BY <2>1, <2>2, ProblemOK
<1> HIDE DEF a, k, v, cs
<1>4. /\ t[StartOf(a, k)] <= t[PlanStart]
      /\ t[EndOf(a, k)] <= t[PlanStart]
      /\ \A i \in From(a, 1) : t[EventOf(a, k, i)] <= t[PlanStart]
      /\ t[PlanEnd] <= t[EndOf(a, k)] - problem.epsilon
  BY <1>1, <1>2, <1>3, InstancePlaced
<1> QED
  BY <1>2, <1>4 DEF a, k, v, cs

(* No event fired is before the plan start.                                  *)
LEMMA EventsPlaced ==
  ASSUME problem \in Problems, NEW path \in Seq(Step), NEW f, Trail(f, path),
         f[Len(path)].path = path,
         NEW t \in [TimePoint -> Int], Satisfied(t, f[Len(path)].tn.constraints),
         NEW n \in DOMAIN path
  PROVE  t[PointOf(path[n])] <= t[PlanStart]
<1>1. Len(path) \in Nat /\ Len(path) >= 1 /\ n \in 1 .. Len(path) /\ path # <<>> /\ 1 \in DOMAIN path
  OBVIOUS
<1>2. ASSUME NEW m \in DOMAIN path, path[m].pos = 1
      PROVE  t[PointOf(path[m])] <= t[PlanStart]
  <2>1. 1 \in From(path[m].action, 1)
    BY <1>2, OpeningRecorded, ProblemOK DEF From
  <2>2. t[EventOf(path[m].action, path[m].id, 1)] <= t[PlanStart]
    BY <1>2, <2>1, OpeningPlaced
  <2> QED
    BY <1>2, <2>2 DEF PointOf
<1>3. path[1].pos = 1
  BY <1>1, TrailOpens
<1>4. CASE n = 1
  BY <1>1, <1>2, <1>3, <1>4
<1>5. CASE n # 1
  <2> DEFINE w == Gap(path[n].action, path[n].pos, path[1].action, path[1].pos)
  <2>1. Ordered(f[Len(path)])
    <3>1. Len(path) \in Applied - 1 .. Len(path)
      BY <1>1, AppliedType
    <3> QED
      BY <3>1, TrailGood DEF Good, StateOK
  <2>2. 1 \in 1 .. n - 1
    BY <1>1, <1>5
  <2>3. t[PointOf(path[n])] <= t[PointOf(path[1])] - w
    BY <2>1, <2>2 DEF Ordered
  <2>4. w \in Nat
    BY GapType
  <2>5. t[PointOf(path[n])] \in Int /\ t[PointOf(path[1])] \in Int /\ t[PlanStart] \in Int
    <3>1. PointOf(path[n]) \in TimePoint /\ PointOf(path[1]) \in TimePoint
      BY <1>1, PointsOfPath
    <3>2. PlanStart \in TimePoint
      BY DEF PlanStart, TimePoint
    <3> QED
      BY <3>1, <3>2
  <2>6. t[PointOf(path[1])] <= t[PlanStart]
    BY <1>1, <1>2, <1>3
  <2> HIDE DEF w
  <2> QED
    BY <2>3, <2>4, <2>5, <2>6
<1> QED
  BY <1>4, <1>5

(* A constraint that t satisfies, with neither end before the plan start.    *)
Placed(t, c) ==
  /\ t[c.dst] <= t[c.src] + c.bound
  /\ t[c.src] <= t[PlanStart]
  /\ t[c.dst] <= t[PlanStart]

(* The bounds and anchors of an instance.                                    *)
LEMMA OpeningAsked ==
  ASSUME problem \in Problems, NEW path \in Seq(Step), NEW f, Trail(f, path),
         NEW t \in [TimePoint -> Int], Satisfied(t, f[Len(path)].tn.constraints),
         NEW n \in DOMAIN path, path[n].pos = 1,
         NEW c \in PlanOpening(path[n].action, path[n].id, ParentState(f, n).assignments)
  PROVE  Placed(t, c)
<1> DEFINE a == path[n].action
           k == path[n].id
           v == ParentState(f, n).assignments
           points == {PlanStart, StartOf(a, k), EndOf(a, k)} \cup {EventOf(a, k, i) : i \in From(a, 1)}
<1>1. /\ Satisfied(t, OpeningConstraints(a, k, v))
      /\ t[StartOf(a, k)] <= t[PlanStart]
      /\ t[EndOf(a, k)] <= t[PlanStart]
      /\ \A i \in From(a, 1) : t[EventOf(a, k, i)] <= t[PlanStart]
  BY OpeningPlaced
<1>2. t[PlanStart] \in Int
  <2>1. PlanStart \in TimePoint
    BY DEF PlanStart, TimePoint
  <2> QED
    BY <2>1
<1>3. c \in PlanOpening(a, k, v)
  OBVIOUS
<1> HIDE DEF a, k, v
<1>4. \A p \in points : t[p] <= t[PlanStart]
  BY <1>1, <1>2
<1>5. t[c.dst] <= t[c.src] + c.bound
  BY <1>1, <1>3, PlanOpeningIsOpening DEF Satisfied
<1>6. c.src \in points /\ c.dst \in points
  <2>1. CASE c \in Lasting(a, k, v)
    BY <2>1 DEF Lasting, Between, Before
  <2>2. CASE c \in Anchored(a, k)
    <3>1. PICK i \in From(a, 1) :
            c \in Between(IF Events(a)[i].fromStart THEN StartOf(a, k) ELSE EndOf(a, k),
                          EventOf(a, k, i), Events(a)[i].delay, Events(a)[i].delay)
      BY <2>2 DEF Anchored
    <3> QED
      BY <3>1 DEF Between, Before
  <2>3. CASE c = Before(PlanStart, StartOf(a, k), 0) \/ c = Before(StartOf(a, k), PlanStart, 0)
    BY <2>3 DEF Before
  <2> QED
    BY <1>3, <2>1, <2>2, <2>3 DEF PlanOpening
<1> HIDE DEF points
<1> QED
  BY <1>4, <1>5, <1>6 DEF Placed

(* The order of the events fired.                                            *)
LEMMA OrderAsked ==
  ASSUME problem \in Problems, NEW path \in Seq(Step), NEW f, Trail(f, path),
         f[Len(path)].path = path,
         NEW t \in [TimePoint -> Int], Satisfied(t, f[Len(path)].tn.constraints),
         NEW n \in DOMAIN path, NEW m \in 1 .. n - 1, NEW c \in PlanOrder(path[m], path[n])
  PROVE  Placed(t, c)
<1> DEFINE w == Gap(path[n].action, path[n].pos, path[m].action, path[m].pos)
           old == PointOf(path[m])
           new == PointOf(path[n])
<1>1. m \in DOMAIN path
  OBVIOUS
<1>2. t[old] <= t[PlanStart] /\ t[new] <= t[PlanStart]
  BY <1>1, EventsPlaced
<1>3. t[new] <= t[old] - w
  <2>1. Len(path) \in Applied - 1 .. Len(path)
    <3>1. Len(path) \in Nat /\ Len(path) >= 1
      OBVIOUS
    <3> QED
      BY <3>1, AppliedType
  <2>2. Ordered(f[Len(path)])
    BY <2>1, TrailGood DEF Good, StateOK
  <2> QED
    BY <2>2 DEF Ordered
<1>4. t[old] \in Int /\ t[new] \in Int /\ problem.epsilon \in Nat
  BY <1>1, PointsOfPath, ProblemOK
<1>5. c.src = old /\ c.dst = new
  BY DEF PlanOrder, Before
<1>6. c.bound = -w \/ (c.bound = 0 /\ w = 0)
  BY DEF PlanOrder, Before, Gap
<1>7. w \in Nat
  BY GapType
<1> HIDE DEF w, old, new
<1>8. t[c.dst] <= t[c.src] + c.bound
  BY <1>3, <1>4, <1>5, <1>6, <1>7
<1> QED
  BY <1>2, <1>5, <1>8 DEF Placed

(* An event fired before the events that are still to come.                  *)
LEMMA PendingAsked ==
  ASSUME problem \in Problems, NEW path \in Seq(Step), NEW f, Trail(f, path),
         f[Len(path)].path = path,
         NEW t \in [TimePoint -> Int], Satisfied(t, f[Len(path)].tn.constraints),
         NEW n \in DOMAIN path, n >= Applied, NEW c \in PlanPending(f[n].todo, path[n])
  PROVE  Placed(t, c)
<1> DEFINE e == path[n]
<1>1. Good(f[n]) /\ BeforeTodo(f[n].todo, e.action, e.pos, e.id) \subseteq f[Len(path)].tn.constraints
  BY PendingRecorded
<1>2. c \in BeforeTodo(f[n].todo, e.action, e.pos, e.id)
  BY PlanPendingIsPending
<1>3. t[c.dst] <= t[c.src] + c.bound
  BY <1>1, <1>2 DEF Satisfied
<1>4. e \in Step
  OBVIOUS
<1>5. PICK b \in DOMAIN f[n].todo : \E j \in From(b, f[n].todo[b].next) :
        c = Before(EventOf(e.action, e.id, e.pos), EventOf(b, f[n].todo[b].id, j), Gap(e.action, e.pos, b, j))
  BY <1>2 DEF BeforeTodo
<1>6. PICK j \in From(b, f[n].todo[b].next) :
        c = Before(EventOf(e.action, e.id, e.pos), EventOf(b, f[n].todo[b].id, j), Gap(e.action, e.pos, b, j))
  BY <1>5
<1>7. c.src = PointOf(e) /\ c.dst = EventOf(b, f[n].todo[b].id, j) /\ c.bound = -Gap(e.action, e.pos, b, j)
  BY <1>6 DEF Before, PointOf
<1>8. c.src \in TimePoint
  BY <1>7, PointsOfPath
<1>9. c.dst \in TimePoint
  <2>1. b \in Action /\ f[n].todo[b].id \in Nat /\ j \in Nat
    <3>1. b \in Known /\ f[n].todo[b].id \in Nat /\ f[n].todo[b].next \in From(b, 1)
      BY <1>1 DEF Good, StateOK, TodoOK
    <3> QED
      BY <3>1, ProblemOK DEF From
  <2> QED
    BY <1>7, <2>1, TimePoints
<1>10. t[c.src] \in Int /\ t[c.dst] \in Int /\ Gap(e.action, e.pos, b, j) \in Nat /\ t[PlanStart] \in Int
  <2>1. PlanStart \in TimePoint
    BY DEF PlanStart, TimePoint
  <2> QED
    BY <1>8, <1>9, <2>1, GapType
<1>11. t[c.src] <= t[PlanStart]
  BY <1>7, EventsPlaced
<1> QED
  BY <1>3, <1>7, <1>10, <1>11 DEF Placed

(* All that build_plan asks for follows from what the search has recorded.   *)
LEMMA AskedIsRecorded ==
  ASSUME problem \in Problems, NEW path \in Seq(Step), NEW f, Trail(f, path),
         f[Len(path)].path = path,
         NEW t \in [TimePoint -> Int], Satisfied(t, f[Len(path)].tn.constraints),
         NEW n \in DOMAIN path, NEW c \in Asked(path, f, n)
  PROVE  Placed(t, c)
<1>1. CASE path[n].pos = 1 /\ c \in PlanOpening(path[n].action, path[n].id, ParentState(f, n).assignments)
  BY <1>1, OpeningAsked
<1>2. CASE \E m \in 1 .. n - 1 : c \in PlanOrder(path[m], path[n])
  BY <1>2, OrderAsked
<1>3. CASE n >= Applied /\ c \in PlanPending(f[n].todo, path[n])
  BY <1>3, PendingAsked
<1>4. n < Applied \/ n >= Applied
  BY AppliedType
<1> QED
  BY <1>1, <1>2, <1>3, <1>4 DEF Asked

-----------------------------------------------------------------------------
(* It relates time points.                                                   *)
LEMMA PlanTied ==
  ASSUME problem \in Problems, NEW path \in Seq(Step), NEW f, Trail(f, path)
  PROVE  Tied(Plan(path, f))
<1> DEFINE g == [n \in DOMAIN path |-> Asked(path, f, n)]
<1>1. IsFiniteSet(DOMAIN path)
  <2>1. DOMAIN path = 1 .. Len(path) /\ Len(path) \in Int
    OBVIOUS
  <2> QED
    BY <2>1, FS_Interval
<1>2. \A n \in DOMAIN path : Tied(g[n])
  BY AskedTied
<1>3. Plan(path, f) = UNION {g[n] : n \in DOMAIN path}
  BY DEF Plan
<1> HIDE DEF g
<1> QED
  BY <1>1, <1>2, <1>3, TiedUnion

(* Its dates are not after those of any schedule of the branch.              *)
LEMMA PlanIsEarlier ==
  ASSUME problem \in Problems, NEW path \in Seq(Step), NEW f, Trail(f, path),
         f[Len(path)].path = path,
         NEW t \in [TimePoint -> Int], Satisfied(t, f[Len(path)].tn.constraints)
  PROVE  /\ Satisfied(t, Plan(path, f))
         /\ \A p \in Points(Plan(path, f)) :
              /\ Distances(Plan(path, f))[p] \in Int
              /\ Distances(Plan(path, f))[p] <= 0
              /\ t[p] - t[PlanStart] <= Distances(Plan(path, f))[p]
<1> DEFINE cs == Plan(path, f)
           u == [p \in Points(cs) |-> t[p] - t[PlanStart]]
<1>1. Tied(cs) /\ Bounded(cs)
  BY PlanTied DEF Tied
<1>2. \A c \in cs : Placed(t, c)
  BY AskedIsRecorded DEF Plan
<1> HIDE DEF cs
<1>3. Satisfied(t, cs)
  BY <1>2 DEF Placed, Satisfied
<1>4. Points(cs) \subseteq TimePoint /\ PlanStart \in TimePoint
  <2>1. PlanStart \in TimePoint
    BY DEF PlanStart, TimePoint
  <2> QED
    BY <1>1, <2>1 DEF Points, Tied
<1>5. \A p \in Points(cs) : t[p] \in Int /\ t[p] <= t[PlanStart]
  BY <1>2, <1>4 DEF Points, Placed
<1>6. t[PlanStart] \in Int
  BY <1>4
<1>7. u \in [Points(cs) -> Int]
  BY <1>5, <1>6
<1>8. \A p \in Points(cs) : u[p] = t[p] - t[PlanStart] /\ u[p] <= 0
  BY <1>5, <1>6
<1> HIDE DEF u
<1>9. Satisfied(u, cs)
  <2> SUFFICES ASSUME NEW c \in cs
               PROVE  u[c.dst] <= u[c.src] + c.bound
    BY DEF Satisfied
  <2>1. c.src \in Points(cs) /\ c.dst \in Points(cs) /\ c.bound \in Int
    BY <1>1, EndsArePoints DEF Bounded
  <2>2. t[c.dst] <= t[c.src] + c.bound
    BY <1>3 DEF Satisfied
  <2>3. t[c.src] \in Int /\ t[c.dst] \in Int
    BY <1>5, <2>1
  <2>4. u[c.src] = t[c.src] - t[PlanStart] /\ u[c.dst] = t[c.dst] - t[PlanStart]
    BY <1>8, <2>1
  <2> QED
    BY <1>6, <2>1, <2>2, <2>3, <2>4
<1>10. Schedule(u, cs)
  BY <1>7, <1>8, <1>9 DEF Schedule
<1>11. /\ Distances(cs) \in [Points(cs) -> Int]
       /\ \A p \in Points(cs) : Distances(cs)[p] <= 0 /\ u[p] <= Distances(cs)[p]
  BY <1>1, <1>10, DistancesAreLargest
<1>12. \A p \in Points(cs) : /\ Distances(cs)[p] \in Int
                             /\ Distances(cs)[p] <= 0
                             /\ t[p] - t[PlanStart] <= Distances(cs)[p]
  BY <1>8, <1>11
<1> QED
  BY <1>3, <1>12 DEF cs

(* A branch with a replay gives a plan.                                      *)
LEMMA ReplayedIsExtractable ==
  ASSUME problem \in Problems, NEW s, NEW r, Replayed(s, r)
  PROVE  Extractable(s)
<1>1. /\ s.path \in Seq(Step) /\ r.path = s.path /\ Applied - 1 <= Len(s.path)
      /\ Good(s) /\ NetOK(s) /\ Implies(s.tn.constraints, r.tn.constraints)
  BY DEF Replayed, Mirrors, Good, StateOK
<1>2. PICK f : Trail(f, s.path) /\ r = f[Len(s.path)]
  BY DEF Replayed, Follows
<1>3. Replay(s)[Len(s.path)] # {}
  <2>1. Len(s.path) \in Applied - 1 .. Len(s.path) /\ Len(s.path) \in Nat
    BY <1>1, AppliedType
  <2>2. Replay(s)[Len(s.path)] = {f[Len(s.path)]}
    BY <1>2, <2>1, ReplayIsTrail
  <2> QED
    BY <2>2
<1>4. PlanNetworks(s) = {Network(Plan(s.path, f))}
  BY <1>1, <1>2, PlanAsks
<1>5. Sat(Network(Plan(s.path, f)))
  <2>1. CASE s.path = <<>>
    <3>1. Plan(s.path, f) = {}
      BY <2>1 DEF Plan
    <3> QED
      BY <3>1 DEF Sat, Network, Satisfied
  <2>2. CASE s.path # <<>>
    <3>1. PICK t \in [TimePoint -> Int] : Satisfied(t, s.tn.constraints)
      BY <1>1, <2>2, EarliestIsSchedule
    <3>2. Satisfied(t, f[Len(s.path)].tn.constraints)
      BY <1>1, <1>2, <3>1 DEF Implies
    <3>3. Satisfied(t, Plan(s.path, f))
      BY <1>1, <1>2, <3>2, PlanIsEarlier
    <3> QED
      BY <1>1, <1>2, <3>3, PlanTied, SchedulableIsSat
  <2> QED
    BY <2>1, <2>2
<1> QED
  BY <1>3, <1>4, <1>5 DEF Extractable

(* So the assertion of build_plan holds of every branch the search follows,  *)
(* compressed or not, and the network it reads the dates of is consistent.   *)
THEOREM BranchesReplay == Spec => []Extractable(state)
<1>1. RInv => Extractable(state)
  BY ReplayedIsExtractable DEF RInv, IInv
<1> QED
  BY <1>1, RInvHolds, PTL

-----------------------------------------------------------------------------
(* A set of numbers that are not beyond b has its greatest one there.        *)
LEMMA GreatestWithin ==
  ASSUME NEW S \in SUBSET Int, S # {}, NEW b \in Int, \A k \in S : k <= b
  PROVE  Max(S) \in Int /\ Max(S) <= b
<1> DEFINE T == {k - b : k \in S}
<1>1. T \in SUBSET Int /\ T # {} /\ \A k \in T : k <= 0
  <2>1. \A k \in S : k - b \in Int /\ k - b <= 0
    OBVIOUS
  <2> QED
    BY <2>1
<1>2. PICK m \in T : \A k \in T : k <= m
  <2> HIDE DEF T
  <2> QED
    BY <1>1, GreatestBelowZero
<1>3. PICK x \in S : m = x - b
  OBVIOUS
<1>4. \A y \in S : x >= y
  <2> TAKE y \in S
  <2>1. y - b <= x - b
    BY <1>2, <1>3
  <2> QED
    BY <2>1
<1>5. Max(S) \in S
  BY <1>4 DEF Max
<1> QED
  BY <1>5

(* A branch that has fired an event reaches from the plan start to the plan  *)
(* end: with the one not in its network, the replay would ask too much.      *)
LEMMA EndsInNetwork ==
  ASSUME problem \in Problems, NEW s, s.path # <<>>, NEW r, Replayed(s, r)
  PROVE  PlanStart \in Points(s.tn.constraints) /\ PlanEnd \in Points(s.tn.constraints)
<1> DEFINE cs == s.tn.constraints
<1>1. /\ s.path \in Seq(Step) /\ r.path = s.path /\ NetOK(s)
      /\ Implies(s.tn.constraints, r.tn.constraints)
  BY DEF Replayed, Mirrors, Good, StateOK
<1>2. PICK f : Trail(f, s.path) /\ r = f[Len(s.path)]
  BY DEF Replayed, Follows
<1>3. 1 \in DOMAIN s.path /\ s.path[1].pos = 1
  BY <1>1, <1>2, TrailOpens
<1> DEFINE a == s.path[1].action
           k == s.path[1].id
<1>4. PICK t \in [TimePoint -> Int] : Satisfied(t, cs)
  BY <1>1, EarliestIsSchedule
<1>5. /\ PlanStart \in TimePoint /\ PlanEnd \in TimePoint
      /\ StartOf(a, k) \in TimePoint /\ EndOf(a, k) \in TimePoint
      /\ PlanStart # StartOf(a, k) /\ PlanEnd # EndOf(a, k)
  <2>1. a \in Action /\ k \in Nat
    BY <1>1, <1>2, <1>3, OpeningRecorded, ProblemOK
  <2> QED
    BY <2>1, TimePoints DEF PlanStart, PlanEnd, StartOf, EndOf
<1> HIDE DEF a, k
<1>6. ASSUME NEW u \in [TimePoint -> Int], Satisfied(u, cs)
      PROVE  /\ u[StartOf(a, k)] <= u[PlanStart]
             /\ u[PlanEnd] <= u[EndOf(a, k)] - problem.epsilon
  <2>1. Satisfied(u, f[Len(s.path)].tn.constraints)
    BY <1>1, <1>2, <1>6 DEF Implies
  <2> QED
    BY <1>1, <1>2, <1>3, <2>1, OpeningPlaced DEF a, k
<1>7. ASSUME PlanStart \notin Points(cs)
      PROVE  FALSE
  <2> DEFINE u == [t EXCEPT ![PlanStart] = t[StartOf(a, k)] - 1]
  <2>1. u \in [TimePoint -> Int] /\ \A p \in TimePoint \ {PlanStart} : u[p] = t[p]
    BY <1>5
  <2>2. u[PlanStart] = t[StartOf(a, k)] - 1 /\ u[StartOf(a, k)] = t[StartOf(a, k)]
    BY <1>5
  <2> HIDE DEF u
  <2>3. Satisfied(u, cs)
    <3> SUFFICES ASSUME NEW c \in cs
                 PROVE  u[c.dst] <= u[c.src] + c.bound
      BY DEF Satisfied
    <3>1. c.src # PlanStart /\ c.dst # PlanStart
      BY <1>7, EndsArePoints
    <3>2. c.src \in TimePoint /\ c.dst \in TimePoint
      BY <1>1 DEF NetOK, Tied
    <3>3. t[c.dst] <= t[c.src] + c.bound
      BY <1>4 DEF Satisfied
    <3> QED
      BY <2>1, <3>1, <3>2, <3>3
  <2>4. u[StartOf(a, k)] <= u[PlanStart]
    BY <1>6, <2>1, <2>3
  <2>5. t[StartOf(a, k)] \in Int
    BY <1>5
  <2> QED
    BY <2>2, <2>4, <2>5
<1>8. ASSUME PlanEnd \notin Points(cs)
      PROVE  FALSE
  <2> DEFINE u == [t EXCEPT ![PlanEnd] = t[EndOf(a, k)] + 1]
  <2>1. u \in [TimePoint -> Int] /\ \A p \in TimePoint \ {PlanEnd} : u[p] = t[p]
    BY <1>5
  <2>2. u[PlanEnd] = t[EndOf(a, k)] + 1 /\ u[EndOf(a, k)] = t[EndOf(a, k)]
    BY <1>5
  <2> HIDE DEF u
  <2>3. Satisfied(u, cs)
    <3> SUFFICES ASSUME NEW c \in cs
                 PROVE  u[c.dst] <= u[c.src] + c.bound
      BY DEF Satisfied
    <3>1. c.src # PlanEnd /\ c.dst # PlanEnd
      BY <1>8, EndsArePoints
    <3>2. c.src \in TimePoint /\ c.dst \in TimePoint
      BY <1>1 DEF NetOK, Tied
    <3>3. t[c.dst] <= t[c.src] + c.bound
      BY <1>4 DEF Satisfied
    <3> QED
      BY <2>1, <3>1, <3>2, <3>3
  <2>4. u[PlanEnd] <= u[EndOf(a, k)] - problem.epsilon
    BY <1>6, <2>1, <2>3
  <2>5. t[EndOf(a, k)] \in Int /\ problem.epsilon \in Nat
    BY <1>5, ProblemOK
  <2> QED
    BY <2>2, <2>4, <2>5
<1> QED
  BY <1>7, <1>8

(* The deadline is part of every branch.                                     *)
LEMMA DeadlineKept ==
  ASSUME problem \in Problems, problem.deadline # NoDeadline,
         NEW path \in Seq(Step), Applied - 1 <= Len(path), NEW f, Trail(f, path),
         NEW t \in [TimePoint -> Int], Satisfied(t, f[Len(path)].tn.constraints)
  PROVE  t[PlanStart] - t[PlanEnd] <= problem.deadline
<1>1. Applied - 1 \in Applied - 1 .. Len(path)
  BY AppliedType
<1>2. f[Applied - 1] \in InitialStates
  BY DEF Trail
<1>3. Root.tn.constraints \subseteq f[Applied - 1].tn.constraints
  BY <1>2, InitialFires
<1>4. f[Applied - 1].tn.constraints \subseteq f[Len(path)].tn.constraints
  BY <1>1, TrailGrows
<1>5. Before(PlanEnd, PlanStart, -problem.deadline) \in Root.tn.constraints
  BY DEF Root, Network, Between
<1>6. t[PlanStart] <= t[PlanEnd] + (-(-problem.deadline))
  BY <1>3, <1>4, <1>5 DEF Satisfied, Before
<1>7. t[PlanStart] \in Int /\ t[PlanEnd] \in Int /\ problem.deadline \in Int
  <2>1. PlanStart \in TimePoint /\ PlanEnd \in TimePoint
    BY DEF PlanStart, PlanEnd, TimePoint
  <2> QED
    BY <2>1, ProblemOK
<1> QED
  BY <1>6, <1>7

(* What an instance of a plan is dated by.                                   *)
LEMMA ScheduledWithin ==
  ASSUME problem \in Problems, NEW s, s.path \in Seq(Step), s.path # <<>>,
         NEW f, Trail(f, s.path), f[Len(s.path)].path = s.path,
         NEW t \in [TimePoint -> Int], Satisfied(t, f[Len(s.path)].tn.constraints),
         NEW x \in Scheduled(s, Network(Plan(s.path, f)))
  PROVE  x.end \in Int /\ x.end + problem.epsilon <= t[PlanStart] - t[PlanEnd]
<1> DEFINE cs == Plan(s.path, f)
           tn == Network(cs)
           origin == IF problem.timed = NoTimed THEN 0 ELSE Date(tn, PlanStart)
<1>1. PICK n \in DOMAIN s.path : /\ s.path[n].pos = 1
                                 /\ x.end = Date(tn, EndOf(s.path[n].action, s.path[n].id)) - origin
  BY DEF Scheduled, Instances
<1> DEFINE a == s.path[n].action
           k == s.path[n].id
           v == ParentState(f, n).assignments
<1>2. \A p \in Points(cs) :
        /\ Distances(cs)[p] \in Int
        /\ Distances(cs)[p] <= 0
        /\ t[p] - t[PlanStart] <= Distances(cs)[p]
  BY PlanIsEarlier
<1>3. PlanOpening(a, k, v) \subseteq cs
  BY <1>1 DEF Plan, Asked
<1>4. EndOf(a, k) \in Points(cs)
  <2>1. \E w : Before(StartOf(a, k), EndOf(a, k), w) \in PlanOpening(a, k, v)
    BY DEF PlanOpening, Lasting, Between
  <2>2. PICK w : Before(StartOf(a, k), EndOf(a, k), w) \in cs
    BY <1>3, <2>1
  <2>3. Before(StartOf(a, k), EndOf(a, k), w).dst = EndOf(a, k)
    BY DEF Before
  <2> QED
    BY <2>2, <2>3, EndsArePoints
<1>5. origin \in Int /\ origin >= 0
  <2>1. CASE problem.timed = NoTimed
    BY <2>1
  <2>2. CASE problem.timed # NoTimed
    <3>1. Before(PlanStart, StartOf(a, k), 0) \in cs
      BY <1>3, <2>2 DEF PlanOpening
    <3>2. Before(PlanStart, StartOf(a, k), 0).src = PlanStart
      BY DEF Before
    <3>3. PlanStart \in Points(cs)
      BY <3>1, <3>2, EndsArePoints
    <3>4. Distances(cs)[PlanStart] \in Int /\ Distances(cs)[PlanStart] <= 0
      BY <1>2, <3>3
    <3>5. origin = -Distances(cs)[PlanStart]
      BY <2>2 DEF Date, Network
    <3> HIDE DEF origin, cs
    <3> QED
      BY <3>4, <3>5
  <2> QED
    BY <2>1, <2>2
<1>6. Distances(cs)[EndOf(a, k)] \in Int /\ t[EndOf(a, k)] - t[PlanStart] <= Distances(cs)[EndOf(a, k)]
  BY <1>2, <1>4
<1>7. x.end = -Distances(cs)[EndOf(a, k)] - origin
  BY <1>1 DEF Date, Network
<1>8. t[PlanEnd] <= t[EndOf(a, k)] - problem.epsilon
  BY <1>1, OpeningPlaced
<1>9. t[PlanEnd] \in Int /\ t[PlanStart] \in Int /\ t[EndOf(a, k)] \in Int /\ problem.epsilon \in Nat
  <2>1. a \in Action /\ k \in Nat
    BY <1>1, OpeningRecorded, ProblemOK
  <2>2. PlanStart \in TimePoint /\ PlanEnd \in TimePoint /\ EndOf(a, k) \in TimePoint
    <3> HIDE DEF a, k
    <3> QED
      BY <2>1, TimePoints
  <2> QED
    BY <2>2, ProblemOK
<1> HIDE DEF cs, tn, origin, a, k
<1> QED
  BY <1>5, <1>6, <1>7, <1>8, <1>9

(* No plan reaches further than its branch.                                  *)
LEMMA PlanWithinBranch ==
  ASSUME problem \in Problems, NEW s, s.path # <<>>, NEW r, Replayed(s, r), NEW plan \in BuildPlan(s)
  PROVE  /\ PlanMakespan(plan) + problem.epsilon <= Date(s.tn, PlanEnd)
         /\ problem.deadline # NoDeadline => PlanMakespan(plan) + problem.epsilon <= problem.deadline
<1>1. /\ s.path \in Seq(Step) /\ r.path = s.path /\ NetOK(s) /\ Applied - 1 <= Len(s.path)
      /\ Implies(s.tn.constraints, r.tn.constraints)
  BY DEF Replayed, Mirrors, Good, StateOK
<1>2. PICK f : Trail(f, s.path) /\ r = f[Len(s.path)]
  BY DEF Replayed, Follows
<1>3. PICK t \in [TimePoint -> Int] :
        /\ Satisfied(t, s.tn.constraints)
        /\ \A p \in Points(s.tn.constraints) : t[p] = s.tn.distances[p]
  BY <1>1, EarliestIsSchedule
<1>4. Satisfied(t, f[Len(s.path)].tn.constraints) /\ f[Len(s.path)].path = s.path
  BY <1>1, <1>2, <1>3 DEF Implies
<1>5. plan = Scheduled(s, Network(Plan(s.path, f)))
  <2>1. PlanNetworks(s) = {Network(Plan(s.path, f))}
    BY <1>1, <1>2, PlanAsks
  <2> QED
    BY <2>1 DEF BuildPlan
<1> DEFINE S == {0} \cup {x.end : x \in plan}
           room == t[PlanStart] - t[PlanEnd]
<1>6. \A x \in plan : x.end \in Int /\ x.end + problem.epsilon <= room
  BY <1>1, <1>2, <1>4, <1>5, ScheduledWithin
<1>7. /\ t[PlanStart] \in Int /\ t[PlanEnd] \in Int /\ problem.epsilon \in Nat
      /\ problem.deadline \in Int
  <2>1. PlanStart \in TimePoint /\ PlanEnd \in TimePoint
    BY DEF PlanStart, PlanEnd, TimePoint
  <2> QED
    BY <2>1, ProblemOK
<1>8. problem.epsilon <= room
  <2>1. 1 \in DOMAIN s.path /\ s.path[1].pos = 1
    BY <1>1, <1>2, TrailOpens
  <2> DEFINE a == s.path[1].action
             k == s.path[1].id
  <2>2. t[EndOf(a, k)] <= t[PlanStart] /\ t[PlanEnd] <= t[EndOf(a, k)] - problem.epsilon
    BY <1>1, <1>2, <1>4, <2>1, OpeningPlaced
  <2>3. t[EndOf(a, k)] \in Int
    <3>1. a \in Action /\ k \in Nat
      BY <1>1, <1>2, <2>1, OpeningRecorded, ProblemOK
    <3>2. EndOf(a, k) \in TimePoint
      <4> HIDE DEF a, k
      <4> QED
        BY <3>1, TimePoints
    <3> QED
      BY <3>2
  <2> HIDE DEF a, k
  <2> QED
    BY <1>7, <2>2, <2>3
<1>9. Max(S) \in Int /\ Max(S) <= room - problem.epsilon
  <2>1. S \in SUBSET Int /\ S # {}
    BY <1>6
  <2>2. room - problem.epsilon \in Int
    BY <1>7
  <2>3. \A y \in S : y <= room - problem.epsilon
    <3> HIDE DEF room
    <3>1. room \in Int
      BY <1>7 DEF room
    <3> QED
      BY <1>6, <1>7, <1>8, <3>1
  <2> HIDE DEF S, room
  <2> QED
    BY <2>1, <2>2, <2>3, GreatestWithin
<1>10. PlanMakespan(plan) = Max(S)
  BY DEF PlanMakespan
<1>11. t[PlanStart] <= 0 /\ Date(s.tn, PlanEnd) = -t[PlanEnd]
  <2>1. PlanStart \in Points(s.tn.constraints) /\ PlanEnd \in Points(s.tn.constraints)
    BY EndsInNetwork
  <2>2. t[PlanStart] = s.tn.distances[PlanStart] /\ t[PlanEnd] = s.tn.distances[PlanEnd]
    BY <1>3, <2>1
  <2>3. s.tn.distances[PlanStart] <= 0
    BY <1>1, <2>1, DistancesAreLargest DEF NetOK, Tied, Network
  <2> QED
    BY <2>2, <2>3 DEF Date
<1>12. problem.deadline # NoDeadline => room <= problem.deadline
  BY <1>1, <1>2, <1>4, DeadlineKept
<1> HIDE DEF S
<1> QED
  BY <1>7, <1>9, <1>10, <1>11, <1>12

(* So a plan meets the deadline of the branch with epsilon to spare, whatever*)
(* the orderings that extraction drops: an anytime improvement is strict.    *)
THEOREM PlanInTime == Spec => []NoLaterThanBranch
<1>1. RInv => NoLaterThanBranch
  BY PlanWithinBranch DEF RInv, IInv, NoLaterThanBranch
<1> QED
  BY <1>1, RInvHolds, PTL
=============================================================================
