--------------------------- MODULE DeltaSTN_proofs ---------------------------
(****************************************************************************)
(* The network's invariants, for any set of time points, any integer bounds *)
(* and any tolerance finer than the grain.                                   *)
(****************************************************************************)
EXTENDS DeltaSTN, TLAPS

(* With a tolerance finer than the grain, the comparisons of the code are    *)
(* the exact ones.                                                           *)
LEMMA ExactComparisons ==
  ASSUME NEW a \in Int, NEW b \in Int
  PROVE  /\ Improves(a, b) <=> a < b
         /\ EqualsWithTolerance(a, b) <=> a = b
         /\ Grain * a <= Grain * b + Tolerance <=> a <= b
<1>1. Grain \in Int /\ Grain >= 1 /\ Tolerance \in Int /\ 0 <= Tolerance /\ Tolerance < Grain
  BY ConstantsAssumption
<1>2. PICK d \in Int : d = b - a
  OBVIOUS
<1>3. Grain * b = Grain * a + Grain * d
  BY <1>1, <1>2
<1>4. /\ d > 0 => Grain * d >= Grain
      /\ d = 0 => Grain * d = 0
      /\ d < 0 => Grain * d <= -Grain
  BY <1>1, <1>2
<1>5. Grain * a \in Int /\ Grain * b \in Int /\ Grain * d \in Int
  BY <1>1, <1>2
<1>. QED
  BY <1>1, <1>2, <1>3, <1>4, <1>5 DEF Improves, EqualsWithTolerance

(* What the queue holds after a push and after a pop. *)
LEMMA PushPop ==
  ASSUME NEW S, NEW q \in Seq(S), NEW e \in S
  PROVE  /\ Append(q, e) \in Seq(S)
         /\ Append(q, e) # <<>>
         /\ \A i \in 1 .. Len(q) : i \in 1 .. Len(Append(q, e)) /\ Append(q, e)[i] = q[i]
         /\ Len(q) + 1 \in 1 .. Len(Append(q, e)) /\ Append(q, e)[Len(q) + 1] = e
         /\ q # <<>> =>
              /\ Head(q) \in S
              /\ Tail(q) \in Seq(S)
              /\ \A i \in 1 .. Len(q) :
                   \/ q[i] = Head(q)
                   \/ \E j \in 1 .. Len(Tail(q)) : Tail(q)[j] = q[i]
<1>1. Append(q, e) \in Seq(S) /\ Len(Append(q, e)) = Len(q) + 1
  OBVIOUS
<1>2. \A i \in 1 .. Len(q) : Append(q, e)[i] = q[i]
  OBVIOUS
<1>3. Append(q, e)[Len(q) + 1] = e
  OBVIOUS
<1>4. Append(q, e) # <<>>
  <2>1. Len(q) \in Nat /\ Len(<<>>) = 0
    OBVIOUS
  <2>. QED
    BY <1>1, <2>1
<1>5. ASSUME q # <<>>
      PROVE  Head(q) \in S /\ Tail(q) \in Seq(S) /\ Head(q) = q[1]
  BY <1>5
<1>6. ASSUME q # <<>>, NEW i \in 1 .. Len(q), i # 1
      PROVE  i - 1 \in 1 .. Len(Tail(q)) /\ Tail(q)[i - 1] = q[i]
  BY <1>6
<1>7. Len(q) \in Nat
  OBVIOUS
<1>8. ASSUME q # <<>>, NEW i \in 1 .. Len(q)
      PROVE  q[i] = Head(q) \/ \E j \in 1 .. Len(Tail(q)) : Tail(q)[j] = q[i]
  <2>1. CASE i = 1
    BY <2>1, <1>5, <1>8
  <2>2. CASE i # 1
    BY <2>2, <1>6, <1>8
  <2>. QED
    BY <2>1, <2>2
<1>9. \A i \in 1 .. Len(q) : i \in 1 .. Len(Append(q, e))
  BY <1>1, <1>7
<1>10. Len(q) + 1 \in 1 .. Len(Append(q, e))
  BY <1>1, <1>7
<1>. QED
  BY <1>1, <1>2, <1>3, <1>4, <1>5, <1>8, <1>9, <1>10, Zenon

-----------------------------------------------------------------------------
(* A new network satisfies the inductive invariant.                          *)
LEMMA InitInv == Init => IInv
<1>. SUFFICES ASSUME Init PROVE IInv
  OBVIOUS
<1>1. Known = {} /\ Len(queue) = 0
  BY DEF Init, Known
<1>2. TypeOK
  BY <1>1, ConstantsAssumption DEF Init, TypeOK, Known
<1>3. StoredAsserted /\ DirtyOnly /\ Propagating /\ EarliestDates /\ UnsatIsReal
  BY <1>1 DEF Init, StoredAsserted, DirtyOnly, Propagating, Idle, EarliestDates, UnsatIsReal
<1>. QED
  BY <1>2, <1>3 DEF IInv

(* Taking the head of the queue moves its entries from dirty to pending.     *)
LEMMA PopInv == IInv /\ Pop => IInv'
<1>. SUFFICES ASSUME IInv, Pop PROVE IInv'
  OBVIOUS
<1>. USE DEF IInv
<1>1. ~Idle /\ PathsFromTarget /\ is_sat
  BY DEF Pop, Idle, Propagating, PathsFromTarget
<1>2. /\ Known' = Known /\ queue \in Seq(Known) /\ queue # <<>>
      /\ Head(queue) \in Known
  BY PushPop DEF Pop, Known, TypeOK
<1>3. TypeOK'
  <2>1. queue' \in Seq(Known)
    BY <1>2, PushPop DEF Pop
  <2>2. (pending # {} => cur \in Known /\ pending \subseteq constraints[cur])'
    BY <1>2 DEF Pop
  <2>. QED
    BY <1>2, <2>1, <2>2 DEF Pop, TypeOK
<1>4. StoredAsserted'
  BY <1>2 DEF Pop, StoredAsserted, Known, Edge
<1>5. DirtyOnly'
  <2>. SUFFICES ASSUME NEW x \in Known, NEW n \in constraints[x]
                PROVE  \/ distances[n.dst] <= distances[x] + n.bound
                       \/ InQueue(x)'
                       \/ x = cur' /\ n \in pending'
    BY <1>2 DEF Pop, DirtyOnly
  <2>1. CASE distances[n.dst] <= distances[x] + n.bound
    BY <2>1
  <2>2. CASE InQueue(x)
    <3>1. x = Head(queue) \/ \E j \in 1 .. Len(Tail(queue)) : Tail(queue)[j] = x
      BY <1>2, <2>2, PushPop DEF InQueue
    <3>. QED
      BY <3>1 DEF Pop, InQueue
  <2>. QED
    BY <1>1, <2>1, <2>2 DEF DirtyOnly, Pop
<1>6. Propagating'
  BY <1>1, <1>2 DEF Pop, Propagating, PathsFromTarget, Before, Edge
<1>7. EarliestDates' /\ UnsatIsReal'
  BY <1>2 DEF Pop, EarliestDates, UnsatIsReal
<1>. QED
  BY <1>3, <1>4, <1>5, <1>6, <1>7

(* An entry that improves its destination: every dropped distance is still   *)
(* the weight of a path from the target, and no path leads back to it unless *)
(* the new constraint closes a cycle.                                        *)
LEMMA ImprovingEntry ==
  ASSUME IInv, NEW n \in pending,
         distances[cur] + n.bound < distances[n.dst]
  PROVE  /\ cur \in Known /\ n \in constraints[cur]
         /\ n.dst \in Known /\ n.bound \in Int
         /\ Edge(cur, n) \in asserted
         /\ PathsFromTarget
         /\ distances[cur] < Before[cur]
         /\ Edge(cur, n) # edge =>
              /\ n.dst # edge.dst
              /\ Before[n.dst] <= Before[cur] + n.bound
<1>. USE DEF IInv
<1>1. PathsFromTarget
  BY DEF Propagating, Idle
<1>2. cur \in Known /\ n \in constraints[cur]
  BY DEF TypeOK
<1>3. n \in [dst : Known, bound : Bound]
  BY <1>2 DEF TypeOK
<1>4. /\ n.dst \in Known /\ n.bound \in Int
      /\ edge.src \in Known /\ edge.dst \in Known /\ edge.bound \in Int
      /\ Edge(cur, n) \in asserted
  BY <1>1, <1>2, <1>3, ConstantsAssumption
     DEF StoredAsserted, PathsFromTarget, TypeOK, Constraint
<1>5. \A p \in Known : distances[p] \in Int /\ Before[p] \in Int
  BY DEF TypeOK, Before
<1>6. Edge(cur, n) # edge => Before[n.dst] <= Before[cur] + n.bound
  BY <1>1, <1>2 DEF PathsFromTarget
<1>7. /\ distances[cur] <= Before[cur]
      /\ Before[cur] - distances[cur] <= Before[edge.dst] - distances[edge.dst]
      /\ distances[n.dst] <= Before[n.dst]
      /\ distances[edge.dst] = Before[edge.src] + edge.bound
  BY <1>1, <1>2, <1>4 DEF PathsFromTarget
<1>8. CASE Edge(cur, n) = edge
  <2>1. cur = edge.src /\ n.dst = edge.dst /\ n.bound = edge.bound
    BY <1>8 DEF Edge
  <2>. QED
    BY <1>1, <1>2, <1>4, <1>5, <1>7, <1>8, <2>1
<1>9. CASE Edge(cur, n) # edge
  <2>1. distances[cur] < Before[cur]
    BY <1>2, <1>4, <1>5, <1>6, <1>7, <1>9
  <2>2. n.dst # edge.dst
    BY <1>2, <1>4, <1>5, <1>6, <1>7, <1>9
  <2>. QED
    BY <1>1, <1>2, <1>4, <1>6, <2>1, <2>2
<1>. QED
  BY <1>8, <1>9

(* Relaxing one entry: nothing to do, a cycle, or an improvement to push.    *)
LEMMA RelaxInv ==
  ASSUME IInv, NEW n \in pending, Relax(n)
  PROVE  IInv'
<1>. USE DEF IInv
<1>. DEFINE val == distances[cur] + n.bound
<1>1. /\ PathsFromTarget /\ ~Idle
      /\ cur \in Known /\ n \in constraints[cur]
  BY DEF Propagating, Idle, TypeOK
<1>2. n \in [dst : Known, bound : Bound]
  BY <1>1 DEF TypeOK
<1>3. /\ n.dst \in Known /\ n.bound \in Int
      /\ \A p \in Known : distances[p] \in Int /\ Before[p] \in Int /\ p \in Point
      /\ edge.dst \in Known /\ edge.bound \in Int
      /\ \A x \in Known : \A m \in constraints[x] : m.dst \in Known /\ m.bound \in Int
  <2>1. n.dst \in Known /\ n.bound \in Int
    BY <1>2, ConstantsAssumption
  <2>2. \A p \in Known : distances[p] \in Int /\ Before[p] \in Int /\ p \in Point
    BY DEF TypeOK, Before
  <2>3. edge.dst \in Known /\ edge.bound \in Int
    <3>1. edge \in Constraint /\ edge \in asserted
      BY <1>1 DEF PathsFromTarget, TypeOK
    <3>. QED
      BY <3>1, ConstantsAssumption DEF StoredAsserted, Constraint
  <2>4. ASSUME NEW x \in Known, NEW m \in constraints[x]
        PROVE  m.dst \in Known /\ m.bound \in Int
    <3>1. m \in [dst : Known, bound : Bound]
      BY DEF TypeOK
    <3>. QED
      BY <3>1, ConstantsAssumption
  <2>. QED
    BY <2>1, <2>2, <2>3, <2>4
<1>4. Improves(val, distances[n.dst]) <=> val < distances[n.dst]
  BY <1>1, <1>3, ExactComparisons
<1>5. EqualsWithTolerance(n.bound, edge.bound) <=> n.bound = edge.bound
  BY <1>3, ExactComparisons
<1>6. CASE ~Improves(val, distances[n.dst])
  <2>1. /\ UNCHANGED <<distances, constraints, is_sat, queue, cur, edge, asserted, base>>
        /\ pending' = pending \ {n}
    BY <1>6 DEF Relax, Offer, ClosesCycle
  <2>2. TypeOK'
    <3>1. pending' \subseteq constraints[cur]
      BY <1>1, <2>1 DEF TypeOK
    <3>. QED
      BY <1>1, <2>1, <3>1 DEF TypeOK, Known
  <2>5. StoredAsserted' /\ EarliestDates' /\ UnsatIsReal'
    BY <2>1 DEF Known, StoredAsserted, Edge, EarliestDates, UnsatIsReal, Satisfies
  <2>3. DirtyOnly'
    <3>1. distances[n.dst] <= distances[cur] + n.bound
      BY <1>1, <1>3, <1>4, <1>6
    <3>. QED
      BY <2>1, <3>1 DEF DirtyOnly, Known, InQueue
  <2>4. Propagating'
    BY <1>1, <2>1 DEF Propagating, PathsFromTarget, Before, Known, Edge
  <2>. QED
    BY <2>2, <2>3, <2>4, <2>5
<1>7. CASE /\ Improves(val, distances[n.dst])
           /\ n.dst = edge.dst /\ EqualsWithTolerance(n.bound, edge.bound)
  <2>1. /\ UNCHANGED <<distances, constraints, cur, edge, asserted, base>>
        /\ is_sat' = FALSE /\ queue' = <<>> /\ pending' = {}
    BY <1>7 DEF Relax, Offer, ClosesCycle
  <2>2. /\ TypeOK' /\ StoredAsserted' /\ EarliestDates'
        /\ DirtyOnly' /\ Propagating'
    <3>1. TypeOK'
      <4>1. is_sat' \in BOOLEAN
        BY <2>1
      <4>2. queue' \in Seq(Known)
        BY <2>1
      <4>. QED
        BY <2>1, <4>1, <4>2 DEF TypeOK, Known
    <3>2. StoredAsserted' /\ EarliestDates'
      BY <2>1 DEF Known, StoredAsserted, Edge, EarliestDates, Satisfies
    <3>3. DirtyOnly' /\ Propagating'
      BY <2>1 DEF DirtyOnly, Propagating, Idle
    <3>. QED
      BY <3>1, <3>2, <3>3
  <2>3. ASSUME NEW s \in [Point -> Dates], Satisfies(s, asserted)
        PROVE  FALSE
    <3>1. /\ distances[cur] < Before[cur]
          /\ Edge(cur, n) \in asserted
      BY <1>4, <1>7, ImprovingEntry
    <3>2. s[cur] - s[edge.dst] <= distances[cur] - distances[edge.dst]
      BY <1>1, <1>3, <2>3, <3>1 DEF PathsFromTarget
    <3>3. s[edge.dst] <= s[cur] + n.bound
      BY <1>7, <2>3, <3>1 DEF Satisfies, Edge
    <3>4. s[cur] \in Int /\ s[edge.dst] \in Int
      BY <1>1, <1>3, ConstantsAssumption
    <3>. QED
      BY <1>1, <1>3, <1>4, <1>7, <3>2, <3>3, <3>4
  <2>4. UnsatIsReal'
    BY <2>1, <2>3 DEF UnsatIsReal, Satisfies
  <2>. QED
    BY <2>2, <2>4
<1>8. CASE /\ Improves(val, distances[n.dst])
           /\ ~(n.dst = edge.dst /\ EqualsWithTolerance(n.bound, edge.bound))
  <2>1. /\ UNCHANGED <<constraints, is_sat, cur, edge, asserted, base>>
        /\ distances' = [distances EXCEPT ![n.dst] = val]
        /\ queue' = Append(queue, n.dst) /\ pending' = pending \ {n}
    BY <1>8 DEF Relax, Offer, ClosesCycle
  <2>2. /\ val < distances[n.dst]
        /\ Edge(cur, n) # edge
        /\ Edge(cur, n) \in asserted
        /\ distances[cur] < Before[cur]
        /\ n.dst # edge.dst
        /\ Before[n.dst] <= Before[cur] + n.bound
    <3>1. val < distances[n.dst] /\ Edge(cur, n) # edge
      BY <1>4, <1>5, <1>8 DEF Edge
    <3>. QED
      BY <3>1, ImprovingEntry
  <2>3. /\ Known' = Known
        /\ distances'[n.dst] = val
        /\ \A p \in Known : p # n.dst => distances'[p] = distances[p]
        /\ val \in Int
        /\ Before' = Before
    BY <1>1, <1>3, <2>1 DEF Known, TypeOK, Before
  <2>4. /\ queue' \in Seq(Known) /\ queue' # <<>>
        /\ InQueue(n.dst)'
        /\ \A p : InQueue(p) => InQueue(p)'
    <3>1. queue \in Seq(Known)
      BY DEF TypeOK
    <3>. QED
      BY <1>3, <2>1, <3>1, PushPop DEF InQueue
  <2>5. TypeOK'
    BY <1>1, <2>1, <2>3, <2>4 DEF TypeOK, Known
  <2>6. StoredAsserted'
    BY <2>1, <2>3 DEF StoredAsserted, Edge
  <2>7. DirtyOnly'
    <3>. SUFFICES ASSUME is_sat, NEW x \in Known, NEW m \in constraints[x]
                  PROVE  \/ distances'[m.dst] <= distances'[x] + m.bound
                         \/ InQueue(x)'
                         \/ x = cur' /\ m \in pending'
      BY <2>1, <2>3 DEF DirtyOnly
    <3>1. CASE x = n.dst
      BY <2>4, <3>1
    <3>2. CASE x # n.dst /\ x = cur /\ m = n
      BY <1>3, <2>3, <3>2
    <3>3. CASE x # n.dst /\ ~(x = cur /\ m = n)
      <4>1. CASE distances[m.dst] <= distances[x] + m.bound
        BY <1>3, <2>2, <2>3, <3>3, <4>1
      <4>2. CASE InQueue(x)
        BY <2>4, <4>2
      <4>3. CASE x = cur /\ m \in pending
        BY <2>1, <3>3, <4>3
      <4>. QED
        BY <4>1, <4>2, <4>3 DEF DirtyOnly
    <3>. QED
      BY <3>1, <3>2, <3>3
  <2>8. Propagating'
    <3>. SUFFICES PathsFromTarget'
      BY DEF Propagating
    <3>1. \A p \in Known :
            /\ distances'[p] <= Before[p]
            /\ Before[p] - distances'[p] <= Before[edge.dst] - distances[edge.dst]
      BY <1>1, <1>3, <2>2, <2>3 DEF PathsFromTarget
    <3>2. ASSUME NEW p \in Known, distances'[p] # Before[p],
                 NEW s \in [Point -> Dates], Satisfies(s, asserted)
          PROVE  s[p] - s[edge.dst] <= distances'[p] - distances[edge.dst]
      <4>1. CASE p # n.dst
        BY <1>1, <2>3, <3>2, <4>1 DEF PathsFromTarget
      <4>2. CASE p = n.dst
        <5>1. s[cur] - s[edge.dst] <= distances[cur] - distances[edge.dst]
          BY <1>1, <1>3, <2>2, <3>2 DEF PathsFromTarget
        <5>2. s[p] <= s[cur] + n.bound
          BY <2>2, <3>2, <4>2 DEF Satisfies, Edge
        <5>3. s[cur] \in Int /\ s[edge.dst] \in Int /\ s[p] \in Int
          BY <1>1, <1>3, ConstantsAssumption
        <5>. QED
          BY <1>1, <1>3, <2>3, <4>2, <5>1, <5>2, <5>3
      <4>. QED
        BY <4>1, <4>2
    <3>3. distances'[edge.dst] = distances[edge.dst]
      BY <1>3, <2>2, <2>3
    <3>4. /\ is_sat' /\ (edge \in asserted)'
          /\ (\A x \in Known : \A m \in constraints[x] :
                Edge(x, m) # edge => Before[m.dst] <= Before[x] + m.bound)'
          /\ (distances[edge.dst] = Before[edge.src] + edge.bound)'
      BY <1>1, <2>1, <2>3, <3>3 DEF PathsFromTarget, Edge
    <3>. QED
      BY <2>1, <2>3, <3>1, <3>2, <3>3, <3>4 DEF PathsFromTarget
  <2>9. EarliestDates'
    <3>. SUFFICES ASSUME NEW s \in [Point -> Dates], Satisfies(s, asserted),
                         \A p \in Point : s[p] <= 0, NEW p \in Known
                  PROVE  s[p] <= distances'[p]
      BY <2>1, <2>3 DEF EarliestDates, Satisfies
    <3>1. \A r \in Known : s[r] <= distances[r] /\ s[r] \in Int
      BY <1>3, ConstantsAssumption DEF EarliestDates
    <3>2. s[n.dst] <= s[cur] + n.bound
      BY <2>2 DEF Satisfies, Edge
    <3>. QED
      BY <1>1, <1>3, <2>3, <3>1, <3>2
  <2>10. UnsatIsReal'
    BY <1>1, <2>1 DEF UnsatIsReal, PathsFromTarget
  <2>. QED
    BY <2>5, <2>6, <2>7, <2>8, <2>9, <2>10
<1>. QED
  BY <1>6, <1>7, <1>8

(* A new constraint on a network at its fixpoint: either nothing improves,   *)
(* or the target alone does, and it is in the queue.                         *)
LEMMA AddInv ==
  ASSUME IInv, NEW x \in Point, NEW y \in Point, NEW b \in Bound, x # y, Add(x, y, b)
  PROVE  IInv'
<1>. USE DEF IInv
<1>. DEFINE D == Seen(x, y)
            K == Known \cup {x, y}
            new == [dst |-> y, bound |-> b]
<1>1. /\ Idle /\ is_sat /\ is_sat' /\ cur' = cur /\ pending' = {} /\ pending = {}
      /\ edge' = [src |-> x, dst |-> y, bound |-> b]
      /\ asserted' = asserted \cup {edge'}
      /\ base' = distances
  BY DEF Add, Idle
<1>2. /\ b \in Int /\ x \in K /\ y \in K /\ K \subseteq Point
      /\ DOMAIN D = K
      /\ \A p \in K : D[p] \in Int
      /\ \A p \in Known : D[p] = distances[p] /\ p \in K
      /\ \A p \in K : p \notin Known => D[p] = 0
  BY ConstantsAssumption DEF TypeOK, Seen
<1>3. Improves(D[x] + b, D[y]) <=> D[x] + b < D[y]
  BY <1>2, ExactComparisons
<1>4. /\ Known' = K
      /\ Before' = D
      /\ \/ /\ D[x] + b < D[y]
            /\ distances' = [D EXCEPT ![y] = D[x] + b] /\ queue' = <<y>>
         \/ /\ ~(D[x] + b < D[y])
            /\ distances' = D /\ queue' = <<>>
  <2>1. \/ /\ D[x] + b < D[y]
           /\ distances' = [D EXCEPT ![y] = D[x] + b] /\ queue' = <<y>>
        \/ /\ ~(D[x] + b < D[y])
           /\ distances' = D /\ queue' = <<>>
    BY <1>3 DEF Add
  <2>2. Known' = K
    BY <1>2, <2>1 DEF Known
  <2>3. Before' = [p \in K |-> IF p \in Known THEN distances[p] ELSE 0]
    BY <1>1, <2>2 DEF Before, Known
  <2>. QED
    BY <2>1, <2>2, <2>3 DEF Seen
<1>5. /\ distances' \in [K -> Int]
      /\ \A p \in K : p # y => distances'[p] = D[p]
      /\ distances'[y] <= D[y]
      /\ \/ distances'[y] = D[x] + b /\ D[x] + b < D[y] /\ queue' = <<y>>
         \/ distances'[y] = D[y] /\ D[y] <= D[x] + b /\ queue' = <<>>
  <2>1. D = [p \in K |-> D[p]]
    BY DEF Seen
  <2>2. D[x] + b \in Int
    BY <1>2
  <2>. HIDE DEF D, K
  <2>3. D \in [K -> Int]
    BY <1>2, <2>1
  <2>. QED
    BY <1>2, <1>4, <2>2, <2>3
<1>6. /\ DOMAIN constraints' = K
      /\ \A p \in Known : \A m \in constraints[p] : m \in constraints'[p]
      /\ \A p \in K : \A m \in constraints'[p] :
           \/ p \in Known /\ m \in constraints[p]
           \/ p = x /\ m = new
      /\ IsSubsumed(x, y, b) \/ new \in constraints'[x]
  BY DEF Add, Pushed, Neighbors, TypeOK
<1>7. \A p \in Known : \A m \in constraints[p] :
        /\ m.dst \in Known /\ m.bound \in Int /\ m \in [dst : Known, bound : Bound]
        /\ D[m.dst] <= D[p] + m.bound
  <2>. SUFFICES ASSUME NEW p \in Known, NEW m \in constraints[p]
                PROVE  /\ m.dst \in Known /\ m.bound \in Int
                       /\ m \in [dst : Known, bound : Bound]
                       /\ D[m.dst] <= D[p] + m.bound
    OBVIOUS
  <2>1. m \in [dst : Known, bound : Bound]
    BY DEF TypeOK
  <2>2. ~InQueue(p)
    BY <1>1 DEF InQueue, Idle
  <2>3. distances[m.dst] <= distances[p] + m.bound
    BY <1>1, <2>2 DEF DirtyOnly
  <2>. QED
    BY <1>2, <2>1, <2>3, ConstantsAssumption
<1>8. Edge(x, new) = edge'
  BY <1>1 DEF Edge
<1>9. TypeOK'
  <2>1. constraints' \in [K -> SUBSET [dst : K, bound : Bound]]
    <3>1. ASSUME NEW p \in K, NEW m \in constraints'[p]
          PROVE  m \in [dst : K, bound : Bound]
      <4>1. CASE p \in Known /\ m \in constraints[p]
        BY <1>2, <1>7, <4>1
      <4>2. CASE m = new
        BY <4>2
      <4>. QED
        BY <1>6, <4>1, <4>2
    <3>2. constraints' = [p \in K |-> constraints'[p]]
      BY DEF Add, Pushed
    <3>. QED
      BY <3>1, <3>2
  <2>2. queue' \in Seq(K)
    <3>1. <<y>> \in Seq(K) /\ <<>> \in Seq(K)
      BY <1>2
    <3>. QED
      BY <1>5, <3>1
  <2>3. edge' \in Constraint
    BY <1>1 DEF Constraint
  <2>4. DOMAIN base' \subseteq Known' /\ base' \in [DOMAIN base' -> Int]
    BY <1>1, <1>4 DEF TypeOK, Known
  <2>5. asserted' \subseteq Constraint
    BY <1>1, <2>3 DEF TypeOK
  <2>6. cur' \in Point /\ is_sat' \in BOOLEAN
    BY <1>1 DEF TypeOK
  <2>7. Known' \subseteq Point
    BY <1>2, <1>4
  <2>. QED
    BY <1>1, <1>4, <1>5, <2>1, <2>2, <2>3, <2>4, <2>5, <2>6, <2>7 DEF TypeOK
<1>10. StoredAsserted'
  <2>1. ASSUME NEW e \in asserted'
        PROVE  /\ {e.src, e.dst} \subseteq K
               /\ \E n \in constraints'[e.src] : n.dst = e.dst /\ n.bound <= e.bound
    <3>1. CASE e \in asserted
      <4>1. /\ {e.src, e.dst} \subseteq Known
            /\ \E n \in constraints[e.src] : n.dst = e.dst /\ n.bound <= e.bound
        BY <3>1 DEF StoredAsserted
      <4>. QED
        BY <1>6, <4>1
    <3>2. CASE e = edge' /\ new \in constraints'[x]
      BY <1>1, <1>2, <3>2
    <3>3. CASE e = edge' /\ IsSubsumed(x, y, b)
      <4>1. PICK n \in constraints[x] :
              x \in Known /\ n.dst = y /\ Grain * n.bound <= Grain * b + Tolerance
        BY <3>3 DEF IsSubsumed
      <4>2. n.bound <= b
        BY <1>2, <1>7, <4>1, ExactComparisons
      <4>. QED
        BY <1>1, <1>2, <1>6, <3>3, <4>1, <4>2
    <3>. QED
      BY <1>1, <1>6, <3>1, <3>2, <3>3
  <2>2. ASSUME NEW p \in K, NEW m \in constraints'[p]
        PROVE  Edge(p, m) \in asserted'
    BY <1>1, <1>6, <1>8 DEF StoredAsserted
  <2>. QED
    BY <1>4, <2>1, <2>2 DEF StoredAsserted, Edge
<1>11. DirtyOnly'
  <2>. SUFFICES ASSUME NEW p \in K, NEW m \in constraints'[p]
                PROVE  distances'[m.dst] <= distances'[p] + m.bound \/ InQueue(p)'
    BY <1>4 DEF DirtyOnly
  <2>1. CASE p \in Known /\ m \in constraints[p]
    <3>1. CASE p # y
      BY <1>2, <1>5, <1>7, <2>1, <3>1
    <3>2. CASE p = y /\ queue' = <<>>
      BY <1>2, <1>5, <1>7, <2>1, <3>2
    <3>3. CASE p = y /\ queue' = <<y>>
      BY <3>3 DEF InQueue
    <3>. QED
      BY <1>5, <3>1, <3>2, <3>3
  <2>2. CASE p = x /\ m = new
    BY <1>2, <1>5, <2>2
  <2>. QED
    BY <1>6, <2>1, <2>2
<1>12. Propagating'
  <2>. SUFFICES ASSUME ~Idle'
                PROVE  PathsFromTarget'
    BY DEF Propagating
  <2>1. distances'[y] = D[x] + b /\ D[x] + b < D[y]
    BY <1>1, <1>5 DEF Idle
  <2>2. \A p \in K : \A m \in constraints'[p] :
          Edge(p, m) # edge' => D[m.dst] <= D[p] + m.bound
    BY <1>6, <1>7, <1>8
  <2>3. ASSUME NEW p \in K
        PROVE  /\ distances'[p] <= D[p]
               /\ D[p] - distances'[p] <= D[y] - distances'[y]
               /\ distances'[p] # D[p] =>
                    \A s \in [Point -> Dates] : s[p] - s[y] <= distances'[p] - distances'[y]
    <3>1. CASE p = y
      <4>1. \A s \in [Point -> Dates] : s[y] \in Int
        BY ConstantsAssumption
      <4>. QED
        BY <1>2, <1>5, <2>1, <3>1, <4>1
    <3>2. CASE p # y
      BY <1>2, <1>5, <2>1, <3>2
    <3>. QED
      BY <3>1, <3>2
  <2>. QED
    BY <1>1, <1>4, <2>1, <2>2, <2>3 DEF PathsFromTarget, Edge
<1>13. EarliestDates'
  <2>. SUFFICES ASSUME NEW s \in [Point -> Dates], Satisfies(s, asserted'),
                       \A p \in Point : s[p] <= 0, NEW p \in K
                PROVE  s[p] <= distances'[p]
    BY <1>4 DEF EarliestDates, Satisfies
  <2>1. \A r \in Point : s[r] \in Int
    BY ConstantsAssumption
  <2>2. Satisfies(s, asserted)
    BY <1>1 DEF Satisfies
  <2>3. \A r \in K : s[r] <= D[r]
    BY <1>2, <2>2 DEF EarliestDates
  <2>4. s[y] <= s[x] + b
    BY <1>1 DEF Satisfies
  <2>. QED
    BY <1>2, <1>5, <2>1, <2>3, <2>4
<1>14. UnsatIsReal'
  BY <1>1 DEF UnsatIsReal
<1>. QED
  BY <1>9, <1>10, <1>11, <1>12, <1>13, <1>14

-----------------------------------------------------------------------------
(* Every step of add and of the propagation keeps the inductive invariant.   *)
LEMMA NextInv == IInv /\ [Next]_vars => IInv'
<1>. SUFFICES ASSUME IInv, [Next]_vars PROVE IInv'
  OBVIOUS
<1>1. CASE Pop
  BY <1>1, PopInv
<1>2. ASSUME NEW n \in pending, Relax(n) PROVE IInv'
  BY <1>2, RelaxInv
<1>3. ASSUME NEW c \in Constraint, Add(c.src, c.dst, c.bound) PROVE IInv'
  BY <1>3, AddInv DEF Constraint
<1>4. CASE UNCHANGED vars
  BY <1>4 DEF vars, IInv, TypeOK, StoredAsserted, DirtyOnly, Propagating, PathsFromTarget,
     EarliestDates, UnsatIsReal, Known, Idle, InQueue, Before, Edge, Satisfies
<1>. QED
  BY <1>1, <1>2, <1>3, <1>4 DEF Next, Propagate

(* The network's state is what the code assumes of it at every step.         *)
THEOREM Invariance == Spec => []IInv
  BY InitInv, NextInv, PTL DEF Spec

(* `distances` is always a map over the time points seen so far.             *)
THEOREM TypeCorrect == Spec => []TypeOK
  BY Invariance, PTL DEF IInv

(* When add has returned, no stored bound improves a date by more than the   *)
(* tolerance, so the distances are a schedule.                               *)
LEMMA InvImpliesModel == IInv => ModelSatisfiesAsserted
<1>. SUFFICES ASSUME IInv, Idle, is_sat, NEW e \in asserted
              PROVE  distances[e.dst] <= distances[e.src] + e.bound
  BY DEF ModelSatisfiesAsserted, Satisfies
<1>1. PICK n \in constraints[e.src] :
        {e.src, e.dst} \subseteq Known /\ n.dst = e.dst /\ n.bound <= e.bound
  BY DEF IInv, StoredAsserted
<1>2. distances[n.dst] <= distances[e.src] + n.bound
  BY <1>1 DEF IInv, DirtyOnly, Idle, InQueue
<1>3. n.bound \in Int /\ e.bound \in Int
  <2>1. n \in [dst : Known, bound : Bound] /\ e \in Constraint
    BY <1>1 DEF IInv, TypeOK
  <2>. QED
    BY <2>1, ConstantsAssumption DEF Constraint
<1>4. distances[e.src] \in Int /\ distances[e.dst] \in Int
  BY <1>1 DEF IInv, TypeOK
<1>. QED
  BY <1>1, <1>2, <1>3, <1>4

(* When `add` returns on a satisfiable network, get_model_value is a schedule*)
(* of every constraint asserted, subsumed ones included.                     *)
THEOREM ModelIsASchedule == Spec => []ModelSatisfiesAsserted
  BY Invariance, InvImpliesModel, PTL

(* No schedule is earlier than the distances, at any step of an `add`.       *)
THEOREM DatesAreEarliest == Spec => []EarliestDates
  BY Invariance, PTL DEF IInv

(* A network is declared inconsistent only when it has no schedule.          *)
THEOREM UnsatIsNoSchedule == Spec => []UnsatIsReal
  BY Invariance, PTL DEF IInv

(* Only the new constraint ever improves its target: the branch of           *)
(* `inc_check` that would assign it again is never taken for the target.     *)
THEOREM TargetOnce == Spec => TargetImprovedOnce
<1>1. IInv /\ [Next]_vars => [Propagate => distances'[edge.dst] = distances[edge.dst]]_vars
  <2>. SUFFICES ASSUME IInv, Propagate
                PROVE  distances'[edge.dst] = distances[edge.dst]
    OBVIOUS
  <2>1. CASE Pop
    BY <2>1 DEF Pop
  <2>2. ASSUME NEW n \in pending, Relax(n)
        PROVE  distances'[edge.dst] = distances[edge.dst]
    <3>1. CASE distances' = distances
      BY <3>1
    <3>2. CASE distances' # distances
      <4>1. /\ Improves(distances[cur] + n.bound, distances[n.dst])
            /\ ~(n.dst = edge.dst /\ EqualsWithTolerance(n.bound, edge.bound))
            /\ distances' = [distances EXCEPT ![n.dst] = distances[cur] + n.bound]
        BY <2>2, <3>2 DEF Relax, Offer, ClosesCycle
      <4>2. /\ distances[cur] + n.bound \in Int /\ distances[n.dst] \in Int
            /\ n.bound \in Int /\ edge.bound \in Int
            /\ edge.dst \in Known
        <5>1. cur \in Known /\ n \in constraints[cur] /\ PathsFromTarget
          BY DEF IInv, TypeOK, Propagating, Idle
        <5>2. n \in [dst : Known, bound : Bound]
          BY <5>1 DEF IInv, TypeOK
        <5>3. edge \in Constraint /\ edge.dst \in Known
          BY <5>1 DEF IInv, TypeOK, PathsFromTarget, StoredAsserted
        <5>4. distances[cur] \in Int /\ distances[n.dst] \in Int
          BY <5>1, <5>2 DEF IInv, TypeOK
        <5>5. n.bound \in Int /\ edge.bound \in Int
          BY <5>2, <5>3, ConstantsAssumption DEF Constraint
        <5>. QED
          BY <5>3, <5>4, <5>5
      <4>3. distances[cur] + n.bound < distances[n.dst]
        BY <4>1, <4>2, ExactComparisons
      <4>4. Edge(cur, n) # edge
        BY <4>1, <4>2, ExactComparisons DEF Edge
      <4>5. n.dst # edge.dst
        BY <4>3, <4>4, ImprovingEntry
      <4>. QED
        BY <4>1, <4>2, <4>5 DEF IInv, TypeOK
    <3>. QED
      BY <3>1, <3>2
  <2>. QED
    BY <2>1, <2>2 DEF Propagate
<1>. QED
  BY <1>1, Invariance, PTL DEF Spec, TargetImprovedOnce

-----------------------------------------------------------------------------
(* The distances have exactly the time points that some asserted constraint  *)
(* names.                                                                    *)
LEMMA MentionsInv ==
  ASSUME IInv, Mentions, [Next]_vars
  PROVE  Mentions'
<1>1. CASE Pop
  BY <1>1 DEF Pop, Mentions, Known
<1>2. ASSUME NEW n \in pending, Relax(n)
      PROVE  Mentions'
  <2>1. asserted' = asserted
    BY <1>2 DEF Relax, Offer, ClosesCycle
  <2>2. CASE distances' = distances
    BY <2>1, <2>2 DEF Mentions, Known
  <2>3. CASE distances' # distances
    <3>1. /\ Improves(distances[cur] + n.bound, distances[n.dst])
          /\ distances' = [distances EXCEPT ![n.dst] = distances[cur] + n.bound]
      BY <1>2, <2>3 DEF Relax, Offer, ClosesCycle
    <3>2. /\ distances[cur] + n.bound \in Int /\ distances[n.dst] \in Int
          /\ n.dst \in Known
      <4>1. cur \in Known /\ n \in constraints[cur]
        BY DEF IInv, TypeOK
      <4>2. n \in [dst : Known, bound : Bound]
        BY <4>1 DEF IInv, TypeOK
      <4>3. distances[cur] \in Int /\ distances[n.dst] \in Int
        BY <4>1, <4>2 DEF IInv, TypeOK
      <4>4. n.bound \in Int /\ n.dst \in Known
        BY <4>2, ConstantsAssumption
      <4>. QED
        BY <4>3, <4>4
    <3>3. distances[cur] + n.bound < distances[n.dst]
      BY <3>1, <3>2, ExactComparisons
    <3>4. /\ Known' = Known
          /\ \A p \in Known : distances'[p] <= distances[p]
      BY <3>1, <3>2, <3>3 DEF Known, IInv, TypeOK
    <3>5. \A p \in Known : distances[p] \in Int /\ distances'[p] \in Int
      BY <3>1, <3>2 DEF IInv, TypeOK
    <3>. QED
      BY <2>1, <3>4, <3>5 DEF Mentions
  <2>. QED
    BY <2>2, <2>3
<1>3. ASSUME NEW c \in Constraint, Add(c.src, c.dst, c.bound)
      PROVE  Mentions'
  <2>. DEFINE x == c.src
              y == c.dst
              K == Known \cup {x, y}
              D == Seen(x, y)
  <2>1. /\ x \in Point /\ y \in Point /\ c.bound \in Int
        /\ c = [src |-> x, dst |-> y, bound |-> c.bound]
    BY ConstantsAssumption DEF Constraint
  <2>2. asserted' = asserted \cup {c}
    BY <1>3, <2>1 DEF Add
  <2>4. /\ DOMAIN D = K
        /\ \A p \in K : D[p] \in Int /\ D[p] <= 0
    BY DEF Seen, IInv, TypeOK, Mentions
  <2>5. \/ distances' = D
        \/ distances' = [D EXCEPT ![y] = D[x] + c.bound] /\ D[x] + c.bound < D[y]
    <3>1. \/ distances' = D
          \/ /\ distances' = [D EXCEPT ![y] = D[x] + c.bound]
             /\ Improves(D[x] + c.bound, D[y])
      BY <1>3 DEF Add
    <3>. HIDE DEF D
    <3>2. D[x] + c.bound \in Int /\ D[y] \in Int
      BY <2>1, <2>4
    <3>. QED
      BY <3>1, <3>2, ExactComparisons
  <2>6. Known' = K /\ \A p \in K : distances'[p] <= 0
    <3>. HIDE DEF D, K
    <3>1. x \in K /\ y \in K
      BY DEF K
    <3>. QED
      BY <2>1, <2>4, <2>5, <3>1 DEF Known
  <2>7. K = UNION {{e.src, e.dst} : e \in asserted'}
    BY <2>2 DEF Mentions
  <2>. QED
    BY <2>6, <2>7 DEF Mentions
<1>4. CASE UNCHANGED vars
  BY <1>4 DEF vars, Mentions, Known
<1>. QED
  BY <1>1, <1>2, <1>3, <1>4 DEF Next, Propagate

-----------------------------------------------------------------------------
(* A network whose `add` has returned answers as the abstract one does.      *)
Answer ==
  /\ Promise!Consistent(asserted)
  /\ DOMAIN distances = Promise!Mentioned(asserted)
  /\ Promise!Earliest(distances, asserted)

(* A satisfiable network whose add has returned answers as the abstract one  *)
(* does.                                                                     *)
LEMMA SatVerdict == IInv /\ Mentions /\ Idle /\ is_sat /\ Dates = Int => Answer
<1>. SUFFICES ASSUME IInv, Mentions, Idle, is_sat, Dates = Int PROVE Answer
  OBVIOUS
<1>1. Satisfies(distances, asserted)
  BY InvImpliesModel DEF ModelSatisfiesAsserted
<1>2. /\ \A e \in asserted : e.src \in Known /\ e.dst \in Known
      /\ Known \subseteq Point
      /\ \A p \in Known : distances[p] \in Int /\ distances[p] <= 0
  BY DEF IInv, StoredAsserted, TypeOK, Mentions
<1>. DEFINE s == [p \in Point |-> IF p \in Known THEN distances[p] ELSE 0]
<1>3. s \in [Point -> Dates]
  BY <1>2
<1>4. Promise!Satisfies(s, asserted)
  BY <1>1, <1>2 DEF Satisfies, Promise!Satisfies
<1>5. Promise!Consistent(asserted)
  BY <1>3, <1>4 DEF Promise!Consistent
<1>6. Promise!Mentioned(asserted) = Known
  BY DEF Promise!Mentioned, Mentions
<1>7. Promise!Earliest(distances, asserted)
  BY <1>1, <1>2, <1>6
     DEF Promise!Earliest, Promise!Satisfies, Satisfies, IInv, EarliestDates
<1>. QED
  BY <1>5, <1>6, <1>7 DEF Known, Answer

(* A network found inconsistent holds constraints the abstract one finds     *)
(* inconsistent.                                                             *)
LEMMA UnsatVerdict == IInv /\ ~is_sat => ~Promise!Consistent(asserted)
BY DEF IInv, UnsatIsReal, Satisfies, Promise!Consistent, Promise!Satisfies

(* The end of an `add` is the abstract addition of its constraint.           *)
LEMMA VerdictStep ==
  ASSUME IInv', Mentions', Idle', Dates = Int,
         NEW c \in Constraint, Verdict,
         asserted' = Asserted \cup {c}, ~is_sat' => base' = Schedule
  PROVE  Promise!Next
<1>1. /\ (IInv /\ Mentions /\ Idle /\ is_sat /\ Dates = Int => Answer)'
      /\ (IInv /\ ~is_sat => ~Promise!Consistent(asserted))'
  BY SatVerdict, UnsatVerdict, PTL
<1>2. Asserted' = asserted' /\ (Verdict' <=> is_sat')
      /\ (is_sat' => Schedule' = distances') /\ (~is_sat' => Schedule' = base')
  BY DEF Asserted, Verdict, Schedule
<1>3. CASE is_sat'
  <2>1. Verdict' /\ Verdict' \in BOOLEAN
    BY <1>2, <1>3 DEF Verdict
  <2>2. /\ Promise!Consistent(Asserted')
        /\ DOMAIN Schedule' = Promise!Mentioned(Asserted')
        /\ Promise!Earliest(Schedule', Asserted')
    BY <1>1, <1>2, <1>3
       DEF Answer, Promise!Consistent, Promise!Mentioned, Promise!Earliest, Promise!Satisfies
  <2>3. Verdict' = Promise!Consistent(Asserted')
    BY <2>1, <2>2 DEF Verdict, Promise!Consistent
  <2>4. Promise!Add(c)
    BY <1>2, <2>1, <2>2, <2>3 DEF Promise!Add
  <2>. QED
    BY <2>4 DEF Promise!Next, Promise!Constraint, Constraint
<1>4. CASE ~is_sat'
  <2>1. ~Promise!Consistent(Asserted')
    BY <1>1, <1>2, <1>4 DEF Promise!Consistent, Promise!Satisfies
  <2>2. Verdict' = Promise!Consistent(Asserted')
    BY <1>2, <1>4, <2>1 DEF Verdict, Promise!Consistent
  <2>4. Promise!Add(c)
    BY <1>2, <1>4, <2>2 DEF Promise!Add
  <2>. QED
    BY <2>4 DEF Promise!Next, Promise!Constraint, Constraint
<1>. QED
  BY <1>3, <1>4

(* The step on which add returns is the step of the abstract network.        *)
LEMMA ReturnRefines ==
  ASSUME IInv, Mentions, ~Idle, Propagate, Idle', IInv', Mentions', Dates = Int
  PROVE  Promise!Next
<1>1. is_sat /\ edge \in asserted /\ edge \in Constraint
  BY DEF IInv, Propagating, PathsFromTarget, TypeOK
<1>2. asserted' = asserted /\ edge' = edge /\ base' = base
  BY DEF Propagate, Pop, Relax
<1>3. Asserted = asserted \ {edge} /\ Schedule = base /\ Verdict
  BY DEF Asserted, Schedule, Verdict
<1>5. asserted' = Asserted \cup {edge}
  BY <1>1, <1>2, <1>3
<1>. QED
  BY <1>1, <1>2, <1>3, <1>5, VerdictStep

(* A call of `add`: the abstract addition when it returns at once, nothing   *)
(* visible when it has improvements to propagate.                            *)
LEMMA AddRefines ==
  ASSUME IInv, Mentions, NEW c \in Constraint, Add(c.src, c.dst, c.bound),
         IInv', Mentions', Dates = Int
  PROVE  [Promise!Next]_(Promise!vars)
<1>1. Idle /\ is_sat /\ is_sat' /\ base' = distances /\ edge' = c
      /\ asserted' = asserted \cup {c}
  BY DEF Add, Constraint
<1>2. CASE Idle'
  <2>1. Verdict /\ Asserted = asserted
    BY <1>1 DEF Verdict, Asserted
  <2>. QED
    BY <1>1, <1>2, <2>1, VerdictStep
<1>3. CASE ~Idle'
  <2>1. c \notin asserted
    <3>. SUFFICES ASSUME c \in asserted PROVE FALSE
      OBVIOUS
    <3>1. c.src \in Known /\ c.dst \in Known
      BY DEF IInv, StoredAsserted
    <3>2. distances[c.dst] <= distances[c.src] + c.bound
      BY <1>1, InvImpliesModel DEF ModelSatisfiesAsserted, Satisfies
    <3>3. /\ Seen(c.src, c.dst)[c.src] = distances[c.src]
          /\ Seen(c.src, c.dst)[c.dst] = distances[c.dst]
      BY <3>1 DEF Seen
    <3>4. /\ distances[c.src] \in Int /\ distances[c.dst] \in Int
          /\ c.bound \in Int
      BY <3>1, ConstantsAssumption DEF IInv, TypeOK, Constraint
    <3>5. Improves(distances[c.src] + c.bound, distances[c.dst])
      BY <1>1, <1>3, <3>3 DEF Add, Idle
    <3>6. distances[c.src] + c.bound < distances[c.dst]
      BY <3>4, <3>5, ExactComparisons
    <3>. QED
      BY <3>2, <3>4, <3>6
  <2>2. /\ Asserted = asserted /\ Asserted' = asserted' \ {c}
        /\ Verdict = TRUE /\ Verdict' = TRUE
        /\ Schedule = distances /\ Schedule' = base'
    BY <1>1, <1>3 DEF Asserted, Verdict, Schedule
  <2>. QED
    BY <1>1, <2>1, <2>2 DEF Promise!vars
<1>. QED
  BY <1>2, <1>3

(* The incremental network implements the abstract one: its verdict is the   *)
(* satisfiability of everything asserted, its dates are the earliest ones.   *)
THEOREM Refinement == Dates = Int => (Spec => ImplementsSTN)
<1>. SUFFICES ASSUME Dates = Int PROVE Spec => ImplementsSTN
  OBVIOUS
<1>1. Init => Mentions
  BY DEF Init, Mentions, Known
<1>2. Init => Promise!Init
  BY DEF Init, Promise!Init, Asserted, Verdict, Schedule, Idle
<1>3. IInv /\ Mentions /\ [Next]_vars => Mentions'
  BY MentionsInv
<1>4. IInv /\ Mentions /\ IInv' /\ Mentions' /\ [Next]_vars => [Promise!Next]_(Promise!vars)
  <2>. SUFFICES ASSUME IInv, Mentions, IInv', Mentions', [Next]_vars
                PROVE  [Promise!Next]_(Promise!vars)
    OBVIOUS
  <2>1. CASE Propagate
    <3>1. ~Idle
      BY <2>1 DEF Propagate, Pop, Idle
    <3>2. CASE Idle'
      BY <2>1, <3>1, <3>2, ReturnRefines
    <3>3. CASE ~Idle'
      <4>1. asserted' = asserted /\ edge' = edge /\ base' = base
        BY <2>1 DEF Propagate, Pop, Relax
      <4>. QED
        BY <3>1, <3>3, <4>1 DEF Promise!vars, Asserted, Verdict, Schedule
    <3>. QED
      BY <3>2, <3>3
  <2>2. ASSUME NEW c \in Constraint, Add(c.src, c.dst, c.bound)
        PROVE  [Promise!Next]_(Promise!vars)
    BY <2>2, AddRefines
  <2>3. CASE UNCHANGED vars
    BY <2>3 DEF vars, Promise!vars, Asserted, Verdict, Schedule, Idle
  <2>. QED
    BY <2>1, <2>2, <2>3 DEF Next
<1>. QED
  BY <1>1, <1>2, <1>3, <1>4, Invariance, PTL DEF Spec, ImplementsSTN, Promise!Spec
=============================================================================
