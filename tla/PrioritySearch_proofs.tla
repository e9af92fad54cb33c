----------------------- MODULE PrioritySearch_proofs -----------------------
(****************************************************************************)
(* A search that says there is no plan is right, for every search space,     *)
(* heuristic and order of expansion: what it let through and did not expand  *)
(* is a dead end, and what it pruned stands for something it let through.    *)
(****************************************************************************)
EXTENDS PrioritySearch, TLAPS, WellFoundedInduction, SequenceTheorems

(* A non-empty set of natural numbers has a least one.                       *)
LEMMA LeastNumber ==
  ASSUME NEW S \in SUBSET Nat, S # {}
  PROVE  \E m \in S : \A k \in S : m <= k
<1> DEFINE R == OpToRel(<, Nat)
<1>1. PICK m \in S : \A k \in S : ~(<<k, m>> \in R)
  <2> HIDE DEF R
  <2>1. IsWellFoundedOn(R, Nat)
    BY NatLessThanWellFounded DEF R
  <2> QED
    BY <2>1, WFMin
<1>2. \A k \in S : ~(k < m)
  BY <1>1 DEF OpToRel
<1> QED
  BY <1>2

-----------------------------------------------------------------------------
(* The open list.                                                            *)

(* Less orders the items, ties aside. *)
LEMMA LessOneWay ==
  ASSUME space.todo \in [space.nodes -> Nat], NEW x \in Item, NEW y \in Item, Less(x, y)
  PROVE  ~Less(y, x)
<1>1. /\ x.priority \in Nat /\ y.priority \in Nat
      /\ space.todo[x.node] \in Nat /\ space.todo[y.node] \in Nat
  BY DEF Item
<1> QED
  BY <1>1 DEF Less

(* Less is a strict weak order on the items of a space.                      *)
LEMMA LessIsAnOrder ==
  ASSUME space.todo \in [space.nodes -> Nat],
         NEW x \in Item, NEW y \in Item, NEW z \in Item
  PROVE  /\ Less(x, y) => ~Less(y, x)
         /\ Less(x, y) /\ Less(y, z) => Less(x, z)
         /\ ~Less(x, y) /\ ~Less(y, z) => ~Less(x, z)
<1>1. /\ x.priority \in Nat /\ y.priority \in Nat /\ z.priority \in Nat
      /\ space.todo[x.node] \in Nat /\ space.todo[y.node] \in Nat /\ space.todo[z.node] \in Nat
  BY DEF Item
<1> QED
  BY <1>1 DEF Less

(* The part of it that the search for the first item uses.                   *)
LEMMA NotLessIsAnOrder ==
  ASSUME space.todo \in [space.nodes -> Nat],
         NEW x \in Item, NEW y \in Item, NEW z \in Item,
         ~Less(x, y), ~Less(y, z)
  PROVE  ~Less(x, z)
BY LessIsAnOrder

(* An open list that is not empty has a first item. *)
LEMMA LeastExists ==
  ASSUME space.todo \in [space.nodes -> Nat], NEW items \in Seq(Item), items # <<>>
  PROVE  Least(items) \in DOMAIN items
<1> DEFINE First(i, n) ==
             \A j \in 1 .. n : Less(items[i], items[j]) \/ (i <= j /\ ~Less(items[j], items[i]))
           Bad == {n \in 1 .. Len(items) : \A i \in 1 .. n : ~First(i, n)}
<1>1. DOMAIN items = 1 .. Len(items) /\ Len(items) \in Nat \ {0}
      /\ \A i \in DOMAIN items : items[i] \in Item
  OBVIOUS
<1>2. Bad = {}
  <2>1. SUFFICES ASSUME Bad # {} PROVE FALSE
    OBVIOUS
  <2>2. PICK n \in Bad : \A m \in Bad : n <= m
    <3>1. Bad \in SUBSET Nat
      OBVIOUS
    <3> HIDE DEF Bad
    <3> QED
      BY <2>1, <3>1, LeastNumber
  <2>3. n \in 1 .. Len(items) /\ n \in Nat
    BY <1>1
  <2>6. ASSUME NEW i \in 1 .. n PROVE ~First(i, n)
    <3> HIDE DEF First
    <3> QED
      BY <2>2
  <2>4. CASE n = 1
    <3>1. ~Less(items[1], items[1])
      BY <1>1, LessIsAnOrder
    <3>2. First(1, 1)
      BY <3>1
    <3> QED
      <4> HIDE DEF First
      <4> QED
        BY <2>4, <3>2, <2>6
  <2>5. CASE n # 1
    <3>1. n - 1 \in 1 .. Len(items) /\ n - 1 \notin Bad
      <4>1. n - 1 \in 1 .. Len(items) /\ ~(n <= n - 1)
        BY <1>1, <2>3, <2>5
      <4> HIDE DEF Bad
      <4> QED
        BY <4>1, <2>2
    <3>2. PICK i \in 1 .. n - 1 : First(i, n - 1)
      BY <3>1
    <3>3. i \in DOMAIN items /\ n \in DOMAIN items /\ i < n
      BY <1>1, <2>3, <3>1
    <3>4. CASE Less(items[n], items[i])
      <4>1. ASSUME NEW j \in 1 .. n - 1 PROVE Less(items[n], items[j])
        <5>1. j \in DOMAIN items
          BY <1>1, <2>3, <3>1
        <5>2. ~Less(items[j], items[i])
          BY <3>2, <3>3, <5>1, <1>1, LessIsAnOrder
        <5>3. CASE Less(items[i], items[j])
          BY <5>3, <3>4, <5>1, <3>3, <1>1, LessIsAnOrder
        <5>4. CASE ~Less(items[i], items[j])
          BY <5>4, <3>4, <5>1, <5>2, <3>3, <1>1, LessIsAnOrder
        <5> QED
          BY <5>3, <5>4
      <4>2. ~Less(items[n], items[n])
        BY <1>1, <3>3, LessIsAnOrder
      <4>3. First(n, n)
        BY <4>1, <4>2, <2>3
      <4> HIDE DEF First
      <4> QED
        BY <4>3, <2>3, <2>6
    <3>5. CASE ~Less(items[n], items[i])
      <4>1. ASSUME NEW j \in 1 .. n
            PROVE  Less(items[i], items[j]) \/ (i <= j /\ ~Less(items[j], items[i]))
        <5>1. CASE j = n
          BY <5>1, <3>3, <3>5, <2>3
        <5>2. CASE j \in 1 .. n - 1
          BY <5>2, <3>2
        <5> QED
          BY <5>1, <5>2, <2>3
      <4>2. i \in 1 .. n
        BY <2>3
      <4>3. First(i, n)
        BY <4>1
      <4> HIDE DEF First
      <4> QED
        BY <4>3, <4>2, <2>6
    <3> QED
      BY <3>4, <3>5
  <2> QED
    BY <2>4, <2>5
<1>3. PICK i \in 1 .. Len(items) : First(i, Len(items))
  <2> HIDE DEF First
  <2> QED
    BY <1>1, <1>2
<1>4. \E k \in DOMAIN items : \A j \in DOMAIN items :
        Less(items[k], items[j]) \/ (k <= j /\ ~Less(items[j], items[k]))
  BY <1>1, <1>3
<1> QED
  BY <1>4 DEF Least

(* A full open list has a last item. *)
LEMMA GreatestExists ==
  ASSUME space.todo \in [space.nodes -> Nat], NEW items \in Seq(Item), items # <<>>
  PROVE  /\ Greatest(items) \in DOMAIN items
         /\ \A j \in DOMAIN items :
              \/ Less(items[j], items[Greatest(items)])
              \/ j <= Greatest(items) /\ ~Less(items[Greatest(items)], items[j])
<1> DEFINE Final(i, n) ==
             \A j \in 1 .. n : Less(items[j], items[i]) \/ (j <= i /\ ~Less(items[i], items[j]))
           Bad == {n \in 1 .. Len(items) : \A i \in 1 .. n : ~Final(i, n)}
<1>1. DOMAIN items = 1 .. Len(items) /\ Len(items) \in Nat \ {0}
      /\ \A i \in DOMAIN items : items[i] \in Item
  OBVIOUS
<1>2. Bad = {}
  <2>1. SUFFICES ASSUME Bad # {} PROVE FALSE
    OBVIOUS
  <2>2. PICK n \in Bad : \A m \in Bad : n <= m
    <3>1. Bad \in SUBSET Nat
      OBVIOUS
    <3> HIDE DEF Bad
    <3> QED
      BY <2>1, <3>1, LeastNumber
  <2>3. n \in 1 .. Len(items) /\ n \in Nat
    BY <1>1
  <2>6. ASSUME NEW i \in 1 .. n PROVE ~Final(i, n)
    <3> HIDE DEF Final
    <3> QED
      BY <2>2
  <2>4. CASE n = 1
    <3>1. ~Less(items[1], items[1])
      BY <1>1, LessIsAnOrder
    <3>2. Final(1, 1)
      BY <3>1
    <3> QED
      <4> HIDE DEF Final
      <4> QED
        BY <2>4, <3>2, <2>6
  <2>5. CASE n # 1
    <3>1. n - 1 \in 1 .. Len(items) /\ n - 1 \notin Bad
      <4>1. n - 1 \in 1 .. Len(items) /\ ~(n <= n - 1)
        BY <1>1, <2>3, <2>5
      <4> HIDE DEF Bad
      <4> QED
        BY <4>1, <2>2
    <3>2. PICK i \in 1 .. n - 1 : Final(i, n - 1)
      BY <3>1
    <3>3. i \in DOMAIN items /\ n \in DOMAIN items /\ i < n
      BY <1>1, <2>3, <3>1
    <3>4. CASE ~Less(items[n], items[i])
      <4>1. ASSUME NEW j \in 1 .. n - 1 PROVE ~Less(items[n], items[j])
        <5>1. j \in DOMAIN items
          BY <1>1, <2>3, <3>1
        <5>2. items[i] \in Item /\ items[j] \in Item /\ items[n] \in Item
          BY <1>1, <3>3, <5>1
        <5> HIDE DEF Bad
        <5>3. Less(items[j], items[i]) => ~Less(items[i], items[j])
          BY <5>2, LessOneWay
        <5>4. ~Less(items[i], items[j])
          BY <5>3, <3>2
        <5> QED
          BY <3>4, <5>2, <5>4, NotLessIsAnOrder
      <4>2. ~Less(items[n], items[n])
        BY <1>1, <3>3, LessIsAnOrder
      <4>3. Final(n, n)
        BY <4>1, <4>2, <2>3
      <4> HIDE DEF Final
      <4> QED
        BY <4>3, <2>3, <2>6
    <3>5. CASE Less(items[n], items[i])
      <4>1. ASSUME NEW j \in 1 .. n
            PROVE  Less(items[j], items[i]) \/ (j <= i /\ ~Less(items[i], items[j]))
        <5>1. CASE j = n
          BY <5>1, <3>3, <3>5, <2>3
        <5>2. CASE j \in 1 .. n - 1
          BY <5>2, <3>2
        <5> QED
          BY <5>1, <5>2, <2>3
      <4>2. i \in 1 .. n
        BY <2>3
      <4>3. Final(i, n)
        BY <4>1
      <4> HIDE DEF Final
      <4> QED
        BY <4>3, <4>2, <2>6
    <3> QED
      BY <3>4, <3>5
  <2> QED
    BY <2>4, <2>5
<1>3. PICK i \in 1 .. Len(items) : Final(i, Len(items))
  <2> HIDE DEF Final
  <2> QED
    BY <1>1, <1>2
<1>4. \E k \in DOMAIN items : \A j \in DOMAIN items :
        Less(items[j], items[k]) \/ (j <= k /\ ~Less(items[k], items[j]))
  BY <1>1, <1>3
<1> QED
  BY <1>4 DEF Greatest

(* The nodes of the items of an open list. *)
NodesOf(items) == {items[i].node : i \in DOMAIN items}
Elements(s) == {s[i] : i \in DOMAIN s}

(* Taking the i-th element out of a sequence takes nothing else out. *)
LEMMA RemoveAtKeeps ==
  ASSUME NEW S, NEW s \in Seq(S), NEW i \in DOMAIN s
  PROVE  /\ RemoveAt(s, i) \in Seq(S) /\ Len(RemoveAt(s, i)) = Len(s) - 1
         /\ \A j \in DOMAIN RemoveAt(s, i) : \E k \in DOMAIN s : RemoveAt(s, i)[j] = s[k]
         /\ \A k \in DOMAIN s : k = i \/ \E j \in DOMAIN RemoveAt(s, i) : RemoveAt(s, i)[j] = s[k]
<1> DEFINE before == SubSeq(s, 1, i - 1)
           after == SubSeq(s, i + 1, Len(s))
<1>1. i \in 1 .. Len(s) /\ Len(s) \in Nat /\ DOMAIN s = 1 .. Len(s)
  OBVIOUS
<1>2. /\ before \in Seq(S) /\ Len(before) = i - 1
      /\ \A k \in 1 .. i - 1 : before[k] = s[k]
  BY <1>1
<1>3. /\ after \in Seq(S) /\ Len(after) = Len(s) - i
      /\ \A k \in 1 .. Len(s) - i : after[k] = s[i + k]
  BY <1>1
<1>4. RemoveAt(s, i) = before \o after
  BY DEF RemoveAt
<1> HIDE DEF before, after
<1>5. RemoveAt(s, i) \in Seq(S) /\ Len(RemoveAt(s, i)) = Len(s) - 1
  <2>1. before \o after \in Seq(S)
    BY <1>2, <1>3
  <2>2. Len(before \o after) = Len(before) + Len(after)
    BY <1>2, <1>3, ConcatProperties
  <2>3. Len(before) + Len(after) = Len(s) - 1
    BY <1>1, <1>2, <1>3
  <2> QED
    BY <2>1, <2>2, <2>3, <1>4
<1>6. DOMAIN RemoveAt(s, i) = 1 .. Len(s) - 1
  BY <1>5
<1>7. ASSUME NEW j \in 1 .. Len(s) - 1
      PROVE  RemoveAt(s, i)[j] = IF j < i THEN s[j] ELSE s[j + 1]
  <2>1. (before \o after)[j] = IF j <= Len(before) THEN before[j] ELSE after[j - Len(before)]
    BY <1>1, <1>2, <1>3
  <2>2. CASE j < i
    BY <2>1, <2>2, <1>1, <1>2, <1>4
  <2>3. CASE ~(j < i)
    <3>1. j - (i - 1) \in 1 .. Len(s) - i /\ i + (j - (i - 1)) = j + 1 /\ ~(j <= i - 1)
      BY <2>3, <1>1
    <3>2. after[j - (i - 1)] = s[j + 1]
      BY <3>1, <1>3
    <3> QED
      BY <2>1, <2>3, <3>1, <3>2, <1>2, <1>4
  <2> QED
    BY <2>2, <2>3
<1>8. ASSUME NEW k \in DOMAIN s, k # i
      PROVE  \E j \in DOMAIN RemoveAt(s, i) : RemoveAt(s, i)[j] = s[k]
  <2>1. CASE k < i
    BY <2>1, <1>1, <1>6, <1>7
  <2>2. CASE k > i
    <3>1. k - 1 \in DOMAIN RemoveAt(s, i) /\ RemoveAt(s, i)[k - 1] = s[k]
      BY <2>2, <1>1, <1>6, <1>7
    <3> QED
      BY <3>1
  <2> QED
    BY <2>1, <2>2, <1>1, <1>8
<1>9. ASSUME NEW j \in DOMAIN RemoveAt(s, i)
      PROVE  \E k \in DOMAIN s : RemoveAt(s, i)[j] = s[k]
  BY <1>1, <1>6, <1>7
<1> QED
  BY <1>5, <1>8, <1>9

(* Taking an item out of the open list takes out at most its node.           *)
LEMMA RemoveNodes ==
  ASSUME NEW items \in Seq(Item), NEW i \in DOMAIN items
  PROVE  /\ RemoveAt(items, i) \in Seq(Item)
         /\ NodesOf(RemoveAt(items, i)) \subseteq NodesOf(items)
         /\ NodesOf(items) \subseteq NodesOf(RemoveAt(items, i)) \cup {items[i].node}
<1> HIDE DEF Item
<1> DEFINE t == RemoveAt(items, i)
<1>1. /\ t \in Seq(Item)
      /\ \A j \in DOMAIN t : \E k \in DOMAIN items : t[j] = items[k]
      /\ \A k \in DOMAIN items : k = i \/ \E j \in DOMAIN t : t[j] = items[k]
  BY RemoveAtKeeps
<1> HIDE DEF t
<1>2. NodesOf(t) \subseteq NodesOf(items)
  BY <1>1 DEF NodesOf
<1>3. NodesOf(items) \subseteq NodesOf(t) \cup {items[i].node}
  BY <1>1 DEF NodesOf
<1> QED
  BY <1>1, <1>2, <1>3 DEF t

(* Pushing an item adds its node and nothing else.                           *)
LEMMA AppendNodes ==
  ASSUME NEW items \in Seq(Item), NEW x \in Item
  PROVE  /\ Append(items, x) \in Seq(Item)
         /\ NodesOf(Append(items, x)) = NodesOf(items) \cup {x.node}
<1> HIDE DEF Item
<1>1. /\ Append(items, x) \in Seq(Item)
      /\ DOMAIN Append(items, x) = 1 .. Len(items) + 1
      /\ DOMAIN items = 1 .. Len(items) /\ Len(items) \in Nat
      /\ \A j \in 1 .. Len(items) : Append(items, x)[j] = items[j]
      /\ Append(items, x)[Len(items) + 1] = x
  OBVIOUS
<1>2. NodesOf(Append(items, x)) \subseteq NodesOf(items) \cup {x.node}
  BY <1>1 DEF NodesOf
<1>3. NodesOf(items) \subseteq NodesOf(Append(items, x))
  BY <1>1 DEF NodesOf
<1>4. x.node \in NodesOf(Append(items, x))
  BY <1>1 DEF NodesOf
<1> QED
  BY <1>1, <1>2, <1>3, <1>4

(* Appending a candidate adds it and nothing else.                           *)
LEMMA AppendElements ==
  ASSUME NEW S, NEW s \in Seq(S), NEW a \in S
  PROVE  Append(s, a) \in Seq(S) /\ Elements(Append(s, a)) = Elements(s) \cup {a}
<1>1. /\ Append(s, a) \in Seq(S)
      /\ DOMAIN Append(s, a) = 1 .. Len(s) + 1
      /\ DOMAIN s = 1 .. Len(s) /\ Len(s) \in Nat
      /\ \A j \in 1 .. Len(s) : Append(s, a)[j] = s[j]
      /\ Append(s, a)[Len(s) + 1] = a
  OBVIOUS
<1> QED
  BY <1>1 DEF Elements

(* Taking the first element off a sequence takes off at most that one.       *)
LEMMA TailElements ==
  ASSUME NEW S, NEW s \in Seq(S), s # <<>>
  PROVE  /\ Head(s) \in S
         /\ Tail(s) \in Seq(S)
         /\ Head(s) \in Elements(s)
         /\ Elements(Tail(s)) \subseteq Elements(s)
         /\ Elements(s) \subseteq Elements(Tail(s)) \cup {Head(s)}
<1>1. /\ Len(s) \in Nat \ {0} /\ DOMAIN s = 1 .. Len(s)
      /\ Head(s) = s[1] /\ Head(s) \in S
      /\ Tail(s) \in Seq(S) /\ DOMAIN Tail(s) = 1 .. Len(s) - 1
      /\ \A j \in 1 .. Len(s) - 1 : Tail(s)[j] = s[j + 1]
  OBVIOUS
<1>2. ASSUME NEW k \in DOMAIN s
      PROVE  s[k] = Head(s) \/ s[k] \in Elements(Tail(s))
  <2>1. CASE k = 1
    BY <2>1, <1>1
  <2>2. CASE k # 1
    <3>1. k - 1 \in DOMAIN Tail(s) /\ Tail(s)[k - 1] = s[k]
      BY <2>2, <1>1
    <3> QED
      BY <3>1 DEF Elements
  <2> QED
    BY <2>1, <2>2
<1>3. ASSUME NEW j \in DOMAIN Tail(s)
      PROVE  Tail(s)[j] \in Elements(s)
  <2>1. j + 1 \in DOMAIN s /\ Tail(s)[j] = s[j + 1]
    BY <1>1
  <2> QED
    BY <2>1 DEF Elements
<1>4. Elements(Tail(s)) \subseteq Elements(s)
  BY <1>3 DEF Elements
<1>5. Elements(s) \subseteq Elements(Tail(s)) \cup {Head(s)}
  BY <1>2 DEF Elements
<1>6. Head(s) \in Elements(s)
  BY <1>1 DEF Elements
<1> QED
  BY <1>1, <1>4, <1>5, <1>6

-----------------------------------------------------------------------------
(* The store.                                                                *)
OfAccepted(st, acc) ==
  /\ \A k \in st.seen : \E a \in acc : space.key[a] = k /\ Rule(MyPolicy, space, a) = "equal"
  /\ \A k \in DOMAIN st.makespans : \E a \in acc :
       /\ space.key[a] = k
       /\ Rule(MyPolicy, space, a) = "dominance"
       /\ space.makespan[a] = st.makespans[k]

Keys == {space.key[a] : a \in space.nodes}
StoreType(st) ==
  DOMAIN st = {"seen", "makespans"} /\ st.seen \subseteq Keys /\ DOMAIN st.makespans \subseteq Keys

(* What the store records of a state is of a state it let through. *)
LEMMA RecordedIsOfAccepted ==
  ASSUME NEW a \in space.nodes, NEW acc, StoreType(store), OfAccepted(store, acc)
  PROVE  StoreType(Recorded(a)) /\ OfAccepted(Recorded(a), acc \cup {a})
<1>1. CASE Rule(MyPolicy, space, a) = "equal"
  <2>1. Recorded(a) = [store EXCEPT !.seen = @ \cup {space.key[a]}]
    BY <1>1 DEF Recorded
  <2>2. /\ DOMAIN Recorded(a) = {"seen", "makespans"}
        /\ Recorded(a).seen = store.seen \cup {space.key[a]}
        /\ Recorded(a).makespans = store.makespans
    BY <2>1 DEF StoreType
  <2> QED
    BY <1>1, <2>2 DEF StoreType, OfAccepted, Keys
<1>2. CASE /\ Rule(MyPolicy, space, a) = "dominance"
           /\ ~config.bloom
           /\ space.key[a] \in DOMAIN store.makespans => space.makespan[a] < store.makespans[space.key[a]]
  <2> DEFINE new == [k \in DOMAIN store.makespans \cup {space.key[a]} |->
                       IF k = space.key[a] THEN space.makespan[a] ELSE store.makespans[k]]
  <2>1. Recorded(a) = [store EXCEPT !.makespans = new]
    BY <1>2 DEF Recorded
  <2>2. /\ DOMAIN Recorded(a) = {"seen", "makespans"}
        /\ Recorded(a).seen = store.seen
        /\ Recorded(a).makespans = new
    <3> HIDE DEF new
    <3> QED
      BY <2>1 DEF StoreType
  <2>3. StoreType(Recorded(a))
    BY <2>2 DEF StoreType, Keys
  <2>4. ASSUME NEW k \in DOMAIN new
        PROVE  \E b \in acc \cup {a} :
                 space.key[b] = k /\ Rule(MyPolicy, space, b) = "dominance" /\ space.makespan[b] = new[k]
    <3>1. CASE k = space.key[a]
      BY <3>1, <1>2
    <3>2. CASE k # space.key[a]
      BY <3>2 DEF OfAccepted
    <3> QED
      BY <3>1, <3>2
  <2> HIDE DEF new
  <2> QED
    BY <2>2, <2>3, <2>4 DEF OfAccepted
<1>3. CASE /\ Rule(MyPolicy, space, a) # "equal"
           /\ ~(/\ Rule(MyPolicy, space, a) = "dominance"
                /\ ~config.bloom
                /\ space.key[a] \in DOMAIN store.makespans => space.makespan[a] < store.makespans[space.key[a]])
  <2>1. Recorded(a) = store
    BY <1>3 DEF Recorded
  <2> QED
    BY <2>1 DEF OfAccepted
<1> QED
  BY <1>1, <1>2, <1>3

(* A state the store holds back is one that a state it let through makes     *)
(* redundant.                                                                *)
LEMMA InStoreStandsFor ==
  ASSUME NEW a \in space.nodes, StoreIsOfAccepted, InStore(a)
  PROVE  StandsFor(a)
<1>1. CASE Rule(MyPolicy, space, a) = "equal"
  BY <1>1 DEF InStore, StoreIsOfAccepted, StandsFor, MakesRedundant
<1>2. CASE Rule(MyPolicy, space, a) = "dominance"
  <2>1. /\ space.key[a] \in DOMAIN store.makespans
        /\ Dominates(space, store.makespans[space.key[a]], space.makespan[a])
    BY <1>2 DEF InStore
  <2> QED
    BY <1>2, <2>1 DEF StoreIsOfAccepted, StandsFor, MakesRedundant
<1>3. CASE Rule(MyPolicy, space, a) \notin {"equal", "dominance"}
  BY <1>3 DEF InStore
<1> QED
  BY <1>1, <1>2, <1>3

-----------------------------------------------------------------------------
(* The inductive invariant: besides what every node is accounted for by, a   *)
(* space is one of Spaces and a search that has not started has nothing.     *)
Called == status # "idle" => space \in Spaces
Fresh ==
  status \in {"idle", "new"} =>
    /\ plan = NoNode /\ expanded = 0
    /\ open = <<>> /\ pending = <<>> /\ candidates = <<>>
    /\ store = [seen |-> {}, makespans |-> <<>>]
    /\ accepted = {} /\ closed = {} /\ lost = {}
IInv == TypeOK /\ Called /\ Fresh /\ Accounted /\ GoalsAreReturned

(* What waits is in the open list or among the candidates.                   *)
LEMMA WaitingNodes == Waiting = NodesOf(open) \cup Elements(candidates)
BY DEF Waiting, NodesOf, Elements

(* With both empty, nothing waits.                                           *)
LEMMA NothingWaits == open = <<>> /\ candidates = <<>> => Waiting = {}
<1> SUFFICES ASSUME open = <<>>, candidates = <<>> PROVE Waiting = {}
  OBVIOUS
<1>1. DOMAIN open = {} /\ DOMAIN candidates = {}
  OBVIOUS
<1> QED
  BY <1>1 DEF Waiting

(* What the type of the state gives while a search runs. *)
LEMMA Typed ==
  ASSUME IInv, status # "idle"
  PROVE  /\ WellFormed(space) /\ DistanceIsRight(space) /\ HeuristicIsSafe(space)
         /\ space.todo \in [space.nodes -> Nat]
         /\ open \in Seq(Item) /\ pending \in Seq(space.nodes) /\ candidates \in Seq(space.nodes)
         /\ StoreType(store)
BY SpacesAssumption DEF IInv, TypeOK, Called, WellFormed, StoreType, Keys

(* The inductive invariant holds initially.                                  *)
LEMMA InitIInv == Init => IInv
BY DEF Init, IInv, TypeOK, Called, Fresh, Accounted, GoalsAreReturned

(* Calling a search keeps it.                                                *)
LEMMA CallIInv == IInv /\ Call => IInv'
<1> SUFFICES ASSUME IInv, Call PROVE IInv'
  OBVIOUS
<1>1. /\ status = "idle" /\ status' = "new" /\ space' \in Spaces /\ config' \in Configs
      /\ plan' = NoNode /\ expanded' = 0
      /\ open' = <<>> /\ pending' = <<>> /\ candidates' = <<>>
      /\ store' = [seen |-> {}, makespans |-> <<>>]
      /\ accepted' = {} /\ closed' = {} /\ lost' = {}
  BY DEF Call, IInv, Fresh, history
<1>2. TypeOK'
  <2>1. /\ open' \in Seq(Item') /\ pending' \in Seq(space'.nodes) /\ candidates' \in Seq(space'.nodes)
    BY <1>1
  <2>2. /\ DOMAIN store' = {"seen", "makespans"} /\ store'.seen = {} /\ DOMAIN store'.makespans = {}
    BY <1>1
  <2> QED
    BY <1>1, <2>1, <2>2 DEF TypeOK
<1>3. GoalsAreReturned'
  BY <1>1 DEF GoalsAreReturned
<1> QED
  BY <1>1, <1>2, <1>3 DEF IInv, Called, Fresh, Accounted

(* What the invariant says of everything but the status stays as it is.      *)
LEMMA NothingMoves ==
  ASSUME UNCHANGED <<space, config, open, pending, candidates, store, accepted, closed, lost>>
  PROVE  /\ Waiting' = Waiting
         /\ StoreIsOfAccepted => StoreIsOfAccepted'
         /\ AcceptedWait => AcceptedWait'
         /\ SuccessorsStand => SuccessorsStand'
         /\ NoGoalYet => NoGoalYet'
<1>1. Waiting' = Waiting
  BY DEF Waiting
<1>2. StoreIsOfAccepted => StoreIsOfAccepted'
  BY DEF StoreIsOfAccepted, MyPolicy
<1>3. AcceptedWait => AcceptedWait'
  BY <1>1 DEF AcceptedWait
<1>4. ASSUME NEW b PROVE StandsFor(b) => StandsFor(b)'
  BY DEF StandsFor, MyPolicy
<1>5. SuccessorsStand => SuccessorsStand'
  BY <1>4 DEF SuccessorsStand
<1>6. NoGoalYet => NoGoalYet'
  BY DEF NoGoalYet
<1> QED
  BY <1>1, <1>2, <1>3, <1>5, <1>6

(* The ways a call ends at the head of the loop. *)
LEMMA EndIInv ==
  ASSUME IInv, status = "running", status' \in {"timeout", "limit", "no plan"},
         status' = "no plan" => Waiting = {} /\ pending = <<>>,
         UNCHANGED <<space, config, plan, open, pending, candidates, store, expanded, history>>
  PROVE  IInv'
<1>1. TypeOK'
  BY DEF IInv, TypeOK, Item, history
<1>2. Accounted'
  <2>1. /\ pending' = pending /\ closed' = closed /\ accepted' = accepted /\ space' = space
        /\ UNCHANGED <<space, config, open, pending, candidates, store, accepted, closed, lost>>
    BY DEF history
  <2> QED
    BY <2>1, NothingMoves DEF IInv, Accounted
<1>3. GoalsAreReturned'
  BY DEF IInv, GoalsAreReturned, history
<1> QED
  BY <1>1, <1>2, <1>3 DEF IInv, Called, Fresh

(* Setting up keeps it: the root is let through, and waits, is the plan or   *)
(* is a dead end.                                                            *)
LEMMA StartIInv == IInv /\ Start => IInv'
<1> SUFFICES ASSUME IInv, Start PROVE IInv'
  OBVIOUS
<1>0. status = "new"
  BY DEF Start
<1>1. /\ space' = space /\ config' = config /\ expanded' = 0
      /\ plan = NoNode /\ open = <<>>
      /\ pending' = <<>> /\ candidates' = <<>> /\ closed' = {} /\ lost' = {}
      /\ accepted = {} /\ store = [seen |-> {}, makespans |-> <<>>]
  BY <1>0 DEF Start, IInv, Fresh
<1>2. /\ WellFormed(space) /\ HeuristicIsSafe(space) /\ config \in Configs /\ StoreType(store)
  BY <1>0, Typed DEF IInv, TypeOK
<1>3. OfAccepted(store, {})
  BY <1>1 DEF OfAccepted
<1>4. (Called' /\ Fresh') \/ status' = "new"
  BY <1>0, <1>1 DEF Start, IInv, Called, Fresh, Found
<1>5. CASE space.root = NoNode
  <2>0. status' = "no plan"
    BY <1>5 DEF Start
  <2>1. /\ plan' = plan /\ open' = <<>> /\ store' = store /\ accepted' = {}
    BY <1>1, <1>5 DEF Start
  <2>2. TypeOK'
    <3>1. /\ open' \in Seq(Item') /\ pending' \in Seq(space'.nodes) /\ candidates' \in Seq(space'.nodes)
      BY <1>1, <2>1
    <3>2. /\ config' \in Configs /\ plan' = NoNode /\ expanded' \in Nat
          /\ accepted' = {} /\ closed' = {} /\ lost' = {} /\ status' = "no plan"
      BY <1>1, <1>2, <2>0, <2>1
    <3>3. /\ DOMAIN store' = {"seen", "makespans"} /\ store'.seen = {} /\ DOMAIN store'.makespans = {}
      BY <1>1, <2>1
    <3> QED
      BY <3>1, <3>2, <3>3 DEF TypeOK
  <2>3. Waiting' = {}
    <3>1. (open = <<>> /\ candidates = <<>> => Waiting = {})'
      BY NothingWaits, PTL
    <3> QED
      BY <1>1, <2>1, <3>1
  <2>4. StoreIsOfAccepted'
    <3>1. store'.seen = {} /\ DOMAIN store'.makespans = {}
      BY <1>1, <2>1
    <3> QED
      BY <3>1 DEF StoreIsOfAccepted
  <2>5. Accounted'
    BY <1>1, <1>5, <2>0, <2>1, <2>3, <2>4 DEF Accounted, AcceptedWait, SuccessorsStand, NoGoalYet
  <2>6. GoalsAreReturned'
    BY <1>1, <2>1 DEF GoalsAreReturned
  <2> QED
    BY <1>4, <2>0, <2>2, <2>5, <2>6 DEF IInv
<1>6. CASE space.root # NoNode
  <2> DEFINE root == space.root
  <2>1. /\ root \in space.nodes /\ store' = Recorded(root) /\ accepted' = {root}
    BY <1>2, <1>6 DEF Start, WellFormed
  <2>2. StoreType(store') /\ OfAccepted(store', {root})
    BY <1>2, <1>3, <2>1, RecordedIsOfAccepted
  <2>3. StoreIsOfAccepted'
    BY <2>2, <2>1, <1>1 DEF StoreIsOfAccepted, OfAccepted, MyPolicy
  <2>4. CASE config.early /\ root \in space.goal
    <3>1. status' = "plan" /\ plan' = root /\ open' = <<>>
      BY <1>1, <1>6, <2>4 DEF Start, Found
    <3>2. TypeOK'
      BY <1>1, <1>2, <2>1, <2>2, <3>1 DEF TypeOK, StoreType, Keys
    <3>3. Waiting' = {}
      BY <1>1, <3>1 DEF Waiting
    <3>4. Accounted'
      BY <1>1, <2>1, <2>3, <3>1, <3>3 DEF Accounted
    <3>5. GoalsAreReturned'
      BY <1>1, <2>1, <3>1 DEF GoalsAreReturned
    <3> QED
      BY <1>1, <1>4, <3>1, <3>2, <3>4, <3>5 DEF IInv
  <2>5. CASE ~(config.early /\ root \in space.goal)
    <3>1. plan' = NoNode
      BY <1>1, <1>6, <2>5 DEF Start
    <3>2. PICK p \in space.priority[root] :
            IF p = Dead THEN status' = "no plan" /\ open' = open
            ELSE status' = "running" /\ open' = <<[node |-> root, priority |-> p]>>
      BY <1>6, <2>5 DEF Start
    <3>3. NoGoalYet'
      BY <1>1, <2>1, <2>5 DEF NoGoalYet
    <3>4. GoalsAreReturned'
      BY <1>1, <2>1, <2>5 DEF GoalsAreReturned
    <3>5. SuccessorsStand'
      BY <1>1 DEF SuccessorsStand
    <3>6. CASE p = Dead
      <4>0. status' = "no plan"
        BY <3>2, <3>6
      <4>1. open' = <<>>
        BY <1>1, <3>2, <3>6
      <4>2. TypeOK'
        <5>1. /\ open' \in Seq(Item') /\ pending' \in Seq(space'.nodes) /\ candidates' \in Seq(space'.nodes)
          BY <1>1, <4>1
        <5> QED
          BY <1>1, <1>2, <2>1, <2>2, <3>1, <4>0, <5>1 DEF TypeOK, StoreType, Keys
      <4>3. Waiting' = {}
        <5>1. (open = <<>> /\ candidates = <<>> => Waiting = {})'
          BY NothingWaits, PTL
        <5> QED
          BY <1>1, <4>1, <5>1
      <4>4. root \notin Solvable(space)
        BY <1>2, <3>2, <3>6 DEF HeuristicIsSafe
      <4>5. AcceptedWait'
        BY <1>1, <2>1, <4>4 DEF AcceptedWait
      <4>6. Accounted'
        BY <1>1, <2>1, <2>3, <3>3, <3>5, <4>0, <4>3, <4>5 DEF Accounted
      <4> QED
        BY <1>4, <4>0, <4>2, <4>6, <3>4 DEF IInv
    <3>7. CASE p # Dead
      <4> DEFINE x == [node |-> root, priority |-> p]
      <4>1. status' = "running" /\ open' = <<x>>
        BY <3>2, <3>7
      <4>2. p \in Nat /\ x \in Item
        BY <1>2, <2>1, <3>2, <3>7 DEF WellFormed, Item
      <4>3. open' \in Seq(Item)
        BY <4>1, <4>2
      <4>4. TypeOK'
        BY <1>1, <1>2, <2>1, <2>2, <3>1, <4>1, <4>3 DEF TypeOK, StoreType, Keys, Item
      <4>5. Waiting' = {root}
        BY <1>1, <4>1 DEF Waiting
      <4>6. AcceptedWait'
        BY <1>1, <2>1, <4>5 DEF AcceptedWait
      <4>7. Accounted'
        BY <1>1, <2>1, <2>3, <3>3, <3>5, <4>1, <4>5, <4>6 DEF Accounted
      <4> QED
        BY <1>1, <1>4, <4>1, <4>4, <4>7, <3>4 DEF IInv
    <3> QED
      BY <3>6, <3>7
  <2> QED
    BY <2>4, <2>5
<1> QED
  BY <1>5, <1>6

(* Facts about a running search, with what the status says left out.         *)
LEMMA Running ==
  ASSUME IInv, status = "running"
  PROVE  /\ space \in Spaces /\ config \in Configs /\ plan \in space.nodes \cup {NoNode}
         /\ expanded \in Nat
         /\ accepted \subseteq space.nodes /\ closed \subseteq space.nodes /\ lost \subseteq space.nodes
         /\ StoreIsOfAccepted /\ closed \subseteq accepted
         /\ NodesOf(open) \subseteq accepted /\ Elements(candidates) \subseteq accepted
         /\ space.root # NoNode => space.root \in accepted
         /\ AcceptedWait /\ SuccessorsStand /\ NoGoalYet
<1>1. Accounted /\ TypeOK /\ Called /\ status \notin {"idle", "new", "plan"}
  BY DEF IInv
<1>2. closed \cup Waiting \subseteq accepted
  BY <1>1 DEF Accounted
<1>3. NodesOf(open) \subseteq accepted /\ Elements(candidates) \subseteq accepted /\ closed \subseteq accepted
  BY <1>2, WaitingNodes
<1> QED
  BY <1>1, <1>3 DEF Accounted, TypeOK, Called

(* Putting the invariant together again, after a step that leaves the search *)
(* running or ends it with a plan.                                           *)
LEMMA StillAccounted ==
  ASSUME space \in Spaces, config \in Configs, space' = space, config' = config,
         status' \in {"running", "plan"},
         plan' \in space.nodes \cup {NoNode}, expanded' \in Nat,
         open' \in Seq(Item), pending' \in Seq(space.nodes), candidates' \in Seq(space.nodes),
         StoreType(store'), StoreIsOfAccepted',
         accepted' \subseteq space.nodes, closed' \subseteq accepted', lost' \subseteq space.nodes,
         NodesOf(open') \subseteq accepted', Elements(candidates') \subseteq accepted',
         space.root # NoNode => space.root \in accepted',
         status' # "plan" => AcceptedWait' /\ SuccessorsStand' /\ NoGoalYet',
         GoalsAreReturned'
  PROVE  IInv'
<1>1. Waiting' = NodesOf(open') \cup Elements(candidates')
  BY DEF Waiting, NodesOf, Elements
<1>2. TypeOK'
  <2>1. Item' = Item
    BY DEF Item
  <2>2. closed' \subseteq space.nodes
    OBVIOUS
  <2>3. /\ DOMAIN store' = {"seen", "makespans"}
        /\ store'.seen \subseteq {space.key[a] : a \in space.nodes}
        /\ DOMAIN store'.makespans \subseteq {space.key[a] : a \in space.nodes}
    BY DEF StoreType, Keys
  <2> QED
    BY <2>1, <2>2, <2>3 DEF TypeOK
<1>3. (closed \cup Waiting \subseteq accepted)'
  BY <1>1
<1>4. Accounted'
  BY <1>3 DEF Accounted
<1> QED
  BY <1>2, <1>4 DEF IInv, Called, Fresh

(* Expanding keeps it: the node in hand stops waiting while its successors   *)
(* are all still to come.                                                    *)
LEMMA ExpandIInv == IInv /\ Expand => IInv'
<1> SUFFICES ASSUME IInv, Expand PROVE IInv'
  OBVIOUS
<1>1. status = "running"
  BY DEF Expand, AtHead
<1> DEFINE i == Least(open)
           a == open[i].node
<1>2. /\ pending = <<>> /\ candidates = <<>> /\ open # <<>>
      /\ open' = RemoveAt(open, i) /\ closed' = closed \cup {a} /\ expanded' = expanded + 1
      /\ space' = space /\ config' = config /\ candidates' = candidates /\ store' = store
      /\ accepted' = accepted /\ lost' = lost
  BY DEF Expand, AtHead
<1>3. /\ WellFormed(space) /\ space.todo \in [space.nodes -> Nat]
      /\ open \in Seq(Item) /\ candidates \in Seq(space.nodes) /\ StoreType(store)
  BY <1>1, Typed
<1>4. /\ space \in Spaces /\ config \in Configs /\ plan \in space.nodes \cup {NoNode}
      /\ expanded \in Nat
      /\ accepted \subseteq space.nodes /\ closed \subseteq space.nodes /\ lost \subseteq space.nodes
      /\ StoreIsOfAccepted /\ closed \subseteq accepted
      /\ NodesOf(open) \subseteq accepted /\ Elements(candidates) \subseteq accepted
      /\ space.root # NoNode => space.root \in accepted
      /\ AcceptedWait /\ SuccessorsStand /\ NoGoalYet
  BY <1>1, Running
<1>5. i \in DOMAIN open
  BY <1>2, <1>3, LeastExists
<1>6. a \in NodesOf(open) /\ a \in accepted
  BY <1>4, <1>5 DEF NodesOf
<1>7. /\ open' \in Seq(Item)
      /\ NodesOf(open') \subseteq NodesOf(open)
      /\ NodesOf(open) \subseteq NodesOf(open') \cup {a}
  BY <1>2, <1>3, <1>5, RemoveNodes
<1> HIDE DEF i, a
<1>8. StoreIsOfAccepted'
  BY <1>2, <1>4 DEF StoreIsOfAccepted, MyPolicy
<1>9. AcceptedWait'
  <2>1. /\ Waiting = NodesOf(open) \cup Elements(candidates)
        /\ Waiting' = NodesOf(open') \cup Elements(candidates)
    BY <1>2 DEF Waiting, NodesOf, Elements
  <2> QED
    BY <2>1, <1>2, <1>4, <1>7 DEF AcceptedWait
<1>10. ASSUME NEW b, StandsFor(b) PROVE StandsFor(b)'
  BY <1>2, <1>10 DEF StandsFor, MyPolicy
<1>11. /\ a \in space.nodes /\ closed' \subseteq accepted' /\ expanded' \in Nat
       /\ NodesOf(open') \subseteq accepted'
  BY <1>2, <1>4, <1>6, <1>7
<1>12. CASE ~config.early /\ a \in space.goal
  <2>1. status' = "plan" /\ plan' = a /\ pending' = pending
    BY <1>12 DEF Expand, Found, i, a
  <2>2. GoalsAreReturned'
    BY <2>1, <1>2, <1>4, <1>12 DEF GoalsAreReturned, NoGoalYet
  <2>3. pending' \in Seq(space.nodes)
    BY <2>1, <1>2
  <2> QED
    BY <1>2, <1>3, <1>4, <1>7, <1>8, <1>11, <2>1, <2>2, <2>3, StillAccounted
<1>13. CASE ~(~config.early /\ a \in space.goal)
  <2>1. status' = "running" /\ plan' = plan /\ pending' = space.succ[a]
    BY <1>1, <1>13 DEF Expand, i, a
  <2>2. pending' \in Seq(space.nodes)
    BY <2>1, <1>3, <1>11 DEF WellFormed
  <2>3. NoGoalYet'
    BY <1>2, <1>4, <1>6, <1>13 DEF NoGoalYet
  <2>4. GoalsAreReturned'
    BY <2>3 DEF GoalsAreReturned, NoGoalYet
  <2>5. SuccessorsStand'
    <3> SUFFICES ASSUME NEW c \in closed', NEW k \in DOMAIN space.succ[c]
                 PROVE  \/ space.succ[c][k] \in lost'
                        \/ StandsFor(space.succ[c][k])'
                        \/ \E j \in DOMAIN pending' : pending'[j] = space.succ[c][k]
      BY <1>2 DEF SuccessorsStand
    <3>1. CASE c = a
      BY <3>1, <2>1
    <3>2. CASE c \in closed
      <4>1. \/ space.succ[c][k] \in lost \/ StandsFor(space.succ[c][k])
            \/ \E j \in DOMAIN pending : pending[j] = space.succ[c][k]
        BY <3>2, <1>4 DEF SuccessorsStand
      <4>2. DOMAIN pending = {}
        BY <1>2
      <4> QED
        BY <4>1, <4>2, <1>2, <1>10
    <3> QED
      BY <3>1, <3>2, <1>2
  <2> QED
    BY <1>2, <1>3, <1>4, <1>7, <1>8, <1>9, <1>11, <2>1, <2>2, <2>3, <2>4, <2>5, StillAccounted
<1> QED
  BY <1>12, <1>13

(* Generating keeps it: a successor becomes a candidate, is the plan, or is  *)
(* pruned for a node that was let through.                                   *)
LEMMA GenerateIInv == IInv /\ Generate => IInv'
<1> SUFFICES ASSUME IInv, Generate PROVE IInv'
  OBVIOUS
<1>0. PICK a : a = Head(pending)
  OBVIOUS
<1>1. status = "running"
  BY DEF Generate
<1>2. /\ pending # <<>> /\ pending' = Tail(pending)
      /\ space' = space /\ config' = config /\ open' = open /\ expanded' = expanded /\ closed' = closed
  BY DEF Generate
<1>3. /\ open \in Seq(Item) /\ pending \in Seq(space.nodes) /\ candidates \in Seq(space.nodes)
      /\ StoreType(store)
  BY <1>1, Typed
<1>4. /\ space \in Spaces /\ config \in Configs /\ plan \in space.nodes \cup {NoNode}
      /\ expanded \in Nat
      /\ accepted \subseteq space.nodes /\ closed \subseteq space.nodes /\ lost \subseteq space.nodes
      /\ StoreIsOfAccepted /\ closed \subseteq accepted
      /\ NodesOf(open) \subseteq accepted /\ Elements(candidates) \subseteq accepted
      /\ space.root # NoNode => space.root \in accepted
      /\ AcceptedWait /\ SuccessorsStand /\ NoGoalYet
  BY <1>1, Running
<1>5. /\ a \in space.nodes /\ pending' \in Seq(space.nodes)
      /\ Elements(pending) \subseteq Elements(pending') \cup {a}
  BY <1>0, <1>2, <1>3, TailElements
<1>6. \/ /\ config.early /\ a \in space.goal /\ status' = "plan" /\ plan' = a
         /\ UNCHANGED <<candidates, store, accepted, lost>>
      \/ /\ ~(config.early /\ a \in space.goal) /\ status' = status /\ plan' = plan
         /\ \/ /\ store' = Recorded(a) /\ candidates' = Append(candidates, a)
               /\ accepted' = accepted \cup {a} /\ lost' = lost
            \/ InStore(a) /\ UNCHANGED <<candidates, store, accepted, lost>>
            \/ lost' = lost \cup {a} /\ UNCHANGED <<candidates, store, accepted>>
  BY <1>0 DEF Generate, Found
<1>7. CASE status' = "plan"
  <2>1. /\ config.early /\ a \in space.goal /\ plan' = a /\ candidates' = candidates /\ store' = store
        /\ accepted' = accepted /\ lost' = lost
    BY <1>1, <1>6, <1>7
  <2>2. StoreIsOfAccepted'
    BY <2>1, <1>2, <1>4 DEF StoreIsOfAccepted, MyPolicy
  <2>3. GoalsAreReturned'
    BY <2>1, <1>2, <1>4, <1>7 DEF GoalsAreReturned, NoGoalYet
  <2> QED
    BY <1>2, <1>3, <1>4, <1>5, <1>7, <2>1, <2>2, <2>3, StillAccounted
<1>8. CASE status' # "plan"
  <2>1. /\ ~(config.early /\ a \in space.goal) /\ status' = "running" /\ plan' = plan
    BY <1>1, <1>6, <1>8
  (* Each of the three ways a generated node is dealt with. *)
  <2>2. /\ candidates' \in Seq(space.nodes) /\ StoreType(store') /\ StoreIsOfAccepted'
        /\ accepted \subseteq accepted' /\ accepted' \subseteq accepted \cup {a}
        /\ lost \subseteq lost' /\ lost' \subseteq lost \cup {a}
        /\ Elements(candidates) \subseteq Elements(candidates')
        /\ Elements(candidates') \subseteq accepted'
        /\ accepted' \subseteq accepted \cup Elements(candidates')
        /\ a \in lost' \/ StandsFor(a)'
    <3>1. CASE /\ store' = Recorded(a) /\ candidates' = Append(candidates, a)
               /\ accepted' = accepted \cup {a} /\ lost' = lost
      <4>1. OfAccepted(store, accepted)
        BY <1>4 DEF StoreIsOfAccepted, OfAccepted
      <4>2. StoreType(store') /\ OfAccepted(store', accepted')
        BY <3>1, <4>1, <1>3, <1>5, RecordedIsOfAccepted
      <4>3. StoreIsOfAccepted'
        BY <4>2, <1>2 DEF StoreIsOfAccepted, OfAccepted, MyPolicy
      <4>4. candidates' \in Seq(space.nodes) /\ Elements(candidates') = Elements(candidates) \cup {a}
        BY <3>1, <1>3, <1>5, AppendElements
      <4>5. StandsFor(a)'
        BY <3>1 DEF StandsFor
      <4> QED
        BY <3>1, <4>2, <4>3, <4>4, <4>5, <1>4
    <3>2. CASE InStore(a) /\ UNCHANGED <<candidates, store, accepted, lost>>
      <4>1. StandsFor(a)
        BY <3>2, <1>4, <1>5, InStoreStandsFor
      <4>2. StandsFor(a)'
        BY <4>1, <3>2, <1>2 DEF StandsFor, MyPolicy
      <4>3. StoreIsOfAccepted'
        BY <3>2, <1>2, <1>4 DEF StoreIsOfAccepted, MyPolicy
      <4> QED
        BY <3>2, <4>2, <4>3, <1>3, <1>4
    <3>3. CASE lost' = lost \cup {a} /\ UNCHANGED <<candidates, store, accepted>>
      <4>1. StoreIsOfAccepted'
        BY <3>3, <1>2, <1>4 DEF StoreIsOfAccepted, MyPolicy
      <4> QED
        BY <3>3, <4>1, <1>3, <1>4
    <3> QED
      BY <1>6, <1>8, <3>1, <3>2, <3>3
  <2>3. AcceptedWait'
    <3>1. /\ Waiting = NodesOf(open) \cup Elements(candidates)
          /\ Waiting' = NodesOf(open) \cup Elements(candidates')
      BY <1>2 DEF Waiting, NodesOf, Elements
    <3> QED
      BY <3>1, <1>2, <1>4, <2>2 DEF AcceptedWait
  <2>4. NoGoalYet' /\ GoalsAreReturned'
    BY <1>2, <1>4, <2>1, <2>2 DEF NoGoalYet, GoalsAreReturned
  <2>5. SuccessorsStand'
    <3> SUFFICES ASSUME NEW c \in closed, NEW k \in DOMAIN space.succ[c]
                 PROVE  \/ space.succ[c][k] \in lost'
                        \/ StandsFor(space.succ[c][k])'
                        \/ \E j \in DOMAIN pending' : pending'[j] = space.succ[c][k]
      BY <1>2 DEF SuccessorsStand
    <3>0. PICK b : b = space.succ[c][k]
      OBVIOUS
    <3>1. b \in lost \/ StandsFor(b) \/ b \in Elements(pending)
      BY <3>0, <1>4 DEF SuccessorsStand, Elements
    <3>2. StandsFor(b) => StandsFor(b)'
      BY <1>2, <2>2 DEF StandsFor, MyPolicy
    <3>3. b \in Elements(pending') => \E j \in DOMAIN pending' : pending'[j] = b
      BY DEF Elements
    <3>4. b \in Elements(pending) => b = a \/ b \in Elements(pending')
      BY <1>5
    <3>5. CASE b = a
      BY <3>0, <3>5, <1>2, <2>2
    <3>6. CASE b # a
      BY <3>0, <3>1, <3>2, <3>3, <3>4, <3>6, <1>2, <2>2
    <3> QED
      BY <3>5, <3>6
  <2>6. /\ accepted' \subseteq space.nodes /\ closed' \subseteq accepted' /\ lost' \subseteq space.nodes
        /\ NodesOf(open') \subseteq accepted' /\ space.root # NoNode => space.root \in accepted'
    BY <1>2, <1>4, <1>5, <2>2
  <2> QED
    BY <1>2, <1>3, <1>4, <1>5, <2>1, <2>2, <2>3, <2>4, <2>5, <2>6, StillAccounted
<1> QED
  BY <1>7, <1>8

(* A full open list drops one node, and no other. *)
LEMMA PushNodes ==
  ASSUME space.todo \in [space.nodes -> Nat], config \in Configs,
         open \in Seq(Item), lost \subseteq space.nodes, NEW x \in Item, Push(x)
  PROVE  /\ open' \in Seq(Item)
         /\ NodesOf(open') \subseteq NodesOf(open) \cup {x.node}
         /\ NodesOf(open) \cup {x.node} \subseteq NodesOf(open') \cup lost'
         /\ lost \subseteq lost' /\ lost' \subseteq space.nodes
<1>1. CASE config.bound = NoBound \/ Len(open) < config.bound
  <2>1. open' = Append(open, x) /\ lost' = lost
    BY <1>1 DEF Push
  <2> QED
    BY <2>1, AppendNodes
<1>2. CASE ~(config.bound = NoBound \/ Len(open) < config.bound)
  <2> DEFINE i == Greatest(open)
  <2>1. \/ open' = Append(RemoveAt(open, i), x) /\ lost' = lost \cup {open[i].node}
        \/ open' = open /\ lost' = lost \cup {x.node}
    BY <1>2 DEF Push
  <2>2. open # <<>>
    <3>1. config.bound \in Nat \ {0}
      BY <1>2, ConfigsAssumption
    <3>2. Len(open) # 0
      BY <3>1, <1>2
    <3> QED
      BY <3>2
  <2>3. i \in DOMAIN open
    BY <2>2, GreatestExists
  <2> DEFINE t == RemoveAt(open, i)
  <2>4. /\ t \in Seq(Item) /\ NodesOf(t) \subseteq NodesOf(open)
        /\ NodesOf(open) \subseteq NodesOf(t) \cup {open[i].node}
    BY <2>3, RemoveNodes
  <2>5. x.node \in space.nodes /\ open[i].node \in space.nodes
    <3>1. open[i] \in Item
      BY <2>3
    <3> QED
      BY <3>1 DEF Item
  <2> HIDE DEF t, i
  <2>6. CASE open' = Append(t, x) /\ lost' = lost \cup {open[i].node}
    <3>1. open' \in Seq(Item) /\ NodesOf(open') = NodesOf(t) \cup {x.node}
      BY <2>6, <2>4, AppendNodes
    <3> QED
      BY <3>1, <2>4, <2>5, <2>6
  <2>7. CASE open' = open /\ lost' = lost \cup {x.node}
    BY <2>5, <2>7
  <2> QED
    BY <2>1, <2>6, <2>7 DEF t
<1> QED
  BY <1>1, <1>2

(* Evaluating keeps it: a candidate moves to the open list, is a dead end,   *)
(* or is counted as lost.                                                    *)
LEMMA EvaluateIInv == IInv /\ Evaluate => IInv'
<1> SUFFICES ASSUME IInv, Evaluate PROVE IInv'
  OBVIOUS
<1> DEFINE a == Head(candidates)
<1>1. status = "running" /\ status' = "running"
  BY DEF Evaluate
<1>2. /\ candidates # <<>> /\ candidates' = Tail(candidates)
      /\ space' = space /\ config' = config /\ plan' = plan /\ pending' = pending /\ store' = store
      /\ expanded' = expanded /\ accepted' = accepted /\ closed' = closed
  BY DEF Evaluate
<1>3. /\ WellFormed(space) /\ HeuristicIsSafe(space) /\ space.todo \in [space.nodes -> Nat]
      /\ open \in Seq(Item) /\ pending \in Seq(space.nodes) /\ candidates \in Seq(space.nodes)
      /\ StoreType(store)
  BY <1>1, Typed
<1>4. /\ space \in Spaces /\ config \in Configs /\ plan \in space.nodes \cup {NoNode}
      /\ expanded \in Nat
      /\ accepted \subseteq space.nodes /\ closed \subseteq space.nodes /\ lost \subseteq space.nodes
      /\ StoreIsOfAccepted /\ closed \subseteq accepted
      /\ NodesOf(open) \subseteq accepted /\ Elements(candidates) \subseteq accepted
      /\ space.root # NoNode => space.root \in accepted
      /\ AcceptedWait /\ SuccessorsStand /\ NoGoalYet
  BY <1>1, Running
<1>5. /\ a \in space.nodes /\ a \in Elements(candidates) /\ candidates' \in Seq(space.nodes)
      /\ Elements(candidates') \subseteq Elements(candidates)
      /\ Elements(candidates) \subseteq Elements(candidates') \cup {a}
  BY <1>2, <1>3, TailElements
<1>6. PICK p \in space.priority[a] :
        IF p = Dead THEN UNCHANGED <<open, lost>> ELSE Push([node |-> a, priority |-> p])
  BY DEF Evaluate
<1> HIDE DEF a
<1>7. /\ open' \in Seq(Item) /\ NodesOf(open') \subseteq NodesOf(open) \cup {a}
      /\ NodesOf(open) \subseteq NodesOf(open') \cup lost'
      /\ a \in NodesOf(open') \cup lost' \/ a \notin Solvable(space)
      /\ lost \subseteq lost' /\ lost' \subseteq space.nodes
  <2>1. CASE p = Dead
    BY <2>1, <1>3, <1>4, <1>5, <1>6 DEF HeuristicIsSafe
  <2>2. CASE p # Dead
    <3> DEFINE x == [node |-> a, priority |-> p]
    <3>1. x \in Item /\ x.node = a
      BY <2>2, <1>3, <1>5, <1>6 DEF WellFormed, Item
    <3>2. Push(x)
      BY <2>2, <1>6
    <3> HIDE DEF x
    <3> QED
      BY <3>1, <3>2, <1>3, <1>4, PushNodes
  <2> QED
    BY <2>1, <2>2
<1>8. AcceptedWait'
  <2>1. /\ Waiting = NodesOf(open) \cup Elements(candidates)
        /\ Waiting' = NodesOf(open') \cup Elements(candidates')
    BY DEF Waiting, NodesOf, Elements
  <2> QED
    BY <2>1, <1>2, <1>4, <1>5, <1>7 DEF AcceptedWait
<1>9. StoreIsOfAccepted'
  BY <1>2, <1>4 DEF StoreIsOfAccepted, MyPolicy
<1>10. NoGoalYet' /\ GoalsAreReturned'
  BY <1>2, <1>4 DEF NoGoalYet, GoalsAreReturned
<1>11. SuccessorsStand'
  <2>1. ASSUME NEW b PROVE StandsFor(b) => StandsFor(b)'
    BY <1>2 DEF StandsFor, MyPolicy
  <2> QED
    BY <2>1, <1>2, <1>4, <1>7 DEF SuccessorsStand
<1>12. /\ NodesOf(open') \subseteq accepted' /\ Elements(candidates') \subseteq accepted'
  BY <1>2, <1>4, <1>5, <1>7
<1> QED
  BY <1>1, <1>2, <1>3, <1>4, <1>5, <1>7, <1>8, <1>9, <1>10, <1>11, <1>12, StillAccounted

(* Every step keeps the inductive invariant.                                 *)
LEMMA NextIInv == IInv /\ [Next]_vars => IInv'
<1> SUFFICES ASSUME IInv, [Next]_vars PROVE IInv'
  OBVIOUS
<1>1. CASE Call
  BY <1>1, CallIInv
<1>2. CASE Start
  BY <1>2, StartIInv
<1>3. CASE Timeout
  BY <1>3, EndIInv DEF Timeout, AtHead
<1>4. CASE LimitReached
  BY <1>4, EndIInv DEF LimitReached, AtHead
<1>5. CASE Exhausted
  <2>1. Waiting = {} /\ pending = <<>>
    BY <1>5, NothingWaits DEF Exhausted, AtHead
  <2> QED
    BY <1>5, <2>1, EndIInv DEF Exhausted, AtHead
<1>6. CASE Expand
  BY <1>6, ExpandIInv
<1>7. CASE Generate
  BY <1>7, GenerateIInv
<1>8. CASE Evaluate
  BY <1>8, EvaluateIInv
<1>9. CASE UNCHANGED vars
  <2>1. /\ UNCHANGED <<space, config, open, pending, candidates, store, accepted, closed, lost>>
        /\ UNCHANGED <<status, plan, expanded>>
    BY <1>9 DEF vars
  <2>2. TypeOK' /\ Called' /\ Fresh' /\ GoalsAreReturned'
    BY <2>1 DEF IInv, TypeOK, Item, Called, Fresh, GoalsAreReturned
  <2>3. Accounted'
    BY <2>1, NothingMoves DEF IInv, Accounted
  <2> QED
    BY <2>2, <2>3 DEF IInv
<1> QED
  BY <1>1, <1>2, <1>3, <1>4, <1>5, <1>6, <1>7, <1>8, <1>9 DEF Next, Step

-----------------------------------------------------------------------------
(* The least distant of the accepted nodes a plan exists from was expanded,  *)
(* is no goal, and so has a nearer successor; that one was accepted, or one  *)
(* no more distant was in its place.                                         *)
LEMMA NothingLeftMeansNone ==
  ASSUME \A sp \in Spaces : DedupIsSound(sp)
  PROVE  IInv => NoPlanMeansNone
<1> DEFINE Ended == status = "no plan"
<1> SUFFICES ASSUME IInv, Ended, Exact, lost = {}, space.root \in Solvable(space)
             PROVE  FALSE
  BY DEF NoPlanMeansNone
<1> HIDE DEF Ended
<1>1. /\ WellFormed(space) /\ DistanceIsRight(space) /\ space \in Spaces
  BY Typed DEF IInv, Called, Ended
<1>2. DedupIsSound(space)
  BY <1>1
<1>3. /\ closed \subseteq accepted /\ Waiting = {} /\ pending = <<>>
      /\ AcceptedWait /\ SuccessorsStand /\ NoGoalYet
      /\ space.root # NoNode => space.root \in accepted
  BY DEF IInv, Accounted, Ended
<1>4. /\ Solvable(space) \subseteq space.nodes /\ NoNode \notin space.nodes
      /\ space.distance \in [Solvable(space) -> Nat]
  BY <1>1 DEF DistanceIsRight, WellFormed
<1>5. space.root \in accepted
  BY <1>3, <1>4
<1> DEFINE Distances == {space.distance[a] : a \in accepted \cap Solvable(space)}
<1>6. PICK m \in Distances : \A k \in Distances : m <= k
  <2>1. Distances \in SUBSET Nat /\ Distances # {}
    BY <1>4, <1>5
  <2> HIDE DEF Distances
  <2> QED
    BY <2>1, LeastNumber
<1>7. PICK a \in accepted \cap Solvable(space) : space.distance[a] = m
  OBVIOUS
<1>8. \A c \in accepted \cap Solvable(space) : space.distance[a] <= space.distance[c]
  BY <1>6, <1>7
<1> HIDE DEF Distances
<1>9. a \in closed /\ a \notin space.goal
  BY <1>3, <1>7 DEF AcceptedWait, NoGoalYet
<1>10. PICK i \in DOMAIN space.succ[a] :
         space.succ[a][i] \in Solvable(space) /\ space.distance[space.succ[a][i]] < space.distance[a]
  BY <1>1, <1>7, <1>9 DEF DistanceIsRight
<1> DEFINE b == space.succ[a][i]
<1>11. StandsFor(b)
  <2>1. DOMAIN pending = {}
    BY <1>3
  <2> QED
    BY <2>1, <1>3, <1>9 DEF SuccessorsStand
<1> HIDE DEF b
<1>12. PICK c \in accepted : c = b \/ MakesRedundant(MyPolicy, space, c, b)
  BY <1>11 DEF StandsFor
<1>13. b \in Solvable(space) /\ space.distance[b] < space.distance[a]
  BY <1>10 DEF b
<1>14. c \in Solvable(space) /\ space.distance[c] <= space.distance[b]
  <2>1. CASE c = b
    BY <2>1, <1>4, <1>13
  <2>2. CASE MakesRedundant(MyPolicy, space, c, b)
    <3>1. MyPolicy = Policy(space, FALSE)
      BY DEF MyPolicy, Policy, Exact
    <3>2. c \in space.nodes
      BY <1>12 DEF IInv, TypeOK, Ended
    <3> QED
      BY <2>2, <3>1, <3>2, <1>2, <1>13 DEF DedupIsSound
  <2> QED
    BY <1>12, <2>1, <2>2
<1>15. space.distance[a] <= space.distance[c]
  BY <1>8, <1>12, <1>14
<1>16. space.distance[a] \in Nat /\ space.distance[b] \in Nat /\ space.distance[c] \in Nat
  BY <1>4, <1>7, <1>13, <1>14
<1> QED
  BY <1>13, <1>14, <1>15, <1>16

(* The inductive invariant holds throughout, for every space and             *)
(* configuration _priority_search is called with.                            *)
THEOREM Invariance == Spec => []IInv
<1> QED
  BY InitIInv, NextIInv, PTL DEF Spec

(* The open list, the store and what waits hold nodes of the space that is   *)
(* searched, whatever the space and however the search is called.            *)
THEOREM TypeCorrect == Spec => []TypeOK
<1> QED
  BY Invariance, PTL DEF IInv

(* Whatever the store of `_priority_search` let through waits in the open    *)
(* list, is a dead end, or was expanded, and every successor of an expanded  *)
(* node is represented.                                                      *)
THEOREM Accounting == Spec => []Accounted
<1> QED
  BY Invariance, PTL DEF IInv

(* `_priority_search` returns the first goal it meets, for every space,      *)
(* heuristic and bound.                                                      *)
THEOREM FirstGoalReturned == Spec => []GoalsAreReturned
<1> QED
  BY Invariance, PTL DEF IInv

(* When dedup loses no plan, neither does the search: it answers that there  *)
(* is none only where there is none, for every order of expansion and every  *)
(* heuristic whose dead ends are real.                                       *)
THEOREM NoPlanIsRight ==
  ASSUME \A sp \in Spaces : DedupIsSound(sp)
  PROVE  Spec => []NoPlanMeansNone
<1>1. IInv => NoPlanMeansNone
  BY NothingLeftMeansNone
<1> QED
  BY <1>1, Invariance, PTL
-----------------------------------------------------------------------------
(* The last item of a full open list comes before none of the others.        *)
LEMMA GreatestIsLast ==
  ASSUME space.todo \in [space.nodes -> Nat], NEW items \in Seq(Item), items # <<>>
  PROVE  \A j \in DOMAIN items : ~Less(items[Greatest(items)], items[j])
<1>1. /\ Greatest(items) \in DOMAIN items
      /\ \A j \in DOMAIN items :
           \/ Less(items[j], items[Greatest(items)])
           \/ ~Less(items[Greatest(items)], items[j])
  BY GreatestExists
<1>2. ASSUME NEW j \in DOMAIN items, Less(items[j], items[Greatest(items)])
      PROVE  ~Less(items[Greatest(items)], items[j])
  <2>1. items[j] \in Item /\ items[Greatest(items)] \in Item
    BY <1>1
  <2> QED
    BY <1>2, <2>1, LessOneWay
<1> QED
  BY <1>1, <1>2

(* What an open list that stays as long as it was has dropped is not smaller *)
(* than anything it kept or took in.                                         *)
LEMMA PushKeepsTheSmallest ==
  ASSUME space.todo \in [space.nodes -> Nat], config \in Configs, space' = space,
         open \in Seq(Item), NEW x \in Item, Push(x), Len(open') = Len(open),
         NEW i \in DOMAIN open, open[i] \notin {open'[j] : j \in DOMAIN open'},
         NEW j \in DOMAIN open'
  PROVE  ~Less(open[i], open'[j])
<1> HIDE DEF Item
<1>1. Len(open) \in Nat /\ Len(Append(open, x)) = Len(open) + 1
  OBVIOUS
<1>2. ~(config.bound = NoBound \/ Len(open) < config.bound)
  BY <1>1 DEF Push
<1> DEFINE g == Greatest(open)
           t == RemoveAt(open, g)
<1>3. open # <<>>
  <2>1. config.bound \in Nat \ {0}
    BY <1>2, ConfigsAssumption
  <2>2. Len(open) # 0
    BY <1>1, <1>2, <2>1
  <2> QED
    BY <2>2
<1>4. g \in DOMAIN open /\ \A k \in DOMAIN open : ~Less(open[g], open[k])
  BY <1>3, GreatestExists, GreatestIsLast
<1>5. Less(x, open[g]) /\ open' = Append(t, x)
  BY <1>2 DEF Push
<1>6. /\ t \in Seq(Item)
      /\ \A k \in DOMAIN t : \E l \in DOMAIN open : t[k] = open[l]
      /\ \A k \in DOMAIN open : k = g \/ \E l \in DOMAIN t : t[l] = open[k]
  BY <1>4, RemoveAtKeeps
<1> HIDE DEF g, t
<1>7. /\ DOMAIN open' = 1 .. Len(t) + 1 /\ DOMAIN t = 1 .. Len(t) /\ Len(t) \in Nat
      /\ \A k \in 1 .. Len(t) : open'[k] = t[k]
      /\ open'[Len(t) + 1] = x
  BY <1>5, <1>6
<1>8. i = g
  <2>1. SUFFICES ASSUME i # g PROVE FALSE
    OBVIOUS
  <2>2. PICK l \in DOMAIN t : t[l] = open[i]
    BY <2>1, <1>6
  <2>3. l \in DOMAIN open' /\ open'[l] = open[i]
    BY <2>2, <1>7
  <2> QED
    BY <2>3
<1>9. CASE j \in 1 .. Len(t)
  BY <1>4, <1>6, <1>7, <1>8, <1>9
<1>10. CASE j = Len(t) + 1
  <2>1. open[g] \in Item
    BY <1>4
  <2>2. ~Less(open[g], x)
    BY <1>5, <2>1, LessOneWay
  <2> QED
    BY <2>2, <1>7, <1>8, <1>10
<1> QED
  BY <1>7, <1>9, <1>10

(* No step of a search drops the wrong item.                                 *)
LEMMA StepKeepsTheSmallest ==
  ASSUME IInv, [Next]_vars, Len(open') = Len(open),
         NEW i \in DOMAIN open, open[i] \notin {open'[j] : j \in DOMAIN open'},
         NEW j \in DOMAIN open'
  PROVE  ~Less(open[i], open'[j])
<1>1. open' # open
  OBVIOUS
<1>2. ~Start
  <2>1. SUFFICES ASSUME Start PROVE FALSE
    OBVIOUS
  <2>2. open = <<>>
    BY <2>1 DEF Start, IInv, Fresh
  <2>3. DOMAIN open = {}
    BY <2>2
  <2> QED
    BY <2>3
<1>3. ~Expand
  <2>1. SUFFICES ASSUME Expand PROVE FALSE
    OBVIOUS
  <2>2. /\ space.todo \in [space.nodes -> Nat] /\ open \in Seq(Item) /\ open # <<>>
        /\ open' = RemoveAt(open, Least(open))
    BY <2>1, Typed DEF Expand, AtHead
  <2>3. Least(open) \in DOMAIN open
    BY <2>2, LeastExists
  <2>4. Len(open') = Len(open) - 1 /\ Len(open) \in Nat
    BY <2>2, <2>3, RemoveAtKeeps
  <2> QED
    BY <2>4
<1>4. Evaluate
  BY <1>1, <1>2, <1>3 DEF Next, Step, Call, Timeout, LimitReached, Exhausted, Generate, vars
<1>5. /\ status = "running" /\ candidates # <<>> /\ space' = space
  BY <1>4 DEF Evaluate
<1>6. /\ WellFormed(space) /\ space.todo \in [space.nodes -> Nat] /\ config \in Configs
      /\ open \in Seq(Item) /\ candidates \in Seq(space.nodes)
  BY <1>5, Typed, Running
<1>7. PICK p \in space.priority[Head(candidates)] :
        p # Dead /\ Push([node |-> Head(candidates), priority |-> p])
  BY <1>1, <1>4 DEF Evaluate
<1>8. [node |-> Head(candidates), priority |-> p] \in Item
  <2>1. Head(candidates) \in space.nodes
    BY <1>5, <1>6
  <2> QED
    BY <2>1, <1>6, <1>7 DEF WellFormed, Item
<1> QED
  BY <1>5, <1>6, <1>7, <1>8, PushKeepsTheSmallest

(* A step counts an expansion only below the limit, and stops at it.         *)
LEMMA NextLimit == IInv /\ LimitIsExact /\ [Next]_vars => LimitIsExact'
<1> SUFFICES ASSUME IInv, LimitIsExact, [Next]_vars PROVE LimitIsExact'
  OBVIOUS
<1>1. CASE Call
  <2>1. /\ status' = "new" /\ config' \in Configs /\ expanded' = 0
    BY <1>1 DEF Call, IInv, Fresh
  <2>2. config'.limit # NoLimit => 0 <= config'.limit
    BY <2>1, ConfigsAssumption
  <2> QED
    BY <2>1, <2>2 DEF LimitIsExact
<1>2. CASE Step
  <2>1. status # "idle" /\ config' = config
    BY <1>2 DEF Step, Start, Timeout, LimitReached, Exhausted, Expand, Generate, Evaluate, AtHead
  <2>2. expanded \in Nat /\ config.limit \in Nat \cup {NoLimit}
    BY <2>1, ConfigsAssumption DEF IInv, TypeOK
  <2>3. CASE Expand
    <3>1. expanded' = expanded + 1 /\ ~AtLimit /\ status' \in {"running", "plan"}
      BY <2>3 DEF Expand, AtHead, Found
    <3> QED
      BY <3>1, <2>1, <2>2 DEF LimitIsExact, AtLimit
  <2>4. CASE LimitReached
    <3>1. expanded' = expanded /\ AtLimit /\ open' # <<>>
      BY <2>4 DEF LimitReached
    <3> QED
      BY <3>1, <2>1, <2>2 DEF LimitIsExact, AtLimit
  <2>5. CASE Start \/ Timeout \/ Exhausted \/ Generate \/ Evaluate
    <3>1. expanded' = expanded /\ status' # "limit"
      BY <2>5 DEF Start, Timeout, Exhausted, Generate, Evaluate, AtHead, Found
    <3> QED
      BY <3>1, <2>1 DEF LimitIsExact
  <2> QED
    BY <1>2, <2>3, <2>4, <2>5 DEF Step
<1>3. CASE UNCHANGED vars
  BY <1>3 DEF LimitIsExact, vars
<1> QED
  BY <1>1, <1>2, <1>3 DEF Next

(* `_priority_search` never expands more states than `max_expanded_states`,  *)
(* raises only once it expanded as many, and never with nothing left, for    *)
(* every space, heuristic and limit.                                         *)
THEOREM LimitHolds == Spec => []LimitIsExact
<1>1. Init => LimitIsExact
  BY DEF Init, LimitIsExact
<1> QED
  BY <1>1, NextLimit, Invariance, PTL DEF Spec

(* What a bounded open list evicts is never smaller than what it keeps       *)
(* (`_BoundedPriorityQueue.push`), for every bound and every order of the items.    *)
THEOREM BoundKeepsTheSmallest == Spec => KeepsTheSmallest
<1>1. IInv /\ [Next]_vars
      => [Len(open') = Len(open) =>
            \A i \in DOMAIN open : open[i] \notin {open'[j] : j \in DOMAIN open'}
              => \A j \in DOMAIN open' : ~Less(open[i], open'[j])]_vars
  BY StepKeepsTheSmallest
<1> QED
  BY <1>1, Invariance, PTL DEF Spec, KeepsTheSmallest
=============================================================================
