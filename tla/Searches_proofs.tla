-------------------------- MODULE Searches_proofs ---------------------------
(****************************************************************************)
(* The round-robin and the deque searches, for every space, heuristic and    *)
(* order of expansion: what they say when they give up, the ways to a goal   *)
(* they keep open, the depth breadth-first search finds, and their limit.    *)
(****************************************************************************)
EXTENDS Searches, TLAPS, WellFoundedInduction, SequenceTheorems, FiniteSetTheorems

Elements(s) == {s[i] : i \in DOMAIN s}

-----------------------------------------------------------------------------
(* The round-robin search. A node stands for b if it makes b redundant.      *)
Stands(b) == \E a \in store : a = b \/ Q!MakesRedundant(Q!Policy(space, config.weak), space, a, b)

QueuesFresh ==
  status = "new" => /\ plan = NoNode /\ pending = <<>> /\ candidates = {} /\ filled = Q!Queues
                    /\ closed = {} /\ store = {} /\ expanded = 0
QueuesCount ==
  /\ IsFiniteSet(closed) /\ expanded = Cardinality(closed) /\ closed \subseteq store
  /\ candidates \subseteq store
  /\ \A q \in Q!Queues : \A x \in opens[q] : x.node \in store
QueuesAccount ==
  status = "running" =>
    /\ space.root \in store
    /\ pending # <<>> => filled = {}
    /\ (IF config.early THEN store ELSE closed) \cap space.goal = {}
    /\ \A a \in closed : \A i \in DOMAIN space.succ[a] :
         space.succ[a][i] \in Elements(pending) \/ Stands(space.succ[a][i])
QueuesInv ==
  /\ space \in QueueSpaces /\ config \in QueueConfigs /\ Q!TypeOK
  /\ QueuesFresh /\ QueuesCount /\ QueuesAccount
  /\ Q!LimitIsExact /\ Q!EveryQueueHoldsThePlans

-----------------------------------------------------------------------------
(* The deque searches.                                                       *)
DequesFresh ==
  status = "new" => /\ plan = NoNode /\ open = <<>> /\ current = D!NoItem /\ pending = <<>>
                    /\ candidates = <<>> /\ store = {} /\ expanded = 0
(* What is pending are successors of the node in hand, which is no goal; and *)
(* nor is anything that waits, if goals are looked for early.                *)
DequesPending ==
  status = "running" =>
    /\ space.root \in space.nodes /\ base \in space.nodes
    /\ ~D!EHC => candidates = <<>>
    /\ config.early =>
         /\ space.root \notin space.goal
         /\ \A x \in Elements(open) : x.node \notin space.goal
         /\ \A a \in Elements(candidates) : a \notin space.goal
    /\ pending # <<>> =>
         /\ current.node \in space.nodes \ space.goal
         /\ Elements(pending) \subseteq Elements(space.succ[current.node])

(* Depths are those of real paths; and some node that waits is on a shortest *)
(* way to a goal.                                                            *)
ReachedAt(a, depth) ==
  a \in Solvable(space)
    => space.root \in Solvable(space) /\ space.distance[space.root] <= depth + space.distance[a]
OnTheWay(a, depth) ==
  a \in Solvable(space) /\ depth + space.distance[a] <= space.distance[space.root]
DepthsAreReal ==
  ~D!EHC /\ status = "running" =>
    /\ \A x \in Elements(open) : ReachedAt(x.node, x.depth)
    /\ pending # <<>> => ReachedAt(current.node, current.depth)
WayIsOpen ==
  ~D!EHC /\ status = "running" /\ space.root \in Solvable(space) =>
    \/ \E x \in Elements(open) : OnTheWay(x.node, x.depth)
    \/ \E a \in Elements(pending) : OnTheWay(a, current.depth + 1)

(* The open list of breadth-first search is sorted by depth.                 *)
ShallowFirst ==
  config.kind = "bfs" /\ status = "running" =>
    /\ \A i \in DOMAIN open : current.depth <= open[i].depth /\ open[i].depth <= current.depth + 1
    /\ \A i, j \in DOMAIN open : i <= j => open[i].depth <= open[j].depth
DequesInv ==
  /\ space \in DequeSpaces /\ config \in DequeConfigs /\ D!TypeOK
  /\ DequesFresh /\ DequesPending /\ DepthsAreReal /\ WayIsOpen /\ ShallowFirst
  /\ D!LimitIsExact /\ D!BreadthFirst

IInv == IF ByQueues THEN QueuesInv ELSE DequesInv

(* Hill climbing: nothing it expanded since it last started over is nearer   *)
(* to a goal than all that waits.                                            *)
Nearer(b) == \E w \in D!Waiting \cap Solvable(space) : space.distance[w] <= space.distance[b]
ClimbsOn ==
  D!EHC /\ D!Exact /\ status = "running" =>
    /\ \A b \in (store \cup {base}) \cap Solvable(space) : Nearer(b)
    /\ pending # <<>> =>
         \A s \in Elements(space.succ[current.node]) \cap Solvable(space) :
           \/ s \in Elements(pending) \/ s \in Elements(candidates)
           \/ \E b \in store \cap Solvable(space) : space.distance[b] <= space.distance[s]
SoundInv == NoPlanMeansNone /\ (~ByQueues => ClimbsOn)
-----------------------------------------------------------------------------
(* Numbers and sequences.                                                    *)

(* A set of naturals with an element has a least one.                        *)
LEMMA LeastNumber ==
  ASSUME NEW S \in SUBSET Nat, S # {}
  PROVE  \E m \in S : \A k \in S : m <= k
<1> DEFINE R == OpToRel(<, Nat)
<1>1. PICK m \in S : \A k \in S : ~(<<k, m>> \in R)
  <2> HIDE DEF R
  <2>1. IsWellFoundedOn(R, Nat)
    BY NatLessThanWellFounded DEF R
  <2> QED
    BY <2>1, WFMin
<1>2. \A k \in S : ~(k < m)
  BY <1>1 DEF OpToRel
<1> QED
  BY <1>2

(* A set of nodes with an element has one that is nearest to a goal.         *)
LEMMA NearestNode ==
  ASSUME NEW sp, sp.distance \in [Solvable(sp) -> Nat], NEW S \in SUBSET Solvable(sp), S # {}
  PROVE  \E a \in S : \A b \in S : sp.distance[a] <= sp.distance[b]
<1> DEFINE N == {sp.distance[a] : a \in S}
<1>1. N \in SUBSET Nat /\ N # {}
  OBVIOUS
<1>2. PICK m \in N : \A k \in N : m <= k
  <2> HIDE DEF N
  <2> QED
    BY <1>1, LeastNumber
<1>3. PICK a \in S : m = sp.distance[a]
  OBVIOUS
<1> QED
  BY <1>2, <1>3

(* Appending adds one element and nothing else.                              *)
LEMMA AppendElements ==
  ASSUME NEW S, NEW s \in Seq(S), NEW a \in S
  PROVE  Append(s, a) \in Seq(S) /\ Elements(Append(s, a)) = Elements(s) \cup {a}
<1>1. /\ Append(s, a) \in Seq(S)
      /\ DOMAIN Append(s, a) = 1 .. Len(s) + 1
      /\ DOMAIN s = 1 .. Len(s) /\ Len(s) \in Nat
      /\ \A j \in 1 .. Len(s) : Append(s, a)[j] = s[j]
      /\ Append(s, a)[Len(s) + 1] = a
  OBVIOUS
<1> QED
  BY <1>1 DEF Elements

(* Taking the first element off takes off at most that one.                  *)
LEMMA TailElements ==
  ASSUME NEW S, NEW s \in Seq(S), s # <<>>
  PROVE  /\ Head(s) \in S /\ Tail(s) \in Seq(S)
         /\ Elements(s) = Elements(Tail(s)) \cup {Head(s)}
<1>1. /\ Len(s) \in Nat \ {0} /\ DOMAIN s = 1 .. Len(s)
      /\ Head(s) = s[1] /\ Head(s) \in S
      /\ Tail(s) \in Seq(S) /\ DOMAIN Tail(s) = 1 .. Len(s) - 1
      /\ \A j \in 1 .. Len(s) - 1 : Tail(s)[j] = s[j + 1]
  OBVIOUS
<1>2. ASSUME NEW k \in DOMAIN s
      PROVE  s[k] = Head(s) \/ s[k] \in Elements(Tail(s))
  <2>1. CASE k = 1
    BY <2>1, <1>1
  <2>2. CASE k # 1
    <3>1. k - 1 \in DOMAIN Tail(s) /\ Tail(s)[k - 1] = s[k]
      BY <2>2, <1>1
    <3> QED
      BY <3>1 DEF Elements
  <2> QED
    BY <2>1, <2>2
<1>3. ASSUME NEW j \in DOMAIN Tail(s)
      PROVE  Tail(s)[j] \in Elements(s)
  <2>1. j + 1 \in DOMAIN s /\ Tail(s)[j] = s[j + 1]
    BY <1>1
  <2> QED
    BY <2>1 DEF Elements
<1>4. Elements(Tail(s)) \subseteq Elements(s)
  BY <1>3 DEF Elements
<1>5. Elements(s) \subseteq Elements(Tail(s)) \cup {Head(s)}
  BY <1>2 DEF Elements
<1>6. Head(s) \in Elements(s)
  BY <1>1 DEF Elements
<1> QED
  BY <1>1, <1>4, <1>5, <1>6

(* An empty sequence has no elements, and one without elements is empty.     *)
LEMMA NoElements ==
  ASSUME NEW S, NEW s \in Seq(S)
  PROVE  s = <<>> <=> Elements(s) = {}
<1>1. CASE s = <<>>
  BY <1>1 DEF Elements
<1>2. CASE s # <<>>
  <2>1. 1 \in DOMAIN s
    BY <1>2
  <2> QED
    BY <2>1, <1>2 DEF Elements
<1> QED
  BY <1>1, <1>2

(* Taking the i-th element out moves those behind it up and changes nothing  *)
(* else.                                                                     *)
LEMMA RemoveAtMoves ==
  ASSUME NEW S, NEW s \in Seq(S), NEW i \in DOMAIN s
  PROVE  /\ D!RemoveAt(s, i) \in Seq(S) /\ Len(D!RemoveAt(s, i)) = Len(s) - 1
         /\ \A j \in 1 .. Len(s) - 1 :
              D!RemoveAt(s, i)[j] = IF j < i THEN s[j] ELSE s[j + 1]
<1> DEFINE before == SubSeq(s, 1, i - 1)
           after == SubSeq(s, i + 1, Len(s))
<1>1. i \in 1 .. Len(s) /\ Len(s) \in Nat /\ DOMAIN s = 1 .. Len(s)
  OBVIOUS
<1>2. /\ before \in Seq(S) /\ Len(before) = i - 1
      /\ \A k \in 1 .. i - 1 : before[k] = s[k]
  BY <1>1
<1>3. /\ after \in Seq(S) /\ Len(after) = Len(s) - i
      /\ \A k \in 1 .. Len(s) - i : after[k] = s[i + k]
  BY <1>1
<1>4. D!RemoveAt(s, i) = before \o after
  BY DEF D!RemoveAt
<1> HIDE DEF before, after
<1>5. D!RemoveAt(s, i) \in Seq(S) /\ Len(D!RemoveAt(s, i)) = Len(s) - 1
  <2>1. before \o after \in Seq(S)
    BY <1>2, <1>3
  <2>2. Len(before \o after) = Len(before) + Len(after)
    BY <1>2, <1>3, ConcatProperties
  <2>3. Len(before) + Len(after) = Len(s) - 1
    BY <1>1, <1>2, <1>3
  <2> QED
    BY <2>1, <2>2, <2>3, <1>4
<1>6. ASSUME NEW j \in 1 .. Len(s) - 1
      PROVE  D!RemoveAt(s, i)[j] = IF j < i THEN s[j] ELSE s[j + 1]
  <2>1. (before \o after)[j] = IF j <= Len(before) THEN before[j] ELSE after[j - Len(before)]
    BY <1>1, <1>2, <1>3
  <2>2. CASE j < i
    BY <2>1, <2>2, <1>1, <1>2, <1>4
  <2>3. CASE ~(j < i)
    <3>1. j - (i - 1) \in 1 .. Len(s) - i /\ i + (j - (i - 1)) = j + 1 /\ ~(j <= i - 1)
      BY <2>3, <1>1
    <3>2. after[j - (i - 1)] = s[j + 1]
      BY <3>1, <1>3
    <3> QED
      BY <2>1, <2>3, <3>1, <3>2, <1>2, <1>4
  <2> QED
    BY <2>2, <2>3
<1> QED
  BY <1>5, <1>6

(* So it takes out at most that element.                                     *)
LEMMA RemoveAtElements ==
  ASSUME NEW S, NEW s \in Seq(S), NEW i \in DOMAIN s
  PROVE  Elements(s) = Elements(D!RemoveAt(s, i)) \cup {s[i]}
<1> DEFINE t == D!RemoveAt(s, i)
<1>1. /\ t \in Seq(S) /\ Len(t) = Len(s) - 1
      /\ \A j \in 1 .. Len(s) - 1 : t[j] = IF j < i THEN s[j] ELSE s[j + 1]
  BY RemoveAtMoves
<1> HIDE DEF t
<1>2. /\ DOMAIN t = 1 .. Len(s) - 1 /\ DOMAIN s = 1 .. Len(s) /\ Len(s) \in Nat
      /\ i \in 1 .. Len(s)
  BY <1>1
<1>3. ASSUME NEW k \in DOMAIN s, k # i
      PROVE  s[k] \in Elements(t)
  <2>1. CASE k < i
    <3>1. k \in DOMAIN t /\ t[k] = s[k]
      BY <2>1, <1>1, <1>2
    <3> QED
      BY <3>1 DEF Elements
  <2>2. CASE k > i
    <3>1. k - 1 \in DOMAIN t /\ t[k - 1] = s[k]
      BY <2>2, <1>1, <1>2
    <3> QED
      BY <3>1 DEF Elements
  <2> QED
    BY <2>1, <2>2, <1>2, <1>3
<1>4. Elements(t) \subseteq Elements(s)
  <2>1. ASSUME NEW j \in DOMAIN t
        PROVE  t[j] \in Elements(s)
    <3>1. (j \in DOMAIN s /\ t[j] = s[j]) \/ (j + 1 \in DOMAIN s /\ t[j] = s[j + 1])
      BY <1>1, <1>2
    <3> QED
      BY <3>1 DEF Elements
  <2> QED
    BY <2>1 DEF Elements
<1>5. Elements(s) \subseteq Elements(t) \cup {s[i]}
  BY <1>3 DEF Elements
<1>6. s[i] \in Elements(s)
  BY DEF Elements
<1> QED
  BY <1>4, <1>5, <1>6 DEF t

-----------------------------------------------------------------------------
(* Both searches read the same spaces.                                       *)

(* What the model says of a space that is searched.                          *)
LEMMA SpaceFacts ==
  ASSUME NEW sp \in Spaces
  PROVE  WellFormed(sp) /\ DistanceIsRight(sp) /\ HeuristicIsSafe(sp)
BY SpacesAssumption

(* The same words mean the same in both searches.                            *)
LEMMA SameWords ==
  ASSUME NEW sp, NEW policy, NEW a, NEW b
  PROVE  /\ Q!Solvable(sp) = Solvable(sp) /\ D!Solvable(sp) = Solvable(sp)
         /\ Q!NoNode = NoNode /\ D!NoNode = NoNode
         /\ Q!Dead = Dead /\ D!Dead = Dead
         /\ Q!MakesRedundant(policy, sp, a, b) = MakesRedundant(policy, sp, a, b)
         /\ D!MakesRedundant(policy, sp, a, b) = MakesRedundant(policy, sp, a, b)
         /\ \A weak : Q!Policy(sp, weak) = Policy(sp, weak) /\ D!Policy(sp, weak) = Policy(sp, weak)
<1>1. /\ Q!Solvable(sp) = Solvable(sp) /\ D!Solvable(sp) = Solvable(sp)
      /\ Q!NoNode = NoNode /\ D!NoNode = NoNode
      /\ Q!Dead = Dead /\ D!Dead = Dead
  BY DEF Q!Solvable, D!Solvable, Solvable, Q!NoNode, D!NoNode, NoNode, Q!Dead, D!Dead, Dead
<1>2. Q!MakesRedundant(policy, sp, a, b) = MakesRedundant(policy, sp, a, b)
  BY DEF Q!MakesRedundant, MakesRedundant, Q!Rule, Rule, Q!Dominates, Dominates
<1>3. D!MakesRedundant(policy, sp, a, b) = MakesRedundant(policy, sp, a, b)
  BY DEF D!MakesRedundant, MakesRedundant, D!Rule, Rule, D!Dominates, Dominates
<1>4. \A weak : Q!Policy(sp, weak) = Policy(sp, weak) /\ D!Policy(sp, weak) = Policy(sp, weak)
  BY DEF Q!Policy, D!Policy, Policy
<1> QED
  BY <1>1, <1>2, <1>3, <1>4

(* Where dedup is exact, what stands for a node that can reach a goal can    *)
(* reach it in no more steps.                                                *)
LEMMA RedundantIsNoNearer ==
  ASSUME NEW sp, DedupIsSound(sp), NEW weak, weak => ~sp.temporal,
         NEW a \in sp.nodes, NEW b \in Solvable(sp), MakesRedundant(Policy(sp, weak), sp, a, b)
  PROVE  a \in Solvable(sp) /\ sp.distance[a] <= sp.distance[b]
<1>1. Policy(sp, weak) = Policy(sp, FALSE)
  BY DEF Policy
<1> QED
  BY <1>1 DEF DedupIsSound

-----------------------------------------------------------------------------
(* The round-robin search.                                                   *)

(* What a search that is called with several queues is called with.          *)
LEMMA QueuesTyped ==
  ASSUME QueuesInv
  PROVE  /\ config.queues \in Nat \ {0} /\ config.custom \subseteq Q!Queues
         /\ config.limit \in Nat \cup {-1} /\ ByQueues
         /\ WellFormed(space) /\ DistanceIsRight(space) /\ HeuristicIsSafe(space)
<1>1. space \in Spaces
  BY SearchesAssumption DEF QueuesInv
<1>2. WellFormed(space) /\ DistanceIsRight(space) /\ HeuristicIsSafe(space)
  BY <1>1, SpaceFacts
<1>3. config.queues \in Nat \ {0} /\ config.custom \subseteq Q!Queues
      /\ config.limit \in Nat \cup {-1} /\ ByQueues
  BY SearchesAssumption DEF QueuesInv, Q!ConfigsAssumption, Q!Queues, Q!NoLimit, ByQueues
<1> QED
  BY <1>2, <1>3

(* A call starts with nothing done.                                          *)
LEMMA QueuesInit == Q!Init => ByQueues /\ QueuesInv
<1> SUFFICES ASSUME Q!Init PROVE ByQueues /\ QueuesInv
  OBVIOUS
<1>1. /\ space \in QueueSpaces /\ config \in QueueConfigs /\ ByQueues
      /\ config.limit \in Nat \cup {-1}
  BY SearchesAssumption DEF Q!Init, ByQueues, Q!ConfigsAssumption, Q!NoLimit
<1>2. Q!TypeOK
  BY DEF Q!Init, Q!TypeOK, Q!Queues
<1>3. QueuesFresh
  BY SameWords DEF Q!Init, QueuesFresh, Q!Queues
<1>4. QueuesCount
  BY FS_EmptySet DEF Q!Init, QueuesCount, Q!Queues
<1>5. Q!LimitIsExact
  BY <1>1 DEF Q!Init, Q!LimitIsExact, Q!NoLimit
<1>6. QueuesAccount /\ Q!EveryQueueHoldsThePlans
  BY DEF Q!Init, QueuesAccount, Q!EveryQueueHoldsThePlans
<1> QED
  BY <1>1, <1>2, <1>3, <1>4, <1>5, <1>6 DEF QueuesInv

(* The initial state is let through and waits in every queue.                *)
LEMMA QueuesStart == QueuesInv /\ Q!Start => QueuesInv'
<1> SUFFICES ASSUME QueuesInv, Q!Start PROVE QueuesInv'
  OBVIOUS
<1>1. /\ space' = space /\ config' = config /\ pending' = pending /\ candidates' = candidates
      /\ filled' = filled /\ closed' = closed /\ expanded' = expanded
      /\ status = "new"
  BY DEF Q!Start
<1>2. /\ plan = NoNode /\ pending = <<>> /\ candidates = {} /\ filled = Q!Queues
      /\ closed = {} /\ store = {} /\ expanded = 0
  BY <1>1 DEF QueuesInv, QueuesFresh
<1>3. /\ WellFormed(space) /\ config.limit \in Nat \cup {-1} /\ Q!TypeOK
      /\ space \in QueueSpaces /\ config \in QueueConfigs /\ Q!Queues' = Q!Queues
  BY <1>1, QueuesTyped DEF QueuesInv, Q!Queues
<1>4. \/ space.root = NoNode /\ status' = "no plan" /\ UNCHANGED <<plan, opens, store>>
      \/ /\ space.root # NoNode /\ store' = {space.root}
         /\ config.early /\ space.root \in space.goal
         /\ status' = "plan" /\ plan' = space.root /\ UNCHANGED opens
      \/ /\ space.root # NoNode /\ store' = {space.root}
         /\ ~(config.early /\ space.root \in space.goal)
         /\ status' = "running" /\ UNCHANGED plan
         /\ opens' = [q \in Q!Queues |-> {[node |-> space.root, priority |-> 0]}]
  BY SameWords DEF Q!Start, Q!Found
<1>5. space.root # NoNode => space.root \in space.nodes
  BY <1>3 DEF WellFormed
<1>6. Q!TypeOK'
  <2>1. opens' \in [Q!Queues -> SUBSET [node : space.nodes, priority : Nat]]
    <3>1. opens \in [Q!Queues -> SUBSET [node : space.nodes, priority : Nat]]
      BY <1>3 DEF Q!TypeOK
    <3>2. space.root # NoNode
            => {[node |-> space.root, priority |-> 0]} \in SUBSET [node : space.nodes, priority : Nat]
      BY <1>5
    <3> QED
      BY <1>4, <3>1, <3>2
  <2>2. /\ plan' \in space.nodes \cup {NoNode} /\ store' \subseteq space.nodes
        /\ status' \in {"new", "running", "plan", "no plan", "limit", "timeout"}
    BY <1>2, <1>3, <1>4, <1>5 DEF Q!TypeOK
  <2> QED
    BY <2>1, <2>2, <1>1, <1>3, SameWords DEF Q!TypeOK
<1>7. QueuesFresh'
  BY <1>4 DEF QueuesFresh
<1>8. QueuesCount'
  <2>1. IsFiniteSet(closed') /\ expanded' = Cardinality(closed') /\ closed' \subseteq store'
        /\ candidates' \subseteq store'
    BY <1>1, <1>2, FS_EmptySet
  <2>2. \A q \in Q!Queues : \A x \in opens'[q] : x.node \in store'
    <3>1. \A q \in Q!Queues : \A x \in opens[q] : x.node \in store
      BY DEF QueuesInv, QueuesCount
    <3>2. CASE opens' = opens
      BY <3>1, <3>2, <1>2
    <3>3. CASE /\ opens' = [q \in Q!Queues |-> {[node |-> space.root, priority |-> 0]}]
               /\ store' = {space.root}
      BY <3>3
    <3> QED
      BY <3>2, <3>3, <1>4
  <2> QED
    BY <2>1, <2>2, <1>3 DEF QueuesCount
<1>9. QueuesAccount'
  BY <1>1, <1>2, <1>4 DEF QueuesAccount
<1>10. Q!LimitIsExact'
  <2>1. status' # "limit"
    BY <1>4
  <2> QED
    BY <2>1, <1>1, <1>2, <1>3 DEF Q!LimitIsExact, Q!NoLimit
<1>11. Q!EveryQueueHoldsThePlans'
  <2> SUFFICES ASSUME status' = "running", NEW q \in Q!Queues, NEW a \in store'
               PROVE  \E x \in opens'[q] : x.node = a
    BY <1>1, <1>3 DEF Q!EveryQueueHoldsThePlans
  <2>1. opens'[q] = {[node |-> space.root, priority |-> 0]} /\ a = space.root
    BY <1>4
  <2> QED
    BY <2>1
<1> QED
  BY <1>1, <1>3, <1>6, <1>7, <1>8, <1>9, <1>10, <1>11 DEF QueuesInv

(* Ending the call, at the head of the loop, moves nothing but what is       *)
(* popped.                                                                   *)
LEMMA QueuesEnd ==
  ASSUME QueuesInv, status' \in {"timeout", "no plan", "limit"}, opens' \in [Q!Queues -> SUBSET [node : space.nodes, priority : Nat]],
         \A q \in Q!Queues : opens'[q] \subseteq opens[q],
         UNCHANGED <<space, config, plan, pending, candidates, filled, closed, store, expanded>>,
         status' = "limit" => expanded = config.limit /\ \E a \in store : a \notin closed
  PROVE  QueuesInv'
<1>1. Q!Queues' = Q!Queues
  BY DEF Q!Queues
<1>2. Q!TypeOK'
  BY <1>1 DEF QueuesInv, Q!TypeOK
<1>3. QueuesFresh' /\ QueuesAccount' /\ Q!EveryQueueHoldsThePlans'
  BY DEF QueuesFresh, QueuesAccount, Q!EveryQueueHoldsThePlans
<1>4. QueuesCount'
  BY <1>1 DEF QueuesInv, QueuesCount
<1>5. Q!LimitIsExact'
  BY DEF QueuesInv, Q!LimitIsExact, Q!NoLimit
<1> QED
  BY <1>2, <1>3, <1>4, <1>5 DEF QueuesInv

(* What a pop takes away: one item of the queue whose turn it is.            *)
LEMMA Pops ==
  ASSUME QueuesInv, NEW x \in Q!Tops(Q!Turn), Q!Popped(x)
  PROVE  /\ Q!Turn \in Q!Queues /\ x \in opens[Q!Turn]
         /\ x.node \in space.nodes /\ x.node \in store
         /\ opens' \in [Q!Queues -> SUBSET [node : space.nodes, priority : Nat]]
         /\ \A q \in Q!Queues : opens'[q] \subseteq opens[q] /\ opens[q] \subseteq opens'[q] \cup {x}
<1>1. Q!Turn \in Q!Queues
  <2>1. config.queues \in Nat \ {0} /\ expanded \in Nat
    BY QueuesTyped DEF QueuesInv, Q!TypeOK
  <2> QED
    BY <2>1 DEF Q!Turn, Q!Queues
<1>2. x \in opens[Q!Turn] /\ opens' = [opens EXCEPT ![Q!Turn] = @ \ {x}]
  BY DEF Q!Tops, Q!Popped
<1>3. opens \in [Q!Queues -> SUBSET [node : space.nodes, priority : Nat]]
  BY DEF QueuesInv, Q!TypeOK
<1>4. x.node \in space.nodes
  BY <1>1, <1>2, <1>3
<1>5. x.node \in store
  BY <1>1, <1>2 DEF QueuesInv, QueuesCount
<1>6. \A q \in Q!Queues : opens'[q] = IF q = Q!Turn THEN opens[q] \ {x} ELSE opens[q]
  BY <1>2, <1>3
<1>7. opens' \in [Q!Queues -> SUBSET [node : space.nodes, priority : Nat]]
  BY <1>1, <1>2, <1>3
<1> QED
  BY <1>1, <1>2, <1>4, <1>5, <1>6, <1>7

(* Passing over a state that another queue expanded loses nothing.           *)
LEMMA QueuesSkip == QueuesInv /\ Q!Skip => QueuesInv'
<1> SUFFICES ASSUME QueuesInv, Q!Skip PROVE QueuesInv'
  OBVIOUS
<1>1. PICK x \in Q!Tops(Q!Turn) : Q!Popped(x) /\ x.node \in closed
  BY DEF Q!Skip
<1>2. UNCHANGED <<space, config, status, plan, pending, candidates, filled, closed, store, expanded>>
  BY DEF Q!Skip
<1>3. /\ opens' \in [Q!Queues -> SUBSET [node : space.nodes, priority : Nat]]
      /\ \A q \in Q!Queues : opens'[q] \subseteq opens[q] /\ opens[q] \subseteq opens'[q] \cup {x}
  BY <1>1, Pops
<1>4. Q!Queues' = Q!Queues
  BY <1>2 DEF Q!Queues
<1>5. Q!TypeOK'
  BY <1>2, <1>3, <1>4 DEF QueuesInv, Q!TypeOK
<1>6. QueuesFresh' /\ Q!LimitIsExact'
  BY <1>2, <1>4 DEF QueuesInv, QueuesFresh, Q!LimitIsExact
<1>7. QueuesAccount'
  BY <1>2 DEF QueuesInv, QueuesAccount, Stands
<1>8. QueuesCount'
  BY <1>2, <1>3, <1>4 DEF QueuesInv, QueuesCount
<1>9. Q!EveryQueueHoldsThePlans'
  <2> SUFFICES ASSUME status = "running", NEW q \in Q!Queues \ config.custom,
                      NEW a \in store \cap Q!Solvable(space)
               PROVE  \/ a \in closed
                      \/ a \in candidates /\ q \notin filled
                      \/ (pending # <<>> /\ a \in candidates)
                      \/ \E y \in opens'[q] : y.node = a
    BY <1>2, <1>4 DEF Q!EveryQueueHoldsThePlans, Q!Solvable
  <2>1. \/ a \in closed
        \/ a \in candidates /\ q \notin filled
        \/ (pending # <<>> /\ a \in candidates)
        \/ \E y \in opens[q] : y.node = a
    BY DEF QueuesInv, Q!EveryQueueHoldsThePlans
  <2> QED
    BY <2>1, <1>1, <1>3
<1> QED
  BY <1>2, <1>5, <1>6, <1>7, <1>8, <1>9 DEF QueuesInv

(* Timeouts, the limit and an empty queue end the call.                      *)
LEMMA QueuesGiveUp == QueuesInv /\ (Q!Timeout \/ Q!Exhausted \/ Q!LimitReached) => QueuesInv'
<1> SUFFICES ASSUME QueuesInv, Q!Timeout \/ Q!Exhausted \/ Q!LimitReached PROVE QueuesInv'
  OBVIOUS
<1>1. CASE Q!Timeout \/ Q!Exhausted
  <2>1. /\ UNCHANGED <<space, config, plan, opens, pending, candidates, filled, closed, store, expanded>>
        /\ status' \in {"timeout", "no plan"}
    BY <1>1 DEF Q!Timeout, Q!Exhausted
  <2>2. opens' \in [Q!Queues -> SUBSET [node : space.nodes, priority : Nat]]
    BY <2>1 DEF QueuesInv, Q!TypeOK
  <2> QED
    BY <2>1, <2>2, QueuesEnd
<1>2. CASE Q!LimitReached
  <2>1. PICK x \in Q!Tops(Q!Turn) : Q!Popped(x) /\ x.node \notin closed
    BY <1>2 DEF Q!LimitReached
  <2>2. /\ UNCHANGED <<space, config, plan, pending, candidates, filled, closed, store, expanded>>
        /\ status' = "limit" /\ Q!AtLimit
    BY <1>2 DEF Q!LimitReached
  <2>3. expanded = config.limit
    <3>1. config.limit \in Nat \cup {-1} /\ expanded \in Nat
      BY QueuesTyped DEF QueuesInv, Q!TypeOK
    <3> QED
      BY <2>2, <3>1 DEF QueuesInv, Q!LimitIsExact, Q!AtLimit, Q!NoLimit
  <2>4. /\ x.node \in store
        /\ opens' \in [Q!Queues -> SUBSET [node : space.nodes, priority : Nat]]
        /\ \A q \in Q!Queues : opens'[q] \subseteq opens[q]
    BY <2>1, Pops
  <2> QED
    BY <2>1, <2>2, <2>3, <2>4, QueuesEnd
<1> QED
  BY <1>1, <1>2

(* The limit is kept by an expansion it allows.                              *)
LEMMA QueuesRoom ==
  ASSUME QueuesInv, ~Q!AtLimit
  PROVE  config.limit # -1 => expanded + 1 <= config.limit
<1>1. config.limit \in Nat \cup {-1} /\ expanded \in Nat
  BY QueuesTyped DEF QueuesInv, Q!TypeOK
<1> QED
  BY <1>1 DEF Q!AtLimit, Q!NoLimit

(* The state expanded is a new one, it counts once, and all its successors   *)
(* are pending.                                                              *)
LEMMA QueuesExpand == QueuesInv /\ Q!Expand => QueuesInv'
<1> SUFFICES ASSUME QueuesInv, Q!Expand PROVE QueuesInv'
  OBVIOUS
<1>1. PICK x \in Q!Tops(Q!Turn) :
        /\ Q!Popped(x) /\ x.node \notin closed
        /\ closed' = closed \cup {x.node}
        /\ IF ~config.early /\ x.node \in space.goal
             THEN Q!Found(x.node) /\ UNCHANGED <<pending, filled>>
             ELSE pending' = space.succ[x.node] /\ filled' = {} /\ UNCHANGED <<status, plan>>
  BY DEF Q!Expand
<1>2. /\ space' = space /\ config' = config /\ store' = store
      /\ expanded' = expanded + 1 /\ candidates' = {}
      /\ status = "running" /\ pending = <<>> /\ filled = Q!Queues /\ ~Q!AtLimit
  BY DEF Q!Expand, Q!AtHead
<1>3. /\ x \in opens[Q!Turn] /\ x.node \in space.nodes /\ x.node \in store
      /\ opens' \in [Q!Queues -> SUBSET [node : space.nodes, priority : Nat]]
      /\ \A q \in Q!Queues : opens'[q] \subseteq opens[q] /\ opens[q] \subseteq opens'[q] \cup {x}
  BY <1>1, Pops
<1>4. /\ Q!Queues' = Q!Queues /\ WellFormed(space) /\ Q!TypeOK
      /\ config.limit \in Nat \cup {-1} /\ expanded \in Nat
  BY <1>2, QueuesTyped DEF Q!Queues, QueuesInv, Q!TypeOK
<1>5. \/ /\ ~config.early /\ x.node \in space.goal
         /\ status' = "plan" /\ plan' = x.node /\ pending' = pending /\ filled' = filled
      \/ /\ config.early \/ x.node \notin space.goal
         /\ status' = status /\ plan' = plan /\ pending' = space.succ[x.node] /\ filled' = {}
  BY <1>1 DEF Q!Found
<1>6. Q!TypeOK'
  <2>1. pending' \in Seq(space.nodes)
    <3>1. pending \in Seq(space.nodes) /\ space.succ[x.node] \in Seq(space.nodes)
      BY <1>3, <1>4 DEF WellFormed, Q!TypeOK
    <3> QED
      BY <3>1, <1>5
  <2>2. closed' \subseteq space.nodes /\ filled' \subseteq Q!Queues
    BY <1>1, <1>3, <1>4, <1>5 DEF Q!TypeOK
  <2>3. plan' \in space.nodes \cup {Q!NoNode}
        /\ status' \in {"new", "running", "plan", "no plan", "limit", "timeout"}
    BY <1>3, <1>4, <1>5 DEF Q!TypeOK
  <2> QED
    <3>1. opens' \in [Q!Queues' -> SUBSET [node : space'.nodes, priority : Nat]]
      BY <1>2, <1>3, <1>4
    <3>2. candidates' \subseteq space'.nodes /\ store' \subseteq space'.nodes /\ expanded' \in Nat
      BY <1>2, <1>4 DEF Q!TypeOK
    <3> QED
      BY <2>1, <2>2, <2>3, <3>1, <3>2, <1>2, <1>4 DEF Q!TypeOK
<1>7. QueuesFresh'
  BY <1>2, <1>5 DEF QueuesFresh
<1>8. QueuesCount'
  <2>1. /\ IsFiniteSet(closed) /\ expanded = Cardinality(closed) /\ closed \subseteq store
        /\ \A q \in Q!Queues : \A y \in opens[q] : y.node \in store
    BY DEF QueuesInv, QueuesCount
  <2>2. IsFiniteSet(closed') /\ Cardinality(closed') = Cardinality(closed) + 1
    BY <2>1, <1>1, FS_AddElement
  <2> QED
    BY <2>1, <2>2, <1>1, <1>2, <1>3, <1>4 DEF QueuesCount
<1>9. QueuesAccount'
  <2> SUFFICES ASSUME status' = "running" PROVE QueuesAccount'
    BY DEF QueuesAccount
  <2>1. /\ space.root \in store
        /\ (IF config.early THEN store ELSE closed) \cap space.goal = {}
        /\ \A a \in closed : \A i \in DOMAIN space.succ[a] :
             space.succ[a][i] \in Elements(pending) \/ Stands(space.succ[a][i])
    BY <1>2 DEF QueuesInv, QueuesAccount
  <2>2. /\ config.early \/ x.node \notin space.goal
        /\ pending' = space.succ[x.node] /\ filled' = {}
    BY <1>5
  <2>3. (IF config.early THEN store ELSE closed') \cap space.goal = {}
    BY <1>1, <2>1, <2>2
  <2>4. \A b : Stands(b)' <=> Stands(b)
    BY <1>2 DEF Stands, Q!MakesRedundant, Q!Policy
  <2>5. ASSUME NEW a \in closed', NEW i \in DOMAIN space.succ[a]
        PROVE  space.succ[a][i] \in Elements(pending') \/ Stands(space.succ[a][i])
    <3>1. CASE a = x.node
      BY <3>1, <2>2 DEF Elements
    <3>2. CASE a \in closed
      BY <3>2, <2>1, <1>2 DEF Elements
    <3> QED
      BY <3>1, <3>2, <1>1
  <2> QED
    BY <2>1, <2>2, <2>3, <2>4, <2>5, <1>2 DEF QueuesAccount
<1>10. Q!LimitIsExact'
  <2>1. config.limit # -1 => expanded + 1 <= config.limit
    BY <1>2, QueuesRoom
  <2>2. status' # "limit"
    BY <1>2, <1>5
  <2> QED
    BY <2>1, <2>2, <1>2 DEF Q!LimitIsExact, Q!NoLimit
<1>11. Q!EveryQueueHoldsThePlans'
  <2> SUFFICES ASSUME status' = "running", NEW q \in Q!Queues \ config.custom,
                      NEW a \in store \cap Q!Solvable(space)
               PROVE  a \in closed' \/ \E y \in opens'[q] : y.node = a
    BY <1>2, <1>4 DEF Q!EveryQueueHoldsThePlans, Q!Solvable
  <2>1. a \in closed \/ \E y \in opens[q] : y.node = a
    BY <1>2 DEF QueuesInv, Q!EveryQueueHoldsThePlans
  <2> QED
    BY <2>1, <1>1, <1>3
<1> QED
  BY <1>2, <1>6, <1>7, <1>8, <1>9, <1>10, <1>11 DEF QueuesInv

(* A successor that is let through is a candidate for every queue; one that  *)
(* is not has one that stands for it.                                        *)
LEMMA QueuesGenerate == QueuesInv /\ Q!Generate => QueuesInv'
<1> SUFFICES ASSUME QueuesInv, Q!Generate PROVE QueuesInv'
  OBVIOUS
<1> DEFINE h == Head(pending)
<1>1. /\ status = "running" /\ pending # <<>> /\ pending' = Tail(pending)
      /\ space' = space /\ config' = config /\ opens' = opens /\ filled' = filled
      /\ closed' = closed /\ expanded' = expanded
  BY DEF Q!Generate
<1>2. \/ /\ config.early /\ h \in space.goal /\ status' = "plan" /\ plan' = h
         /\ candidates' = candidates /\ store' = store
      \/ /\ ~(config.early /\ h \in space.goal) /\ status' = status /\ plan' = plan
         /\ \/ Q!Redundant(h) /\ candidates' = candidates /\ store' = store
            \/ candidates' = candidates \cup {h} /\ store' = store \cup {h}
  BY DEF Q!Generate, Q!Found
<1>3. Q!TypeOK /\ Q!Queues' = Q!Queues
  BY <1>1 DEF QueuesInv, Q!Queues
<1>4. /\ h \in space.nodes /\ Tail(pending) \in Seq(space.nodes)
      /\ Elements(pending) = Elements(Tail(pending)) \cup {h}
  BY <1>1, <1>3, TailElements DEF Q!TypeOK
<1> HIDE DEF h
<1>5. Q!TypeOK'
  <2>1. plan' \in space.nodes \cup {Q!NoNode}
        /\ status' \in {"new", "running", "plan", "no plan", "limit", "timeout"}
    BY <1>2, <1>3, <1>4 DEF Q!TypeOK
  <2>2. candidates' \subseteq space.nodes /\ store' \subseteq space.nodes
    BY <1>2, <1>3, <1>4 DEF Q!TypeOK
  <2> QED
    BY <2>1, <2>2, <1>1, <1>3, <1>4 DEF Q!TypeOK
<1>6. QueuesFresh'
  BY <1>1, <1>2 DEF QueuesFresh
<1>7. QueuesCount'
  <2>1. store \subseteq store' /\ candidates' \subseteq store'
    BY <1>2 DEF QueuesInv, QueuesCount
  <2> QED
    BY <2>1, <1>1, <1>3 DEF QueuesInv, QueuesCount
<1>8. QueuesAccount'
  <2> SUFFICES ASSUME status' = "running" PROVE QueuesAccount'
    BY DEF QueuesAccount
  <2>1. /\ space.root \in store /\ filled = {}
        /\ (IF config.early THEN store ELSE closed) \cap space.goal = {}
        /\ \A a \in closed : \A i \in DOMAIN space.succ[a] :
             space.succ[a][i] \in Elements(pending) \/ Stands(space.succ[a][i])
    BY <1>1 DEF QueuesInv, QueuesAccount
  <2>2. store \subseteq store' /\ (Q!Redundant(h) \/ h \in store')
        /\ (store' = store \/ store' = store \cup {h}) /\ ~(config.early /\ h \in space.goal)
    BY <1>2
  <2>3. (IF config.early THEN store' ELSE closed) \cap space.goal = {}
    BY <2>1, <2>2
  <2>4. \A b : Stands(b) => Stands(b)'
    BY <1>1, <2>2 DEF Stands, Q!MakesRedundant, Q!Policy
  <2>5. \A b : b = h => Stands(b)'
    BY <1>1, <2>2 DEF Stands, Q!Redundant, Q!MakesRedundant, Q!Policy
  <2>6. ASSUME NEW a \in closed, NEW i \in DOMAIN space.succ[a]
        PROVE  space.succ[a][i] \in Elements(Tail(pending)) \/ Stands(space.succ[a][i])'
    BY <2>1, <2>4, <2>5, <1>1, <1>4
  <2> QED
    BY <2>1, <2>2, <2>3, <2>6, <1>1 DEF QueuesAccount
<1>9. Q!LimitIsExact'
  BY <1>1, <1>2 DEF QueuesInv, Q!LimitIsExact
<1>10. Q!EveryQueueHoldsThePlans'
  <2> SUFFICES ASSUME status' = "running", NEW q \in Q!Queues \ config.custom,
                      NEW a \in store' \cap Q!Solvable(space)
               PROVE  \/ a \in closed
                      \/ a \in candidates' /\ q \notin filled
                      \/ \E y \in opens[q] : y.node = a
    BY <1>1, <1>3 DEF Q!EveryQueueHoldsThePlans, Q!Solvable
  <2>1. filled = {}
    BY <1>1 DEF QueuesInv, QueuesAccount
  <2>2. a \in store => \/ a \in closed \/ a \in candidates
                       \/ \E y \in opens[q] : y.node = a
    BY <1>1 DEF QueuesInv, Q!EveryQueueHoldsThePlans
  <2>3. candidates \subseteq candidates' /\ (a \in store \/ a \in candidates')
    BY <1>2
  <2> QED
    BY <2>1, <2>2, <2>3
<1> QED
  BY <1>1, <1>5, <1>6, <1>7, <1>8, <1>9, <1>10 DEF QueuesInv

(* The queue to be given the candidates next is one that was not.            *)
LEMMA NextToFill ==
  ASSUME QueuesInv, filled # Q!Queues
  PROVE  Q!NextQueue \in Q!Queues \ filled
<1> DEFINE S == Q!Queues \ filled
<1>1. S \in SUBSET Nat /\ S # {}
  <2>1. config.queues \in Nat /\ filled \subseteq Q!Queues
    BY QueuesTyped DEF QueuesInv, Q!TypeOK
  <2>2. S # {}
    BY <2>1
  <2>3. S \in SUBSET Nat
    BY <2>1 DEF Q!Queues
  <2> QED
    BY <2>2, <2>3
<1>2. \E m \in S : \A k \in S : m <= k
  <2> HIDE DEF S
  <2> QED
    BY <1>1, LeastNumber
<1>3. Q!NextQueue = CHOOSE m \in S : \A k \in S : m <= k
  BY DEF Q!NextQueue, Q!Min
<1> HIDE DEF S
<1>4. Q!NextQueue \in S
  BY <1>2, <1>3
<1> QED
  BY <1>4 DEF S

(* A queue with a built-in heuristic is given every candidate that can reach *)
(* a goal.                                                                   *)
LEMMA QueuesFill == QueuesInv /\ Q!Fill => QueuesInv'
<1> SUFFICES ASSUME QueuesInv, Q!Fill PROVE QueuesInv'
  OBVIOUS
<1> DEFINE n == Q!NextQueue
           given(p) == {[node |-> a, priority |-> p[a]] : a \in {b \in candidates : p[b] # Dead}}
<1>1. /\ status = "running" /\ pending = <<>> /\ filled # Q!Queues
      /\ filled' = filled \cup {n}
      /\ space' = space /\ config' = config /\ status' = status /\ plan' = plan
      /\ pending' = pending /\ candidates' = candidates /\ closed' = closed
      /\ store' = store /\ expanded' = expanded
  BY DEF Q!Fill
<1>2. PICK p \in [candidates -> UNION {Q!Answers(n, a) : a \in candidates}] :
        /\ \A a \in candidates : p[a] \in Q!Answers(n, a)
        /\ opens' = [opens EXCEPT ![n] = @ \cup given(p)]
  BY SameWords DEF Q!Fill
<1>3. n \in Q!Queues \ filled
  BY <1>1, NextToFill
<1> HIDE DEF n
<1>4. /\ Q!TypeOK /\ Q!Queues' = Q!Queues /\ WellFormed(space) /\ HeuristicIsSafe(space)
      /\ QueuesCount
  BY <1>1, QueuesTyped DEF QueuesInv, Q!Queues
<1>5. candidates \subseteq space.nodes
  BY <1>4 DEF Q!TypeOK
<1>6. given(p) \in SUBSET [node : space.nodes, priority : Nat]
  <2> SUFFICES ASSUME NEW a \in candidates, p[a] # Dead
               PROVE  [node |-> a, priority |-> p[a]] \in [node : space.nodes, priority : Nat]
    OBVIOUS
  <2>1. p[a] \in space.priority[a] \cup {Dead} /\ a \in space.nodes
    BY <1>2, <1>5, SameWords DEF Q!Answers
  <2>2. p[a] \in Nat
    BY <2>1, <1>4 DEF WellFormed
  <2> QED
    BY <2>1, <2>2
<1>7. \A g \in given(p) : g.node \in store
  BY <1>4 DEF QueuesCount
<1>8. \A q \in Q!Queues : opens'[q] = IF q = n THEN opens[q] \cup given(p) ELSE opens[q]
  <2> HIDE DEF given
  <2> QED
    BY <1>2, <1>3, <1>4 DEF Q!TypeOK
<1>9. Q!TypeOK'
  <2>1. opens' \in [Q!Queues -> SUBSET [node : space.nodes, priority : Nat]]
    <3> HIDE DEF given
    <3>1. opens \in [Q!Queues -> SUBSET [node : space.nodes, priority : Nat]]
      BY <1>4 DEF Q!TypeOK
    <3>2. opens[n] \cup given(p) \in SUBSET [node : space.nodes, priority : Nat]
      BY <3>1, <1>3, <1>6
    <3> QED
      BY <3>1, <3>2, <1>2, <1>3
  <2>2. filled' \subseteq Q!Queues
    BY <1>1, <1>3, <1>4 DEF Q!TypeOK
  <2> QED
    BY <2>1, <2>2, <1>1, <1>4 DEF Q!TypeOK
<1>10. QueuesFresh'
  BY <1>1 DEF QueuesFresh
<1>11. QueuesCount'
  <2> HIDE DEF given
  <2>1. \A q \in Q!Queues : \A x \in opens'[q] : x.node \in store
    BY <1>4, <1>7, <1>8 DEF QueuesCount
  <2> QED
    BY <2>1, <1>1, <1>4 DEF QueuesCount
<1>12. QueuesAccount' /\ Q!LimitIsExact'
  <2>1. \A b : Stands(b)' <=> Stands(b)
    BY <1>1 DEF Stands, Q!MakesRedundant, Q!Policy
  <2> QED
    BY <2>1, <1>1 DEF QueuesInv, QueuesAccount, Q!LimitIsExact
<1>13. Q!EveryQueueHoldsThePlans'
  <2> SUFFICES ASSUME NEW q \in Q!Queues \ config.custom, NEW a \in store \cap Q!Solvable(space)
               PROVE  \/ a \in closed
                      \/ a \in candidates /\ q \notin filled'
                      \/ \E y \in opens'[q] : y.node = a
    BY <1>1, <1>4 DEF Q!EveryQueueHoldsThePlans, Q!Solvable
  <2>1. \/ a \in closed
        \/ a \in candidates /\ q \notin filled
        \/ \E y \in opens[q] : y.node = a
    BY <1>1 DEF QueuesInv, Q!EveryQueueHoldsThePlans
  <2>2. CASE q = n /\ a \in candidates
    <3>1. p[a] \in space.priority[a]
      BY <2>2, <1>2 DEF Q!Answers
    <3>2. p[a] # Dead
      BY <3>1, <1>4, SameWords DEF HeuristicIsSafe
    <3>3. [node |-> a, priority |-> p[a]] \in given(p)
      BY <2>2, <3>2
    <3>4. [node |-> a, priority |-> p[a]] \in opens'[q]
      <4> HIDE DEF given
      <4> QED
        BY <3>3, <1>8, <2>2
    <3> QED
      BY <3>4
  <2>3. opens[q] \subseteq opens'[q]
    <3> HIDE DEF given
    <3> QED
      BY <1>8
  <2> QED
    BY <2>1, <2>2, <2>3, <1>1
<1> QED
  BY <1>1, <1>9, <1>10, <1>11, <1>12, <1>13 DEF QueuesInv

(* Every step of the round-robin search.                                     *)
LEMMA QueuesNext == QueuesInv /\ Q!Next => QueuesInv'
BY QueuesStart, QueuesSkip, QueuesGiveUp, QueuesExpand, QueuesGenerate, QueuesFill DEF Q!Next

(* When a queue has run empty, nothing that was let through can reach a goal *)
(* without being expanded; and the nearest of those would have a nearer one. *)
LEMMA QueuesGiveUpRightly ==
  ASSUME QueuesInv, Q!Exhausted, Q!Exact, DedupIsSound(space)
  PROVE  space.root \notin Solvable(space)
<1> SUFFICES ASSUME space.root \in Solvable(space) PROVE FALSE
  OBVIOUS
<1>1. /\ status = "running" /\ pending = <<>> /\ filled = Q!Queues
      /\ config.custom = {} /\ (config.weak => ~space.temporal)
  BY DEF Q!Exhausted, Q!AtHead, Q!Exact
<1>2. PICK q \in Q!Queues : opens[q] = {}
  BY DEF Q!Exhausted, Q!SomeEmpty
<1>3. DistanceIsRight(space) /\ WellFormed(space) /\ store \subseteq space.nodes /\ QueuesCount
  BY QueuesTyped DEF QueuesInv, Q!TypeOK
<1>4. store \cap Solvable(space) \subseteq closed
  BY <1>1, <1>2, SameWords DEF QueuesInv, Q!EveryQueueHoldsThePlans
<1>5. /\ space.root \in store
      /\ (IF config.early THEN store ELSE closed) \cap space.goal = {}
      /\ \A a \in closed : \A i \in DOMAIN space.succ[a] :
           space.succ[a][i] \in Elements(pending) \/ Stands(space.succ[a][i])
  BY <1>1 DEF QueuesInv, QueuesAccount
<1>6. PICK a \in store \cap Solvable(space) :
        \A b \in store \cap Solvable(space) : space.distance[a] <= space.distance[b]
  <2>1. space.distance \in [Solvable(space) -> Nat] /\ store \cap Solvable(space) # {}
    BY <1>3, <1>5 DEF DistanceIsRight
  <2> QED
    BY <2>1, NearestNode
<1>7. a \in closed /\ a \notin space.goal
  BY <1>3, <1>4, <1>5 DEF QueuesCount
<1>8. PICK i \in DOMAIN space.succ[a] :
        space.succ[a][i] \in Solvable(space) /\ space.distance[space.succ[a][i]] < space.distance[a]
  BY <1>3, <1>7 DEF DistanceIsRight
<1> DEFINE s == space.succ[a][i]
<1>9. PICK b \in store : b = s \/ MakesRedundant(Policy(space, config.weak), space, b, s)
  <2>1. s \notin Elements(pending)
    BY <1>1 DEF Elements
  <2> QED
    BY <2>1, <1>5, <1>7, SameWords DEF Stands
<1>10. s \in Solvable(space) /\ space.distance[s] < space.distance[a]
  BY <1>8
<1> HIDE DEF s
<1>11. b \in Solvable(space) /\ space.distance[b] <= space.distance[s]
  <2>1. CASE b = s
    BY <2>1, <1>3, <1>10 DEF DistanceIsRight
  <2>2. CASE MakesRedundant(Policy(space, config.weak), space, b, s)
    BY <2>2, <1>1, <1>3, <1>10, RedundantIsNoNearer
  <2> QED
    BY <2>1, <2>2, <1>9
<1>12. /\ space.distance[a] \in Nat /\ space.distance[b] \in Nat /\ space.distance[s] \in Nat
       /\ space.distance[a] <= space.distance[b]
  BY <1>3, <1>6, <1>10, <1>11 DEF DistanceIsRight
<1> QED
  BY <1>10, <1>11, <1>12

-----------------------------------------------------------------------------
(* The deque searches.                                                       *)

(* What a search with one deque is called with.                              *)
LEMMA DequesTyped ==
  ASSUME DequesInv
  PROVE  /\ config.kind \in {"bfs", "dfs", "ehc"} /\ config.limit \in Nat \cup {-1} /\ ~ByQueues
         /\ WellFormed(space) /\ DistanceIsRight(space) /\ HeuristicIsSafe(space)
<1>1. space \in Spaces
  BY SearchesAssumption DEF DequesInv
<1>2. WellFormed(space) /\ DistanceIsRight(space) /\ HeuristicIsSafe(space)
  BY <1>1, SpaceFacts
<1>3. config.kind \in {"bfs", "dfs", "ehc"} /\ config.limit \in Nat \cup {-1} /\ ~ByQueues
  BY SearchesAssumption DEF DequesInv, D!ConfigsAssumption, D!NoLimit, ByQueues
<1> QED
  BY <1>2, <1>3

(* The item in hand has a depth.                                             *)
LEMMA DepthTyped ==
  ASSUME D!TypeOK
  PROVE  /\ current.depth \in Nat
         /\ \A x \in Elements(open) : x \in D!Item /\ x.node \in space.nodes /\ x.depth \in Nat
<1>1. current \in D!Item \cup {D!NoItem} /\ open \in Seq(D!Item)
  BY DEF D!TypeOK
<1>2. current.depth \in Nat
  BY <1>1 DEF D!Item, D!NoItem
<1>3. \A x \in Elements(open) : x \in D!Item
  <2> HIDE DEF D!Item
  <2> QED
    BY <1>1 DEF Elements
<1>4. \A x \in D!Item : x.node \in space.nodes /\ x.depth \in Nat
  BY DEF D!Item
<1> QED
  BY <1>2, <1>3, <1>4

(* A goal is nowhere nearer than itself, and only a goal is at no distance.  *)
LEMMA DistanceFacts ==
  ASSUME NEW sp, DistanceIsRight(sp), NEW a \in Solvable(sp)
  PROVE  /\ sp.distance[a] \in Nat
         /\ a \notin sp.goal => sp.distance[a] >= 1
         /\ a \in sp.goal => sp.distance[a] = 0
         /\ a \notin sp.goal =>
              \E s \in Elements(sp.succ[a]) : s \in Solvable(sp) /\ sp.distance[s] < sp.distance[a]
<1>1. sp.distance[a] \in Nat /\ (a \in sp.goal => sp.distance[a] = 0)
  BY DEF DistanceIsRight
<1>2. ASSUME a \notin sp.goal
      PROVE  /\ sp.distance[a] >= 1
             /\ \E s \in Elements(sp.succ[a]) : s \in Solvable(sp) /\ sp.distance[s] < sp.distance[a]
  <2>1. PICK i \in DOMAIN sp.succ[a] :
          sp.succ[a][i] \in Solvable(sp) /\ sp.distance[sp.succ[a][i]] < sp.distance[a]
    BY <1>2 DEF DistanceIsRight
  <2>2. sp.succ[a][i] \in Elements(sp.succ[a])
    BY DEF Elements
  <2>3. sp.distance[sp.succ[a][i]] \in Nat
    BY <2>1 DEF DistanceIsRight
  <2> QED
    BY <1>1, <2>1, <2>2, <2>3
<1> QED
  BY <1>1, <1>2

(* From the node before it a goal is at most one step further away.          *)
LEMMA OneStepFurther ==
  ASSUME NEW sp, DistanceIsRight(sp), NEW a \in sp.nodes, NEW s \in Elements(sp.succ[a]), s \in Solvable(sp)
  PROVE  a \in Solvable(sp) /\ sp.distance[a] <= 1 + sp.distance[s]
BY DEF DistanceIsRight, Elements

(* A call starts with nothing done.                                          *)
LEMMA DequesInit == D!Init => ~ByQueues /\ DequesInv
<1> SUFFICES ASSUME D!Init PROVE ~ByQueues /\ DequesInv
  OBVIOUS
<1>1. /\ space \in DequeSpaces /\ config \in DequeConfigs /\ ~ByQueues
      /\ config.limit \in Nat \cup {-1}
  BY SearchesAssumption DEF D!Init, ByQueues, D!ConfigsAssumption, D!NoLimit
<1>2. D!TypeOK
  BY DEF D!Init, D!TypeOK
<1>3. DequesFresh
  BY SameWords DEF D!Init, DequesFresh
<1>4. D!LimitIsExact
  BY <1>1 DEF D!Init, D!LimitIsExact, D!NoLimit
<1>5. DequesPending /\ DepthsAreReal /\ WayIsOpen /\ ShallowFirst /\ D!BreadthFirst
  BY DEF D!Init, DequesPending, DepthsAreReal, WayIsOpen, ShallowFirst, D!BreadthFirst
<1> QED
  BY <1>1, <1>2, <1>3, <1>4, <1>5 DEF DequesInv

(* The first step puts the root, and nothing else, on the open list.         *)
LEMMA DequesStart == DequesInv /\ D!Start => DequesInv'
<1> SUFFICES ASSUME DequesInv, D!Start PROVE DequesInv'
  OBVIOUS
<1> DEFINE item == [node |-> space.root, depth |-> 0]
<1>1. /\ status = "new" /\ base' = space.root
      /\ space' = space /\ config' = config /\ current' = current /\ pending' = pending
      /\ candidates' = candidates /\ store' = store /\ expanded' = expanded
  BY DEF D!Start
<1>2. /\ plan = NoNode /\ open = <<>> /\ current = D!NoItem /\ pending = <<>>
      /\ candidates = <<>> /\ store = {} /\ expanded = 0
  BY <1>1 DEF DequesInv, DequesFresh
<1>3. /\ WellFormed(space) /\ DistanceIsRight(space) /\ config.limit \in Nat \cup {-1} /\ D!TypeOK
  BY DequesTyped DEF DequesInv
<1>4. \/ space.root = NoNode /\ status' = "no plan" /\ plan' = plan /\ open' = open /\ best' = best
      \/ /\ space.root # NoNode /\ config.early /\ space.root \in space.goal
         /\ status' = "plan" /\ plan' = space.root /\ open' = open /\ best' = best
      \/ /\ space.root # NoNode /\ ~(config.early /\ space.root \in space.goal)
         /\ open' = <<item>> /\ plan' = plan
         /\ \/ status' = "no plan" /\ best' = best
            \/ status' = "running" /\ best' = best
            \/ status' = "running" /\ \E h \in space.priority[space.root] : h # Dead /\ best' = h
  BY SameWords DEF D!Start, D!Found, D!Prunes
<1>5. space.root # NoNode => space.root \in space.nodes /\ item \in D!Item
  <2>1. space.root # NoNode => space.root \in space.nodes
    BY <1>3 DEF WellFormed
  <2> QED
    BY <2>1 DEF D!Item
<1>6. item.node = space.root /\ item.depth = 0 /\ current.depth = 0
  BY <1>2 DEF D!NoItem
<1>7. Elements(<<item>>) = {item} /\ DOMAIN <<item>> = {1} /\ <<item>>[1] = item
      /\ Elements(<<>>) = {}
  BY DEF Elements
<1>8. space.root # NoNode => <<item>> \in Seq(D!Item)
  BY <1>5
<1> HIDE DEF item
<1>9. D!TypeOK'
  <2>1. best' \in Nat
    <3>1. CASE best' = best
      BY <3>1, <1>3 DEF D!TypeOK
    <3>2. CASE space.root # NoNode /\ \E h \in space.priority[space.root] : h # Dead /\ best' = h
      BY <3>2, <1>3, <1>5 DEF WellFormed
    <3> QED
      BY <3>1, <3>2, <1>4
  <2>2. /\ plan' \in space.nodes \cup {NoNode} /\ base' \in space.nodes \cup {NoNode}
        /\ status' \in {"new", "running", "plan", "no plan", "limit", "timeout"}
    BY <1>1, <1>2, <1>4, <1>5
  <2>3. open' \in Seq(D!Item) /\ D!Item' = D!Item
    <3>1. D!Item' = D!Item
      BY <1>1 DEF D!Item
    <3>2. open \in Seq(D!Item)
      BY <1>3 DEF D!TypeOK
    <3> QED
      BY <3>1, <3>2, <1>4, <1>8
  <2> QED
    BY <2>1, <2>2, <2>3, <1>1, <1>3, SameWords DEF D!TypeOK
<1>10. DequesFresh' /\ D!LimitIsExact'
  <2>1. status' # "new" /\ status' # "limit"
    BY <1>4
  <2> QED
    BY <2>1, <1>1, <1>2, <1>3 DEF DequesFresh, D!LimitIsExact, D!NoLimit
<1>11. D!BreadthFirst'
  <2> SUFFICES ASSUME status' = "plan" PROVE space.distance[space.root] = current.depth /\ plan' = space.root
    BY <1>1 DEF D!BreadthFirst
  <2>1. space.root \in space.goal /\ plan' = space.root
    BY <1>4
  <2> QED
    BY <2>1, <1>3, <1>6 DEF DistanceIsRight
<1>12. status' = "running" => space.root \in space.nodes /\ open' = <<item>>
                             /\ ~(config.early /\ space.root \in space.goal)
  BY <1>4, <1>5
<1>13. DequesPending'
  BY <1>1, <1>2, <1>6, <1>7, <1>12 DEF DequesPending
<1>14. DepthsAreReal' /\ WayIsOpen'
  <2> SUFFICES ASSUME status' = "running" PROVE DepthsAreReal' /\ WayIsOpen'
    BY DEF DepthsAreReal, WayIsOpen
  <2>1. space.root \in Solvable(space) => space.distance[space.root] \in Nat
    BY <1>3 DEF DistanceIsRight
  <2>2. DepthsAreReal'
    BY <2>1, <1>1, <1>2, <1>6, <1>7, <1>12 DEF DepthsAreReal, ReachedAt, Solvable
  <2>3. WayIsOpen'
    BY <2>1, <1>1, <1>2, <1>6, <1>7, <1>12 DEF WayIsOpen, OnTheWay, Solvable
  <2> QED
    BY <2>2, <2>3
<1>15. ShallowFirst'
  BY <1>1, <1>6, <1>7, <1>12 DEF ShallowFirst
<1> QED
  BY <1>1, <1>9, <1>10, <1>11, <1>13, <1>14, <1>15 DEF DequesInv

(* Ending the call moves nothing.                                            *)
LEMMA DequesGiveUp == DequesInv /\ (D!Timeout \/ D!LimitReached \/ D!Exhausted) => DequesInv'
<1> SUFFICES ASSUME DequesInv, D!Timeout \/ D!LimitReached \/ D!Exhausted PROVE DequesInv'
  OBVIOUS
<1>1. /\ UNCHANGED <<space, config, plan, open, current, pending, candidates, best, store, base, expanded>>
      /\ status' \in {"timeout", "no plan", "limit"}
      /\ status' = "limit" => D!AtLimit
  BY DEF D!Timeout, D!LimitReached, D!Exhausted
<1>2. D!TypeOK'
  BY <1>1 DEF DequesInv, D!TypeOK, D!Item
<1>3. DequesFresh' /\ DequesPending' /\ DepthsAreReal' /\ WayIsOpen' /\ ShallowFirst' /\ D!BreadthFirst'
  BY <1>1 DEF DequesFresh, DequesPending, DepthsAreReal, WayIsOpen, ShallowFirst, D!BreadthFirst
<1>4. D!LimitIsExact'
  <2>1. config.limit \in Nat \cup {-1} /\ expanded \in Nat
    BY DequesTyped DEF DequesInv, D!TypeOK
  <2>2. config.limit # -1 => expanded <= config.limit
    BY DEF DequesInv, D!LimitIsExact, D!NoLimit
  <2>3. D!AtLimit => expanded = config.limit
    BY <2>1, <2>2 DEF D!AtLimit, D!NoLimit
  <2>4. config' = config /\ expanded' = expanded
    BY <1>1
  <2> QED
    BY <1>1, <2>2, <2>3, <2>4 DEF D!LimitIsExact, D!NoLimit
<1> QED
  BY <1>1, <1>2, <1>3, <1>4 DEF DequesInv

(* Looking at an item: its successors are pending, one of them on the way if *)
(* the item was; and a goal in hand is one of least depth.                   *)
LEMMA DequesExpand == DequesInv /\ D!Expand => DequesInv'
<1> SUFFICES ASSUME DequesInv, D!Expand PROVE DequesInv'
  OBVIOUS
<1> DEFINE n == D!Position
           x == open[n]
<1>1. /\ status = "running" /\ pending = <<>> /\ candidates = <<>> /\ open # <<>> /\ ~D!AtLimit
      /\ current' = x /\ open' = D!RemoveAt(open, n) /\ expanded' = expanded + 1
      /\ space' = space /\ config' = config /\ candidates' = candidates /\ best' = best
      /\ base' = base
  BY DEF D!Expand, D!AtHead
<1>2. /\ store' = IF D!EHC THEN store \cup {x.node} ELSE store
      /\ \/ /\ ~config.early /\ x.node \in space.goal
            /\ status' = "plan" /\ plan' = x.node /\ pending' = pending
         \/ /\ config.early \/ x.node \notin space.goal
            /\ pending' = space.succ[x.node] /\ status' = status /\ plan' = plan
  BY DEF D!Expand, D!Closed, D!Found
<1>3. /\ WellFormed(space) /\ DistanceIsRight(space) /\ D!TypeOK /\ open \in Seq(D!Item)
      /\ config.limit \in Nat \cup {-1} /\ expanded \in Nat
  BY DequesTyped DEF DequesInv, D!TypeOK
<1>4. n \in DOMAIN open /\ (config.kind = "bfs" => n = 1)
  BY <1>1, <1>3 DEF D!Position
<1>5. /\ open' \in Seq(D!Item) /\ Len(open') = Len(open) - 1
      /\ \A j \in 1 .. Len(open) - 1 : open'[j] = IF j < n THEN open[j] ELSE open[j + 1]
  <2> HIDE DEF D!Item, n
  <2> QED
    BY <1>1, <1>3, <1>4, RemoveAtMoves
<1>6. Elements(open) = Elements(open') \cup {x}
  <2> HIDE DEF D!Item, n
  <2> QED
    BY <1>1, <1>3, <1>4, RemoveAtElements
<1>7. x \in D!Item /\ x.node \in space.nodes /\ x.depth \in Nat /\ current.depth \in Nat
  BY <1>3, <1>6, DepthTyped
<1>8. /\ config.early => space.root \notin space.goal /\ \A y \in Elements(open) : y.node \notin space.goal
      /\ space.root \in space.nodes /\ base \in space.nodes
  BY <1>1 DEF DequesInv, DequesPending
<1>9. /\ DepthsAreReal /\ WayIsOpen /\ ShallowFirst
  BY DEF DequesInv
<1>10. Elements(pending) = {}
  BY <1>1 DEF Elements
<1> HIDE DEF n, x
<1>11. status' = "running" => x.node \notin space.goal
  BY <1>2, <1>6, <1>8
<1>12. D!TypeOK'
  <2>1. D!Item' = D!Item
    BY <1>1 DEF D!Item
  <2>2. pending' \in Seq(space.nodes)
    <3>1. pending \in Seq(space.nodes) /\ space.succ[x.node] \in Seq(space.nodes)
      BY <1>3, <1>7 DEF WellFormed, D!TypeOK
    <3> QED
      BY <3>1, <1>2
  <2>3. /\ plan' \in space.nodes \cup {D!NoNode} /\ store' \subseteq space.nodes
        /\ status' \in {"new", "running", "plan", "no plan", "limit", "timeout"}
    BY <1>2, <1>3, <1>7 DEF D!TypeOK
  <2>4. current' \in D!Item' \cup {D!NoItem'} /\ open' \in Seq(D!Item')
    BY <2>1, <1>1, <1>5, <1>7
  <2>5. expanded' \in Nat
    BY <1>1, <1>3
  <2> QED
    BY <2>2, <2>3, <2>4, <2>5, <1>1, <1>3 DEF D!TypeOK
<1>13. DequesFresh' /\ D!LimitIsExact'
  <2>1. status' # "new" /\ status' # "limit"
    BY <1>1, <1>2
  <2>2. config.limit # -1 => expanded + 1 <= config.limit
    BY <1>1, <1>3 DEF D!AtLimit, D!NoLimit
  <2> QED
    BY <2>1, <2>2, <1>1 DEF DequesFresh, D!LimitIsExact, D!NoLimit
<1>14. DequesPending'
  <2> SUFFICES ASSUME status' = "running" PROVE DequesPending'
    BY DEF DequesPending
  <2>1. pending' = space.succ[x.node] /\ x.node \notin space.goal
    BY <1>2, <1>11
  <2>2. \A y \in Elements(open') : y \in Elements(open)
    BY <1>6
  <2>3. (\A a \in Elements(candidates') : a \notin space.goal) /\ candidates' = <<>>
    BY <1>1 DEF Elements
  <2> QED
    BY <2>1, <2>2, <2>3, <1>1, <1>7, <1>8 DEF DequesPending
<1>15. ~D!EHC => ReachedAt(x.node, x.depth) /\ \A y \in Elements(open') : ReachedAt(y.node, y.depth)
  BY <1>1, <1>6, <1>9 DEF DepthsAreReal
<1>16. DepthsAreReal'
  <2>1. D!EHC' = D!EHC
    BY <1>1 DEF D!EHC
  <2>2. \A a, d : ReachedAt(a, d)' = ReachedAt(a, d)
    BY <1>1 DEF ReachedAt, Solvable
  <2>3. current'.node = x.node /\ current'.depth = x.depth
    BY <1>1
  <2> QED
    BY <2>1, <2>2, <2>3, <1>15 DEF DepthsAreReal
<1>17. ASSUME ~D!EHC, space.root \in Solvable(space)
       PROVE  \E y \in Elements(open) : OnTheWay(y.node, y.depth)
  BY <1>1, <1>9, <1>10, <1>17 DEF WayIsOpen
<1>18. WayIsOpen'
  <2> SUFFICES ASSUME ~D!EHC, status' = "running", space.root \in Solvable(space)
               PROVE  \/ \E y \in Elements(open') : OnTheWay(y.node, y.depth)
                      \/ \E a \in Elements(pending') : OnTheWay(a, x.depth + 1)
    BY <1>1 DEF WayIsOpen, OnTheWay, Solvable, D!EHC
  <2>1. PICK y \in Elements(open) : OnTheWay(y.node, y.depth)
    BY <1>17
  <2>2. CASE y \in Elements(open')
    BY <2>1, <2>2
  <2>3. CASE y = x
    <3>1. /\ x.node \in Solvable(space)
          /\ x.depth + space.distance[x.node] <= space.distance[space.root]
      BY <2>1, <2>3 DEF OnTheWay
    <3>2. PICK s \in Elements(space.succ[x.node]) :
            s \in Solvable(space) /\ space.distance[s] < space.distance[x.node]
      BY <3>1, <1>3, <1>11, DistanceFacts
    <3>3. /\ space.distance[s] \in Nat /\ space.distance[x.node] \in Nat
          /\ space.distance[space.root] \in Nat
      BY <3>1, <3>2, <1>3, DistanceFacts
    <3>4. (x.depth + 1) + space.distance[s] <= space.distance[space.root]
      BY <3>1, <3>2, <3>3, <1>7
    <3>5. s \in Elements(pending')
      BY <3>2, <1>2, <1>11
    <3> QED
      BY <3>2, <3>4, <3>5 DEF OnTheWay
  <2> QED
    BY <2>1, <2>2, <2>3, <1>6
<1>19. ASSUME config.kind = "bfs"
       PROVE  /\ n = 1 /\ ~D!EHC /\ Len(open) \in Nat \ {0} /\ DOMAIN open = 1 .. Len(open)
              /\ x = open[1]
              /\ \A i \in DOMAIN open : open[i].depth \in Nat
              /\ \A i \in DOMAIN open : current.depth <= open[i].depth /\ open[i].depth <= current.depth + 1
              /\ \A i, j \in DOMAIN open : i <= j => open[i].depth <= open[j].depth
  <2>1. n = 1 /\ ~D!EHC
    BY <1>4, <1>19 DEF D!EHC
  <2>2. Len(open) \in Nat \ {0} /\ DOMAIN open = 1 .. Len(open)
    BY <1>1, <1>3
  <2>3. \A i \in DOMAIN open : open[i].depth \in Nat
    BY <1>3, DepthTyped DEF Elements
  <2>4. /\ \A i \in DOMAIN open : current.depth <= open[i].depth /\ open[i].depth <= current.depth + 1
        /\ \A i, j \in DOMAIN open : i <= j => open[i].depth <= open[j].depth
    BY <1>1, <1>9, <1>19 DEF ShallowFirst
  <2> QED
    BY <2>1, <2>2, <2>3, <2>4 DEF x
<1>20. ShallowFirst'
  <2> SUFFICES ASSUME config.kind = "bfs"
               PROVE  /\ \A i \in DOMAIN open' : x.depth <= open'[i].depth /\ open'[i].depth <= x.depth + 1
                      /\ \A i, j \in DOMAIN open' : i <= j => open'[i].depth <= open'[j].depth
    BY <1>1 DEF ShallowFirst
  <2>1. DOMAIN open' = 1 .. Len(open) - 1
    BY <1>5
  <2>2. \A i \in DOMAIN open' : i + 1 \in DOMAIN open /\ open'[i] = open[i + 1] /\ i \in Nat
    BY <2>1, <1>5, <1>19
  <2>3. \A i \in DOMAIN open' : x.depth <= open'[i].depth
    BY <2>2, <1>19
  <2>4. \A i \in DOMAIN open' : open'[i].depth <= x.depth + 1
    <3> SUFFICES ASSUME NEW i \in DOMAIN open' PROVE open'[i].depth <= x.depth + 1
      OBVIOUS
    <3>1. /\ open'[i].depth = open[i + 1].depth /\ open[i + 1].depth \in Nat
          /\ open[i + 1].depth <= current.depth + 1 /\ current.depth <= x.depth
      BY <2>2, <1>19
    <3> QED
      BY <3>1, <1>7
  <2>5. \A i, j \in DOMAIN open' : i <= j => open'[i].depth <= open'[j].depth
    BY <2>2, <1>19
  <2> QED
    BY <2>3, <2>4, <2>5
<1>21. D!BreadthFirst'
  <2> SUFFICES ASSUME config.kind = "bfs", status' = "plan"
               PROVE  ~config.early /\ space.distance[space.root] = x.depth
    BY <1>1 DEF D!BreadthFirst
  <2>1. ~config.early /\ x.node \in space.goal
    BY <1>1, <1>2
  <2>2. x.node \in Solvable(space) /\ space.distance[x.node] = 0
    BY <2>1, <1>3 DEF DistanceIsRight
  <2>3. space.root \in Solvable(space) /\ space.distance[space.root] <= x.depth + 0
    BY <2>2, <1>15, <1>19 DEF ReachedAt
  <2>4. PICK y \in Elements(open) : OnTheWay(y.node, y.depth)
    BY <2>3, <1>17, <1>19
  <2>5. PICK i \in DOMAIN open : y = open[i]
    BY DEF Elements
  <2>6. x.depth <= y.depth
    BY <2>5, <1>19
  <2>7. /\ y.node \in Solvable(space)
        /\ y.depth + space.distance[y.node] <= space.distance[space.root]
    BY <2>4 DEF OnTheWay
  <2>8. space.distance[y.node] \in Nat /\ space.distance[space.root] \in Nat /\ y.depth \in Nat
    BY <2>3, <2>5, <2>7, <1>3, <1>19, DistanceFacts
  <2>9. x.depth <= space.distance[space.root]
    BY <2>6, <2>7, <2>8, <1>7
  <2>10. space.distance[space.root] <= x.depth
    BY <2>3, <1>7
  <2> QED
    BY <2>1, <2>8, <2>9, <2>10, <1>7
<1> QED
  BY <1>1, <1>12, <1>13, <1>14, <1>16, <1>18, <1>20, <1>21 DEF DequesInv

(* Generating a successor: it joins what waits, one deeper than the item in  *)
(* hand; and a goal that is generated is one of least depth.                 *)
LEMMA DequesGenerate == DequesInv /\ D!Generate => DequesInv'
<1> SUFFICES ASSUME DequesInv, D!Generate PROVE DequesInv'
  OBVIOUS
<1> DEFINE a == Head(pending)
           rest == Tail(pending)
           c == current.node
           deep == current.depth + 1
           child == [node |-> a, depth |-> deep]
<1>1. /\ status = "running" /\ pending # <<>> /\ pending' = rest
      /\ space' = space /\ config' = config /\ current' = current /\ best' = best
      /\ store' = store /\ base' = base /\ expanded' = expanded
  BY DEF D!Generate
<1>2. \/ /\ config.early /\ a \in space.goal /\ status' = "plan" /\ plan' = a
         /\ open' = open /\ candidates' = candidates
      \/ /\ ~(config.early /\ a \in space.goal) /\ status' = status /\ plan' = plan
         /\ \/ ~D!EHC /\ open' = Append(open, child) /\ candidates' = candidates
            \/ /\ D!EHC /\ open' = open
               /\ candidates' = candidates \/ candidates' = Append(candidates, a)
  BY DEF D!Generate, D!Found, D!Child
<1>3. /\ WellFormed(space) /\ DistanceIsRight(space) /\ D!TypeOK /\ open \in Seq(D!Item)
      /\ candidates \in Seq(space.nodes) /\ current.depth \in Nat
  BY DequesTyped, DepthTyped DEF DequesInv, D!TypeOK
<1>4. /\ a \in space.nodes /\ rest \in Seq(space.nodes)
      /\ Elements(pending) = Elements(rest) \cup {a}
  BY <1>1, <1>3, TailElements DEF D!TypeOK
<1>5. child \in D!Item /\ child.node = a /\ child.depth = deep /\ deep \in Nat
  BY <1>3, <1>4 DEF D!Item
<1>6. /\ Append(open, child) \in Seq(D!Item)
      /\ Elements(Append(open, child)) = Elements(open) \cup {child}
  <2> HIDE DEF D!Item, child
  <2> QED
    BY <1>3, <1>5, AppendElements
<1>7. /\ Append(candidates, a) \in Seq(space.nodes)
      /\ Elements(Append(candidates, a)) = Elements(candidates) \cup {a}
  BY <1>3, <1>4, AppendElements
<1>8. /\ space.root \in space.nodes /\ base \in space.nodes
      /\ ~D!EHC => candidates = <<>>
      /\ config.early => /\ space.root \notin space.goal
                         /\ \A x \in Elements(open) : x.node \notin space.goal
                         /\ \A b \in Elements(candidates) : b \notin space.goal
      /\ c \in space.nodes /\ c \notin space.goal
      /\ Elements(pending) \subseteq Elements(space.succ[c])
  BY <1>1 DEF DequesInv, DequesPending
<1>9. DepthsAreReal /\ WayIsOpen /\ ShallowFirst
  BY DEF DequesInv
<1>10. D!EHC' = D!EHC /\ D!Item' = D!Item
       /\ (\A b, d : ReachedAt(b, d)' = ReachedAt(b, d)) /\ (\A b, d : OnTheWay(b, d)' = OnTheWay(b, d))
  BY <1>1 DEF D!EHC, D!Item, ReachedAt, OnTheWay, Solvable
<1>11. a \in Elements(space.succ[c])
  BY <1>4, <1>8
<1> HIDE DEF a, rest, c, child, deep
<1>12. D!TypeOK'
  <2>1. open' \in Seq(D!Item') /\ candidates' \in Seq(space.nodes)
    BY <1>2, <1>3, <1>6, <1>7, <1>10
  <2>2. /\ plan' \in space.nodes \cup {D!NoNode}
        /\ status' \in {"new", "running", "plan", "no plan", "limit", "timeout"}
    BY <1>2, <1>3, <1>4 DEF D!TypeOK
  <2>3. current' \in D!Item' \cup {D!NoItem'}
    BY <1>1, <1>3, <1>10 DEF D!TypeOK, D!NoItem
  <2> QED
    BY <2>1, <2>2, <2>3, <1>1, <1>3, <1>4 DEF D!TypeOK
<1>13. DequesFresh' /\ D!LimitIsExact'
  BY <1>1, <1>2 DEF DequesInv, DequesFresh, D!LimitIsExact, D!NoLimit
<1>14. DequesPending'
  <2> SUFFICES ASSUME status' = "running" PROVE DequesPending'
    BY DEF DequesPending
  <2>1. ~(config.early /\ a \in space.goal)
    BY <1>2
  <2>2. Elements(open') \subseteq Elements(open) \cup {child}
    BY <1>2, <1>6
  <2>3. Elements(candidates') \subseteq Elements(candidates) \cup {a} /\ (~D!EHC => candidates' = candidates)
    BY <1>2, <1>7
  <2>4. current'.node = c /\ Elements(pending') \subseteq Elements(space.succ[c])
    BY <1>1, <1>4, <1>8 DEF c
  <2> QED
    BY <2>1, <2>2, <2>3, <2>4, <1>1, <1>5, <1>8, <1>10 DEF DequesPending
<1>15. ASSUME ~D!EHC PROVE ReachedAt(c, current.depth) /\ ReachedAt(a, deep)
  <2>1. ReachedAt(c, current.depth)
    BY <1>1, <1>9, <1>15 DEF DepthsAreReal, c
  <2>2. ASSUME a \in Solvable(space)
        PROVE  space.root \in Solvable(space) /\ space.distance[space.root] <= deep + space.distance[a]
    <3>1. c \in Solvable(space) /\ space.distance[c] <= 1 + space.distance[a]
      BY <2>2, <1>3, <1>8, <1>11, OneStepFurther
    <3>2. space.root \in Solvable(space) /\ space.distance[space.root] <= current.depth + space.distance[c]
      BY <2>1, <3>1 DEF ReachedAt
    <3>3. /\ space.distance[c] \in Nat /\ space.distance[a] \in Nat
          /\ space.distance[space.root] \in Nat
      BY <2>2, <3>1, <3>2, <1>3, DistanceFacts
    <3> QED
      BY <3>1, <3>2, <3>3, <1>3 DEF deep
  <2> QED
    BY <2>1, <2>2 DEF ReachedAt
<1>16. DepthsAreReal'
  <2> SUFFICES ASSUME ~D!EHC, status' = "running" PROVE DepthsAreReal'
    BY <1>10 DEF DepthsAreReal
  <2>1. \A x \in Elements(open) : ReachedAt(x.node, x.depth)
    BY <1>1, <1>9 DEF DepthsAreReal
  <2>2. Elements(open') \subseteq Elements(open) \cup {child}
    BY <1>2, <1>6
  <2>3. \A x \in Elements(open') : ReachedAt(x.node, x.depth)
    BY <2>1, <2>2, <1>5, <1>15
  <2>4. ReachedAt(current'.node, current'.depth)
    BY <1>1, <1>15 DEF c
  <2> QED
    BY <2>3, <2>4, <1>10 DEF DepthsAreReal
<1>17. ASSUME ~D!EHC, space.root \in Solvable(space)
       PROVE  \/ \E x \in Elements(open) : OnTheWay(x.node, x.depth)
              \/ \E b \in Elements(pending) : OnTheWay(b, deep)
  BY <1>1, <1>9, <1>17 DEF WayIsOpen, deep
<1>18. WayIsOpen'
  <2> SUFFICES ASSUME ~D!EHC, status' = "running", space.root \in Solvable(space)
               PROVE  \/ \E x \in Elements(open') : OnTheWay(x.node, x.depth)
                      \/ \E b \in Elements(pending') : OnTheWay(b, deep)
    BY <1>1, <1>10 DEF WayIsOpen, deep
  <2>1. Elements(open') = Elements(open) \cup {child}
    BY <1>2, <1>6
  <2> QED
    BY <2>1, <1>1, <1>4, <1>5, <1>17
<1>19. ASSUME config.kind = "bfs"
       PROVE  /\ ~D!EHC
              /\ Len(open) \in Nat /\ DOMAIN open = 1 .. Len(open)
              /\ \A i \in DOMAIN open : open[i].depth \in Nat
              /\ \A i \in DOMAIN open : current.depth <= open[i].depth /\ open[i].depth <= deep
              /\ \A i, j \in DOMAIN open : i <= j => open[i].depth <= open[j].depth
  <2>1. ~D!EHC
    BY <1>19 DEF D!EHC
  <2>2. Len(open) \in Nat /\ DOMAIN open = 1 .. Len(open)
    BY <1>3
  <2>3. \A i \in DOMAIN open : open[i].depth \in Nat
    BY <1>3, DepthTyped DEF Elements
  <2>4. /\ \A i \in DOMAIN open : current.depth <= open[i].depth /\ open[i].depth <= deep
        /\ \A i, j \in DOMAIN open : i <= j => open[i].depth <= open[j].depth
    BY <1>1, <1>9, <1>19 DEF ShallowFirst, deep
  <2> QED
    BY <2>1, <2>2, <2>3, <2>4
<1>20. ShallowFirst'
  <2> SUFFICES ASSUME config.kind = "bfs", status' = "running"
               PROVE  /\ \A i \in DOMAIN open' : current.depth <= open'[i].depth /\ open'[i].depth <= deep
                      /\ \A i, j \in DOMAIN open' : i <= j => open'[i].depth <= open'[j].depth
    BY <1>1 DEF ShallowFirst, deep
  <2>1. /\ DOMAIN open' = 1 .. Len(open) + 1 /\ open'[Len(open) + 1] = child
        /\ \A i \in DOMAIN open : open'[i] = open[i]
    BY <1>2, <1>3, <1>5, <1>19
  <2>2. \A i \in DOMAIN open' : i \in DOMAIN open \/ i = Len(open) + 1
    BY <2>1, <1>19
  <2>3. current.depth <= deep
    BY <1>3 DEF deep
  <2>4. \A i \in DOMAIN open' : current.depth <= open'[i].depth /\ open'[i].depth <= deep
    BY <2>1, <2>2, <2>3, <1>5, <1>19
  <2>5. ASSUME NEW i \in DOMAIN open', NEW j \in DOMAIN open', i <= j
        PROVE  open'[i].depth <= open'[j].depth
    <3>1. CASE j = Len(open) + 1
      BY <3>1, <2>1, <2>4, <1>5
    <3>2. CASE j # Len(open) + 1
      <4>1. i \in DOMAIN open /\ j \in DOMAIN open
        BY <3>2, <2>1, <2>5, <1>19
      <4> QED
        BY <4>1, <2>1, <2>5, <1>19
    <3> QED
      BY <3>1, <3>2
  <2> QED
    BY <2>4, <2>5
<1>21. D!BreadthFirst'
  <2> SUFFICES ASSUME config.kind = "bfs", status' = "plan"
               PROVE  config.early /\ plan' # space.root /\ space.distance[space.root] = deep
    BY <1>1 DEF D!BreadthFirst, deep
  <2>1. config.early /\ a \in space.goal /\ plan' = a
    BY <1>1, <1>2
  <2>2. a \in Solvable(space) /\ space.distance[a] = 0
    BY <2>1, <1>3 DEF DistanceIsRight
  <2>3. space.root \in Solvable(space) /\ space.distance[space.root] <= deep + 0
    BY <2>2, <1>15, <1>19 DEF ReachedAt
  <2>4. space.distance[space.root] \in Nat
    BY <2>3, <1>3, DistanceFacts
  <2>5. deep <= space.distance[space.root]
    <3>1. CASE \E x \in Elements(open) : OnTheWay(x.node, x.depth)
      <4>1. PICK x \in Elements(open) : OnTheWay(x.node, x.depth)
        BY <3>1
      <4>2. PICK i \in DOMAIN open : x = open[i]
        BY DEF Elements
      <4>3. current.depth <= x.depth /\ x.depth \in Nat
        BY <4>2, <1>19
      <4>4. x.node \notin space.goal /\ x.node \in Solvable(space)
            /\ x.depth + space.distance[x.node] <= space.distance[space.root]
        BY <4>1, <2>1, <1>8 DEF OnTheWay
      <4>5. space.distance[x.node] >= 1 /\ space.distance[x.node] \in Nat
        BY <4>4, <1>3, DistanceFacts
      <4> QED
        BY <4>3, <4>4, <4>5, <2>4, <1>3 DEF deep
    <3>2. CASE \E b \in Elements(pending) : OnTheWay(b, deep)
      <4>1. PICK b \in Elements(pending) : OnTheWay(b, deep)
        BY <3>2
      <4>2. b \in Solvable(space) /\ deep + space.distance[b] <= space.distance[space.root]
        BY <4>1 DEF OnTheWay
      <4>3. space.distance[b] \in Nat
        BY <4>2, <1>3, DistanceFacts
      <4> QED
        BY <4>2, <4>3, <2>4, <1>5
    <3> QED
      BY <2>3, <3>1, <3>2, <1>17, <1>19
  <2>6. space.distance[space.root] <= deep
    BY <2>3, <1>5
  <2> QED
    BY <2>1, <2>4, <2>5, <2>6, <1>5, <1>8
<1> QED
  BY <1>1, <1>12, <1>13, <1>14, <1>16, <1>18, <1>20, <1>21 DEF DequesInv

(* What an evaluation does: start over from a better node, or move on.       *)
LEMMA Evaluated ==
  ASSUME DequesInv, D!Evaluate
  PROVE  /\ status = "running" /\ pending = <<>> /\ candidates # <<>> /\ D!EHC
         /\ space' = space /\ config' = config /\ status' = status /\ plan' = plan
         /\ current' = current /\ pending' = pending /\ expanded' = expanded
         /\ Head(candidates) \in space.nodes
         /\ Tail(candidates) \in Seq(space.nodes)
         /\ Elements(candidates) = Elements(Tail(candidates)) \cup {Head(candidates)}
         /\ D!Child(Head(candidates)) \in D!Item
         /\ D!Child(Head(candidates)).node = Head(candidates)
         /\ \/ /\ best' \in Nat /\ store' = {} /\ base' = Head(candidates)
               /\ open' = <<D!Child(Head(candidates))>> /\ candidates' = <<>>
            \/ /\ best' = best /\ store' = store /\ base' = base /\ candidates' = Tail(candidates)
               /\ \/ Dead \in space.priority[Head(candidates)] /\ open' = open
                  \/ open' = Append(open, D!Child(Head(candidates)))
<1> DEFINE a == Head(candidates)
<1>1. /\ status = "running" /\ pending = <<>> /\ candidates # <<>>
      /\ space' = space /\ config' = config /\ status' = status /\ plan' = plan
      /\ current' = current /\ pending' = pending /\ expanded' = expanded
  BY DEF D!Evaluate
<1>2. D!EHC
  BY <1>1 DEF DequesInv, DequesPending
<1>3. /\ WellFormed(space) /\ candidates \in Seq(space.nodes) /\ current.depth \in Nat
  BY DequesTyped, DepthTyped DEF DequesInv, D!TypeOK
<1>4. /\ a \in space.nodes /\ Tail(candidates) \in Seq(space.nodes)
      /\ Elements(candidates) = Elements(Tail(candidates)) \cup {a}
  BY <1>1, <1>3, TailElements
<1>5. D!Child(a) \in D!Item /\ D!Child(a).node = a
  BY <1>3, <1>4 DEF D!Child, D!Item
<1>6. PICK h \in space.priority[a] :
        IF ~D!Prunes(h) /\ D!Improves(h)
          THEN /\ best' = h /\ store' = {} /\ base' = a /\ open' = <<D!Child(a)>>
               /\ candidates' = <<>>
          ELSE /\ open' = IF D!Prunes(h) THEN open ELSE Append(open, D!Child(a))
               /\ candidates' = Tail(candidates)
               /\ best' = best /\ store' = store /\ base' = base
  BY DEF D!Evaluate, D!ClosedCleared
<1>7. h \in Nat \cup {Dead} /\ (D!Prunes(h) <=> h = Dead)
  BY <1>3, <1>4, SameWords DEF WellFormed, D!Prunes
<1> QED
  BY <1>1, <1>2, <1>4, <1>5, <1>6, <1>7

(* Hill climbing's evaluations.                                              *)
LEMMA DequesEvaluate == DequesInv /\ D!Evaluate => DequesInv'
<1> SUFFICES ASSUME DequesInv, D!Evaluate PROVE DequesInv'
  OBVIOUS
<1> DEFINE a == Head(candidates)
           child == D!Child(a)
<1>1. /\ status = "running" /\ pending = <<>> /\ candidates # <<>> /\ D!EHC
      /\ space' = space /\ config' = config /\ status' = status /\ plan' = plan
      /\ current' = current /\ pending' = pending /\ expanded' = expanded
      /\ a \in space.nodes /\ Tail(candidates) \in Seq(space.nodes)
      /\ Elements(candidates) = Elements(Tail(candidates)) \cup {a}
      /\ child \in D!Item /\ child.node = a
  BY Evaluated
<1>2. \/ /\ best' \in Nat /\ store' = {} /\ base' = a /\ open' = <<child>> /\ candidates' = <<>>
      \/ /\ best' = best /\ store' = store /\ base' = base /\ candidates' = Tail(candidates)
         /\ open' = open \/ open' = Append(open, child)
  BY Evaluated
<1>3. D!TypeOK /\ open \in Seq(D!Item)
  BY DEF DequesInv, D!TypeOK
<1> HIDE DEF a, child
<1>4. /\ open' \in Seq(D!Item) /\ Elements(open') \subseteq Elements(open) \cup {child}
  <2>1. <<child>> \in Seq(D!Item) /\ Elements(<<child>>) = {child}
    BY <1>1 DEF Elements
  <2>2. Append(open, child) \in Seq(D!Item) /\ Elements(Append(open, child)) = Elements(open) \cup {child}
    BY <1>1, <1>3, AppendElements
  <2> QED
    BY <2>1, <2>2, <1>2, <1>3
<1>5. candidates' \in Seq(space.nodes) /\ Elements(candidates') \subseteq Elements(candidates)
  <2>1. <<>> \in Seq(space.nodes) /\ Elements(<<>>) = {}
    BY DEF Elements
  <2> QED
    BY <2>1, <1>1, <1>2
<1>6. D!EHC' = D!EHC /\ D!Item' = D!Item /\ config'.kind # "bfs"
  BY <1>1 DEF D!EHC, D!Item
<1>7. D!TypeOK'
  <2>1. /\ best' \in Nat /\ store' \subseteq space.nodes /\ base' \in space.nodes \cup {D!NoNode}
    BY <1>1, <1>2, <1>3 DEF D!TypeOK
  <2>2. current' \in D!Item' \cup {D!NoItem'} /\ open' \in Seq(D!Item')
    BY <1>1, <1>3, <1>4, <1>6 DEF D!TypeOK, D!NoItem
  <2> QED
    BY <2>1, <2>2, <1>1, <1>3, <1>5 DEF D!TypeOK
<1>8. DequesFresh' /\ D!LimitIsExact'
  BY <1>1 DEF DequesInv, DequesFresh, D!LimitIsExact, D!NoLimit
<1>9. DequesPending'
  <2>1. /\ space.root \in space.nodes /\ base \in space.nodes
        /\ config.early => /\ space.root \notin space.goal
                           /\ \A x \in Elements(open) : x.node \notin space.goal
                           /\ \A b \in Elements(candidates) : b \notin space.goal
    BY <1>1 DEF DequesInv, DequesPending
  <2>2. base' \in space.nodes
    BY <2>1, <1>1, <1>2
  <2> QED
    BY <2>1, <2>2, <1>1, <1>4, <1>5, <1>6 DEF DequesPending
<1>10. DepthsAreReal' /\ WayIsOpen' /\ ShallowFirst' /\ D!BreadthFirst'
  BY <1>1, <1>6 DEF DepthsAreReal, WayIsOpen, ShallowFirst, D!BreadthFirst
<1> QED
  BY <1>1, <1>7, <1>8, <1>9, <1>10 DEF DequesInv

(* Every step of the deque searches.                                         *)
LEMMA DequesNext == DequesInv /\ D!Next => DequesInv'
BY DequesStart, DequesGiveUp, DequesExpand, DequesGenerate, DequesEvaluate DEF D!Next

-----------------------------------------------------------------------------
(* Hill climbing, where dedup is exact.                                      *)

(* What waits, in terms of the lists' elements.                              *)
LEMMA WhatWaits ==
  D!Waiting = {x.node : x \in Elements(open)} \cup Elements(candidates)
                \cup (IF pending # <<>> THEN {current.node} ELSE {})
BY DEF D!Waiting, Elements

(* Starting: the root waits.                                                 *)
LEMMA ClimbStart == DequesInv /\ D!Start => ClimbsOn'
<1> SUFFICES ASSUME DequesInv, D!Start, status' = "running" PROVE ClimbsOn'
  BY DEF ClimbsOn
<1>1. /\ base' = space.root /\ space' = space /\ pending' = <<>> /\ store' = {}
      /\ open' = <<[node |-> space.root, depth |-> 0]>>
  BY DEF DequesInv, DequesFresh, D!Start, D!Found
<1>2. space.root \in D!Waiting'
  BY <1>1 DEF D!Waiting
<1>3. space.root \in Solvable(space) => space.distance[space.root] \in Nat
  BY DequesTyped DEF DistanceIsRight
<1> QED
  BY <1>1, <1>2, <1>3 DEF ClimbsOn, Nearer, Solvable

(* Expanding: what was nearest is the node in hand, or waits still.          *)
LEMMA ClimbExpand == DequesInv /\ ClimbsOn /\ D!Expand => ClimbsOn'
<1> SUFFICES ASSUME DequesInv, ClimbsOn, D!Expand, D!EHC, D!Exact, status' = "running" PROVE ClimbsOn'
  BY DEF ClimbsOn, D!EHC, D!Exact, D!Expand
<1> DEFINE n == D!Position
           x == open[n]
<1>1. /\ status = "running" /\ pending = <<>> /\ candidates = <<>> /\ open # <<>>
      /\ current' = x /\ open' = D!RemoveAt(open, n) /\ candidates' = candidates
      /\ space' = space /\ base' = base /\ store' = store \cup {x.node}
      /\ pending' = space.succ[x.node] /\ (config.early \/ x.node \notin space.goal)
  BY DEF D!Expand, D!AtHead, D!Closed, D!Found
<1>2. /\ WellFormed(space) /\ DistanceIsRight(space) /\ D!TypeOK /\ open \in Seq(D!Item)
  BY DequesTyped DEF DequesInv, D!TypeOK
<1>3. n \in DOMAIN open
  BY <1>1, <1>2 DEF D!Position
<1>4. Elements(open) = Elements(open') \cup {x}
  <2> HIDE DEF D!Item, n
  <2> QED
    BY <1>1, <1>2, <1>3, RemoveAtElements
<1> HIDE DEF n, x
<1>5. x.node \in space.nodes /\ x.node \notin space.goal
  BY <1>1, <1>2, <1>4, DepthTyped DEF DequesInv, DequesPending
<1>6. ASSUME x.node \in Solvable(space) PROVE x.node \in D!Waiting'
  <2>1. \E s \in Elements(pending') : TRUE
    BY <1>1, <1>2, <1>5, <1>6, DistanceFacts
  <2>2. pending' # <<>>
    BY <2>1 DEF Elements
  <2> QED
    BY <2>2, <1>1 DEF D!Waiting
<1>7. ASSUME NEW w \in D!Waiting \cap Solvable(space) PROVE w \in D!Waiting'
  <2>1. PICK y \in Elements(open) : w = y.node
    BY <1>1, WhatWaits DEF Elements
  <2>2. CASE y = x
    BY <2>1, <2>2, <1>6
  <2>3. CASE y \in Elements(open')
    <3>1. D!Waiting' = {z.node : z \in Elements(open')} \cup Elements(candidates')
                         \cup (IF pending' # <<>> THEN {current'.node} ELSE {})
      BY DEF D!Waiting, Elements
    <3> QED
      BY <3>1, <2>1, <2>3
  <2> QED
    BY <2>2, <2>3, <1>4
<1>8. ASSUME NEW b \in (store' \cup {base}) \cap Solvable(space)
      PROVE  \E w \in D!Waiting' \cap Solvable(space) : space.distance[w] <= space.distance[b]
  <2>1. CASE b = x.node
    <3>1. space.distance[b] \in Nat
      BY <1>2, DistanceFacts
    <3> QED
      BY <2>1, <3>1, <1>6
  <2>2. CASE b \in store \cup {base}
    <3>1. Nearer(b)
      BY <2>2, <1>1 DEF ClimbsOn
    <3> QED
      BY <3>1, <1>7 DEF Nearer
  <2> QED
    BY <2>1, <2>2, <1>1
<1>9. \A s \in Elements(space.succ[current'.node]) : s \in Elements(pending')
  BY <1>1
<1> QED
  BY <1>1, <1>8, <1>9 DEF ClimbsOn, Nearer, Solvable

(* Generating: a successor that is dropped has one that stands for it; and   *)
(* once the last is generated, the nearest of what is left is among them or  *)
(* waits elsewhere.                                                          *)
LEMMA ClimbGenerate ==
  ASSUME DequesInv, ClimbsOn, D!Generate, DedupIsSound(space)
  PROVE  ClimbsOn'
<1> SUFFICES ASSUME D!EHC, D!Exact, status' = "running" PROVE ClimbsOn'
  BY DEF ClimbsOn, D!EHC, D!Exact, D!Generate
<1> DEFINE a == Head(pending)
           rest == Tail(pending)
           c == current.node
<1>1. /\ status = "running" /\ pending # <<>> /\ pending' = rest
      /\ space' = space /\ current' = current /\ store' = store /\ base' = base
      /\ open' = open
      /\ \/ D!Redundant(a) /\ candidates' = candidates
         \/ candidates' = Append(candidates, a)
  BY DEF D!Generate, D!Found
<1>2. /\ WellFormed(space) /\ DistanceIsRight(space) /\ D!TypeOK /\ store \subseteq space.nodes
      /\ candidates \in Seq(space.nodes) /\ pending \in Seq(space.nodes)
      /\ (config.weak => ~space.temporal)
  BY DequesTyped DEF DequesInv, D!TypeOK, D!Exact
<1>3. /\ a \in space.nodes /\ rest \in Seq(space.nodes)
      /\ Elements(pending) = Elements(rest) \cup {a}
  BY <1>1, <1>2, TailElements
<1>4. /\ Append(candidates, a) \in Seq(space.nodes)
      /\ Elements(Append(candidates, a)) = Elements(candidates) \cup {a}
  BY <1>2, <1>3, AppendElements
<1>5. c \in space.nodes /\ c \notin space.goal
  BY <1>1 DEF DequesInv, DequesPending
<1> HIDE DEF a, rest
<1>6. Elements(candidates) \subseteq Elements(candidates')
  BY <1>1, <1>4
<1>7. ASSUME NEW s \in Elements(space.succ[c]) \cap Solvable(space)
      PROVE  \/ s \in Elements(rest) \/ s \in Elements(candidates')
             \/ \E b \in store \cap Solvable(space) : space.distance[b] <= space.distance[s]
  <2>1. \/ s \in Elements(pending) \/ s \in Elements(candidates)
        \/ \E b \in store \cap Solvable(space) : space.distance[b] <= space.distance[s]
    BY <1>1 DEF ClimbsOn
  <2>2. CASE s = a
    <3>1. CASE D!Redundant(a)
      <4>1. PICK b \in store : MakesRedundant(Policy(space, config.weak), space, b, a)
        BY <3>1, SameWords DEF D!Redundant
      <4> QED
        BY <4>1, <2>2, <1>2, RedundantIsNoNearer
    <3>2. CASE candidates' = Append(candidates, a)
      BY <3>2, <2>2, <1>4
    <3> QED
      BY <3>1, <3>2, <1>1
  <2> QED
    BY <2>1, <2>2, <1>3, <1>6
<1>8. D!Waiting' = {x.node : x \in Elements(open)} \cup Elements(candidates')
                     \cup (IF rest # <<>> THEN {c} ELSE {})
  BY <1>1 DEF D!Waiting, Elements
<1>9. D!Waiting \subseteq D!Waiting' \cup {c}
  BY <1>1, <1>6, <1>8, WhatWaits
<1> HIDE DEF c
<1>10. ASSUME NEW b \in (store \cup {base}) \cap Solvable(space)
       PROVE  \E w \in D!Waiting' \cap Solvable(space) : space.distance[w] <= space.distance[b]
  <2>1. PICK w \in D!Waiting \cap Solvable(space) : space.distance[w] <= space.distance[b]
    BY <1>1 DEF ClimbsOn, Nearer
  <2>2. CASE w \in D!Waiting'
    BY <2>1, <2>2
  <2>3. CASE w = c /\ rest = <<>>
    <3>1. PICK s \in Elements(space.succ[c]) :
            s \in Solvable(space) /\ space.distance[s] < space.distance[c]
      BY <2>3, <1>2, <1>5, DistanceFacts
    <3>2. /\ space.distance[s] \in Nat /\ space.distance[c] \in Nat /\ space.distance[b] \in Nat
      BY <2>3, <3>1, <1>2, DistanceFacts
    <3>3. s \notin Elements(rest)
      BY <2>3 DEF Elements
    <3>4. CASE s \in Elements(candidates')
      <4>1. s \in D!Waiting' /\ space.distance[s] <= space.distance[b]
        BY <3>1, <3>2, <3>4, <2>1, <2>3, <1>8
      <4> QED
        BY <4>1, <3>1
    <3>5. CASE \E d \in store \cap Solvable(space) : space.distance[d] <= space.distance[s]
      <4>1. PICK d \in store \cap Solvable(space) : space.distance[d] <= space.distance[s]
        BY <3>5
      <4>2. PICK v \in D!Waiting \cap Solvable(space) : space.distance[v] <= space.distance[d]
        BY <4>1, <1>1 DEF ClimbsOn, Nearer
      <4>3. space.distance[v] \in Nat /\ space.distance[d] \in Nat
        BY <4>1, <4>2, <1>2, DistanceFacts
      <4>4. space.distance[v] < space.distance[c]
        BY <4>1, <4>2, <4>3, <3>1, <3>2
      <4>5. v # c
        BY <4>4, <3>2
      <4>6. v \in D!Waiting'
        BY <4>2, <4>5, <1>9
      <4>7. space.distance[v] <= space.distance[b]
        BY <4>4, <4>3, <3>2, <2>1, <2>3
      <4> QED
        BY <4>2, <4>6, <4>7
    <3> QED
      BY <3>1, <3>3, <3>4, <3>5, <1>7
  <2> QED
    BY <2>1, <2>2, <2>3, <1>8, <1>9
<1>11. current'.node = c /\ pending' = rest
  BY <1>1 DEF c
<1> QED
  BY <1>1, <1>7, <1>10, <1>11 DEF ClimbsOn, Nearer, Solvable

(* Evaluating: a node that is called a dead end was no way to a goal, and a  *)
(* better one is where the search is then committed to.                      *)
LEMMA ClimbEvaluate == DequesInv /\ ClimbsOn /\ D!Evaluate => ClimbsOn'
<1> SUFFICES ASSUME DequesInv, ClimbsOn, D!Evaluate, D!Exact PROVE ClimbsOn'
  BY DEF ClimbsOn, D!Exact, D!EHC, D!Evaluate
<1> DEFINE a == Head(candidates)
           child == D!Child(a)
<1>1. /\ status = "running" /\ pending = <<>> /\ candidates # <<>> /\ D!EHC
      /\ space' = space /\ pending' = pending
      /\ a \in space.nodes
      /\ Elements(candidates) = Elements(Tail(candidates)) \cup {a}
      /\ child \in D!Item /\ child.node = a
  BY Evaluated
<1>2. \/ /\ store' = {} /\ base' = a /\ open' = <<child>> /\ candidates' = <<>>
      \/ /\ store' = store /\ base' = base /\ candidates' = Tail(candidates)
         /\ \/ Dead \in space.priority[a] /\ open' = open
            \/ open' = Append(open, child)
  BY Evaluated
<1>3. D!TypeOK /\ open \in Seq(D!Item) /\ DistanceIsRight(space) /\ HeuristicIsSafe(space)
  BY DequesTyped DEF DequesInv, D!TypeOK
<1>4. D!Waiting' = {x.node : x \in Elements(open')} \cup Elements(candidates')
  BY <1>1 DEF D!Waiting, Elements
<1>5. D!Waiting = {x.node : x \in Elements(open)} \cup Elements(candidates)
  BY <1>1, WhatWaits
<1> HIDE DEF a, child
<1>6. CASE store' = {} /\ base' = a /\ open' = <<child>> /\ candidates' = <<>>
  <2>1. a \in D!Waiting'
    BY <1>1, <1>4, <1>6 DEF Elements
  <2>2. a \in Solvable(space) => space.distance[a] \in Nat
    BY <1>3, DistanceFacts
  <2> QED
    BY <2>1, <2>2, <1>1, <1>6 DEF ClimbsOn, Nearer, Solvable
<1>7. CASE /\ store' = store /\ base' = base /\ candidates' = Tail(candidates)
           /\ \/ Dead \in space.priority[a] /\ open' = open
              \/ open' = Append(open, child)
  <2>1. ASSUME NEW w \in D!Waiting \cap Solvable(space) PROVE w \in D!Waiting'
    <3>1. CASE Dead \in space.priority[a] /\ open' = open
      <4>1. w # a
        BY <3>1, <1>3 DEF HeuristicIsSafe
      <4> QED
        BY <4>1, <3>1, <1>1, <1>4, <1>5, <1>7
    <3>2. CASE open' = Append(open, child)
      <4>1. Elements(open') = Elements(open) \cup {child}
        BY <3>2, <1>1, <1>3, AppendElements
      <4> QED
        BY <4>1, <1>1, <1>4, <1>5, <1>7
    <3> QED
      BY <3>1, <3>2, <1>7
  <2>2. \A b \in (store \cup {base}) \cap Solvable(space) :
          \E w \in D!Waiting' \cap Solvable(space) : space.distance[w] <= space.distance[b]
    BY <2>1, <1>1 DEF ClimbsOn, Nearer
  <2> QED
    BY <2>2, <1>1, <1>7 DEF ClimbsOn, Nearer, Solvable
<1> QED
  BY <1>2, <1>6, <1>7

(* Breadth-first and depth-first search give up only when nothing is open,   *)
(* hill climbing when its start is called a dead end or nothing waits.       *)
LEMMA DequesGiveUpRightly ==
  ASSUME DequesInv, ClimbsOn, D!Next, status' = "no plan"
  PROVE  D!GivesUpRightly'
<1>1. WellFormed(space) /\ DistanceIsRight(space) /\ HeuristicIsSafe(space)
  BY DequesTyped
<1>2. status \in {"new", "running"}
  BY DEF D!Next, D!Start, D!Timeout, D!LimitReached, D!Exhausted, D!Expand, D!Generate, D!Evaluate, D!AtHead
<1>3. CASE D!Start
  <2>1. space' = space /\ config' = config /\ base' = space.root
    BY <1>3 DEF D!Start
  <2>2. space.root = NoNode \/ Dead \in space.priority[space.root]
    BY <1>3, SameWords DEF D!Start, D!Found, D!Prunes
  <2>3. space.root \notin Solvable(space)
    BY <2>2, <1>1 DEF WellFormed, DistanceIsRight, HeuristicIsSafe
  <2> QED
    BY <2>1, <2>3, SameWords DEF D!GivesUpRightly, D!Solvable, Solvable
<1>4. CASE D!Exhausted
  <2>1. /\ space' = space /\ config' = config /\ base' = base /\ status = "running"
        /\ pending = <<>> /\ candidates = <<>> /\ open = <<>>
    BY <1>4 DEF D!Exhausted, D!AtHead
  <2>2. Elements(pending) = {} /\ Elements(candidates) = {} /\ Elements(open) = {}
    <3>1. pending \in Seq(space.nodes) /\ candidates \in Seq(space.nodes) /\ open \in Seq(D!Item)
      BY DEF DequesInv, D!TypeOK
    <3> QED
      BY <3>1, <2>1, NoElements
  <2>3. ASSUME ~D!EHC PROVE space.root \notin Solvable(space)
    BY <2>1, <2>3, <2>2 DEF DequesInv, WayIsOpen
  <2>4. ASSUME D!EHC, D!Exact PROVE base \notin Solvable(space)
    <3>1. D!Waiting = {}
      BY <2>1, <2>2, WhatWaits
    <3> QED
      BY <2>1, <2>4, <3>1 DEF ClimbsOn, Nearer
  <2>5. D!EHC' = D!EHC /\ D!Exact' = D!Exact
    BY <2>1 DEF D!EHC, D!Exact
  <2> QED
    BY <2>1, <2>3, <2>4, <2>5 DEF D!GivesUpRightly, D!Solvable, Solvable
<1>5. CASE D!Timeout \/ D!LimitReached
  BY <1>5 DEF D!Timeout, D!LimitReached
<1>6. CASE D!Expand \/ D!Generate \/ D!Evaluate
  BY <1>6 DEF D!Expand, D!Generate, D!Evaluate, D!AtHead, D!Found
<1> QED
  BY <1>3, <1>4, <1>5, <1>6 DEF D!Next

-----------------------------------------------------------------------------
(* The two together.                                                         *)

(* A call stays the call it is.                                              *)
LEMMA SameCall == Q!Next \/ D!Next => space' = space /\ config' = config
<1>1. Q!Next => space' = space /\ config' = config
  BY DEF Q!Next, Q!Start, Q!Timeout, Q!Exhausted, Q!Skip, Q!LimitReached, Q!Expand, Q!Generate, Q!Fill
<1>2. D!Next => space' = space /\ config' = config
  BY DEF D!Next, D!Start, D!Timeout, D!LimitReached, D!Exhausted, D!Expand, D!Generate, D!Evaluate
<1> QED
  BY <1>1, <1>2

(* Every search starts in the invariant.                                     *)
LEMMA InitIInv == Init => IInv
BY QueuesInit, DequesInit DEF Init, IInv

(* A step that changes nothing.                                              *)
LEMMA StutterIInv == IInv /\ UNCHANGED vars => IInv'
<1> SUFFICES ASSUME IInv, UNCHANGED vars PROVE IInv'
  OBVIOUS
<1>1. /\ space' = space /\ config' = config /\ status' = status /\ plan' = plan /\ pending' = pending
      /\ candidates' = candidates /\ store' = store /\ expanded' = expanded /\ opens' = opens
      /\ filled' = filled /\ closed' = closed /\ open' = open /\ current' = current /\ best' = best
      /\ base' = base
  BY DEF vars, ofQueues, ofDeques
<1>2. CASE ByQueues
  <2>1. QueuesInv
    BY <1>2 DEF IInv
  <2>2. Q!TypeOK' /\ QueuesFresh' /\ QueuesCount' /\ Q!LimitIsExact'
    BY <2>1, <1>1 DEF QueuesInv, Q!TypeOK, QueuesFresh, QueuesCount, Q!LimitIsExact, Q!Queues
  <2>3. QueuesAccount' /\ Q!EveryQueueHoldsThePlans'
    BY <2>1, <1>1 DEF QueuesInv, QueuesAccount, Q!EveryQueueHoldsThePlans, Q!Queues, Q!Solvable, Elements, Stands,
                      Q!MakesRedundant, Q!Policy, Q!Rule, Q!Dominates
  <2> QED
    BY <2>1, <2>2, <2>3, <1>1, <1>2 DEF IInv, QueuesInv, ByQueues
<1>3. CASE ~ByQueues
  <2>1. DequesInv
    BY <1>3 DEF IInv
  <2>2. D!TypeOK'
    BY <2>1, <1>1 DEF DequesInv, D!TypeOK, D!Item
  <2>3. DequesFresh' /\ DequesPending' /\ ShallowFirst' /\ D!LimitIsExact' /\ D!BreadthFirst'
    BY <2>1, <1>1 DEF DequesInv, DequesFresh, DequesPending, ShallowFirst, D!LimitIsExact, D!BreadthFirst,
                      Elements, D!EHC
  <2>4. DepthsAreReal' /\ WayIsOpen'
    BY <2>1, <1>1 DEF DequesInv, DepthsAreReal, WayIsOpen, Elements, D!EHC, ReachedAt, OnTheWay, Solvable
  <2> QED
    BY <2>1, <2>2, <2>3, <2>4, <1>1, <1>3 DEF IInv, DequesInv, ByQueues
<1> QED
  BY <1>2, <1>3

(* Every step keeps it.                                                      *)
LEMMA NextIInv == IInv /\ [Next]_vars => IInv'
<1>1. IInv /\ QueueStep => IInv'
  BY QueuesNext, SameCall DEF QueueStep, IInv, ByQueues
<1>2. IInv /\ DequeStep => IInv'
  BY DequesNext, SameCall DEF DequeStep, IInv, ByQueues
<1> QED
  BY <1>1, <1>2, StutterIInv DEF Next

(* Before the first step nothing was claimed and hill climbing is nowhere.   *)
LEMMA InitSound == Init => SoundInv
BY DEF Init, Q!Init, D!Init, SoundInv, NoPlanMeansNone, Q!NoPlanMeansNone, D!GivesUpRightly, ClimbsOn

(* Every step keeps the ways open and claims no more than is so.             *)
LEMMA NextSound ==
  ASSUME \A sp \in QueueSpaces \cup DequeSpaces : DedupIsSound(sp),
         IInv, SoundInv, [Next]_vars
  PROVE  SoundInv'
<1>1. CASE QueueStep
  <2>1. QueuesInv /\ ByQueues /\ Q!Next /\ space' = space /\ config' = config /\ ByQueues'
    BY <1>1, SameCall DEF IInv, QueueStep, ByQueues
  <2>2. DedupIsSound(space)
    BY <2>1 DEF QueuesInv
  <2>3. CASE status' = "no plan" /\ Q!Exact
    <3>1. CASE Q!Exhausted
      <4>1. space.root \notin Solvable(space)
        BY <2>1, <2>2, <2>3, <3>1, QueuesGiveUpRightly
      <4> QED
        BY <4>1, <2>1 DEF SoundInv, NoPlanMeansNone, Q!NoPlanMeansNone, Q!Solvable, Solvable
    <3>2. CASE Q!Start
      <4>1. space.root = NoNode
        BY <3>2, <2>3, SameWords DEF Q!Start, Q!Found
      <4>2. space.root \notin Solvable(space)
        BY <4>1, <2>1, QueuesTyped DEF WellFormed, DistanceIsRight
      <4> QED
        BY <4>2, <2>1 DEF SoundInv, NoPlanMeansNone, Q!NoPlanMeansNone, Q!Solvable, Solvable
    <3>3. CASE Q!Timeout \/ Q!LimitReached
      BY <3>3, <2>3 DEF Q!Timeout, Q!LimitReached
    <3>4. CASE Q!Skip \/ Q!Expand \/ Q!Generate \/ Q!Fill
      BY <3>4, <2>3 DEF Q!Skip, Q!Expand, Q!Generate, Q!Fill, Q!AtHead, Q!Found
    <3> QED
      BY <2>1, <3>1, <3>2, <3>3, <3>4 DEF Q!Next
  <2>4. CASE ~(status' = "no plan" /\ Q!Exact)
    <3>1. Q!Exact' = Q!Exact
      BY <2>1 DEF Q!Exact
    <3> QED
      BY <2>1, <2>4, <3>1 DEF SoundInv, NoPlanMeansNone, Q!NoPlanMeansNone
  <2> QED
    BY <2>3, <2>4
<1>2. CASE DequeStep
  <2>1. DequesInv /\ ~ByQueues /\ D!Next /\ space' = space /\ config' = config /\ ~ByQueues' /\ ClimbsOn
    BY <1>2, SameCall DEF IInv, DequeStep, ByQueues, SoundInv
  <2>2. DedupIsSound(space)
    BY <2>1 DEF DequesInv
  <2>3. ClimbsOn'
    <3>1. CASE D!Timeout \/ D!LimitReached \/ D!Exhausted
      BY <3>1 DEF D!Timeout, D!LimitReached, D!Exhausted, ClimbsOn
    <3> QED
      BY <2>1, <2>2, <3>1, ClimbStart, ClimbExpand, ClimbGenerate, ClimbEvaluate DEF D!Next
  <2>4. D!GivesUpRightly'
    <3>1. CASE status' = "no plan"
      BY <2>1, <3>1, DequesGiveUpRightly
    <3>2. CASE status' # "no plan"
      BY <3>2 DEF D!GivesUpRightly
    <3> QED
      BY <3>1, <3>2
  <2> QED
    BY <2>1, <2>3, <2>4 DEF SoundInv, NoPlanMeansNone
<1>3. CASE UNCHANGED vars
  <2>1. /\ space' = space /\ config' = config /\ status' = status /\ pending' = pending
        /\ candidates' = candidates /\ store' = store /\ open' = open /\ current' = current
        /\ base' = base
    BY <1>3 DEF vars, ofDeques
  <2>2. NoPlanMeansNone'
    BY <2>1 DEF SoundInv, NoPlanMeansNone, Q!NoPlanMeansNone, D!GivesUpRightly, Q!Exact, D!Exact, D!EHC,
                Q!Solvable, D!Solvable, ByQueues
  <2>3. ~ByQueues' => ClimbsOn'
    BY <2>1 DEF SoundInv, ClimbsOn, Nearer, D!Waiting, D!EHC, D!Exact, Solvable, Elements, ByQueues
  <2> QED
    BY <2>2, <2>3 DEF SoundInv
<1> QED
  BY <1>1, <1>2, <1>3 DEF Next

-----------------------------------------------------------------------------
(* What is proved of every call, for every space and configuration.          *)

(* The invariant behind the rest.                                            *)
THEOREM Invariance == Spec => []IInv
<1>1. Init => IInv
  BY InitIInv
<1>2. IInv /\ [Next]_vars => IInv'
  BY NextIInv
<1> QED
  BY <1>1, <1>2, PTL DEF Spec

(* The searches never expand more states than they may, none twice, and say  *)
(* they stopped at the limit only there (_multiqueue_search, _basic_search   *)
(* and ehc_search).                                                          *)
THEOREM LimitHolds == Spec => []LimitIsExact
<1>1. IInv => LimitIsExact
  <2> SUFFICES ASSUME IInv PROVE LimitIsExact
    OBVIOUS
  <2>1. CASE ByQueues
    <3>1. Q!TypeOK /\ Q!LimitIsExact /\ QueuesCount
      BY <2>1 DEF IInv, QueuesInv
    <3>2. Q!ExpandedOnce
      <4>1. Q!Cardinality(closed) = Cardinality(closed)
        BY DEF Q!Cardinality, Cardinality
      <4> QED
        BY <3>1, <4>1 DEF QueuesCount, Q!ExpandedOnce
    <3> QED
      BY <3>1, <3>2, <2>1 DEF LimitIsExact
  <2>2. CASE ~ByQueues
    BY <2>2 DEF IInv, LimitIsExact, DequesInv
  <2> QED
    BY <2>1, <2>2
<1> QED
  BY <1>1, Invariance, PTL

(* The goal breadth-first search returns is one of least depth, whether it   *)
(* is looked for when a state is expanded or when it is generated            *)
(* (_basic_search).                                                          *)
THEOREM ShortestFirst == Spec => []BreadthFirst
<1>1. IInv => BreadthFirst
  BY DEF IInv, BreadthFirst, DequesInv
<1> QED
  BY <1>1, Invariance, PTL

(* Every queue served by a built-in heuristic holds every state on the way   *)
(* to a goal that is not expanded; and, if dedup takes only states from      *)
(* which nothing new is reached, hill climbing never drops all the ways from *)
(* where it started over (_multiqueue_search and ehc_search).                *)
THEOREM WaysAreKept ==
  ASSUME \A sp \in QueueSpaces \cup DequeSpaces : DedupIsSound(sp)
  PROVE  Spec => []WaysStayOpen
<1>1. IInv /\ SoundInv => WaysStayOpen
  <2> SUFFICES ASSUME IInv, SoundInv PROVE WaysStayOpen
    OBVIOUS
  <2>1. CASE ByQueues
    BY <2>1 DEF IInv, QueuesInv, WaysStayOpen
  <2>2. CASE ~ByQueues
    BY <2>2 DEF SoundInv, ClimbsOn, Nearer, WaysStayOpen, D!ClosedAreLeft, D!Solvable, Solvable
  <2> QED
    BY <2>1, <2>2
<1>2. Init => SoundInv
  BY InitSound
<1>3. IInv /\ SoundInv /\ [Next]_vars => SoundInv'
  BY NextSound
<1> QED
  BY <1>1, <1>2, <1>3, Invariance, PTL DEF Spec

(* If dedup takes only states from which nothing new is reached, "no plan"   *)
(* means that there is none: for round-robin search with built-in            *)
(* heuristics, for breadth-first and depth-first search, and for hill        *)
(* climbing from where it started over.                                      *)
THEOREM NoPlanIsRight ==
  ASSUME \A sp \in QueueSpaces \cup DequeSpaces : DedupIsSound(sp)
  PROVE  Spec => []NoPlanMeansNone
<1>1. SoundInv => NoPlanMeansNone
  BY DEF SoundInv
<1>2. Init => SoundInv
  BY InitSound
<1>3. IInv /\ SoundInv /\ [Next]_vars => SoundInv'
  BY NextSound
<1> QED
  BY <1>1, <1>2, <1>3, Invariance, PTL DEF Spec
=============================================================================
