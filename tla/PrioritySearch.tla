--------------------------- MODULE PrioritySearch ---------------------------
(****************************************************************************)
(* The loop every priority-queue search runs (`_priority_search`): weighted  *)
(* A*, A*, greedy best-first and novelty search, each plain or memory        *)
(* bounded, with the stores that keep it from expanding a state twice.       *)
(****************************************************************************)
EXTENDS SearchSpaces, FiniteSetsExt, SequencesExt

CONSTANTS
  Configs     \* how a search may be called

NoLimit == -1
NoBound == -1

(* "bound must be positive" (search.py:153). *)
ASSUME ConfigsAssumption ==
  \A c \in Configs :
    /\ c.limit \in Nat \cup {NoLimit}
    /\ c.bound \in (Nat \ {0}) \cup {NoBound}

-----------------------------------------------------------------------------
VARIABLES
  space,       \* the space being searched; never changes
  config,      \* how the search was called; never changes
  status,      \* "idle", "new", "running", or how the call ended
  plan,        \* the node whose path is returned, if one is
  open,        \* the open list, in insertion order
  pending,     \* the successors still to be generated for the node expanded last
  candidates,  \* the generated successors still to be evaluated
  store,       \* VisitedStates or _BloomDedup: the keys and the makespans recorded
  expanded,    \* how many nodes were expanded
  (* History of the search, read by the properties only:                     *)
  accepted,    \* the nodes the store let through
  closed,      \* the nodes expanded
  lost         \* the nodes a full open list or a false positive dropped

vars == <<space, config, status, plan, open, pending, candidates, store, expanded,
          accepted, closed, lost>>
history == <<accepted, closed, lost>>

MyPolicy == Policy(space, config.weak)

(* PrioritizedItem.__lt__: fewer actions in progress, then the order of      *)
(* insertion, break ties. The last one is the position in `open`.            *)
Less(x, y) ==
  \/ x.priority < y.priority
  \/ x.priority = y.priority /\ space.todo[x.node] < space.todo[y.node]
Least(items) ==
  CHOOSE i \in DOMAIN items :
    \A j \in DOMAIN items : Less(items[i], items[j]) \/ (i <= j /\ ~Less(items[j], items[i]))
Greatest(items) ==
  CHOOSE i \in DOMAIN items :
    \A j \in DOMAIN items : Less(items[j], items[i]) \/ (j <= i /\ ~Less(items[i], items[j]))

-----------------------------------------------------------------------------
(* The stores. A Bloom filter keeps no makespans, so _BloomDedup dedups only *)
(* by equality.                                                              *)
InStoreAnyTime(a) ==
  CASE Rule(MyPolicy, space, a) = "equal" -> space.key[a] \in store.seen
    [] Rule(MyPolicy, space, a) = "dominance" ->
         ~config.bloom /\ space.key[a] \in DOMAIN store.makespans
    [] OTHER -> FALSE
InStore(a) ==
  CASE Rule(MyPolicy, space, a) = "equal" -> space.key[a] \in store.seen
    [] Rule(MyPolicy, space, a) = "dominance" ->
         /\ ~config.bloom
         /\ space.key[a] \in DOMAIN store.makespans
         /\ Dominates(space, store.makespans[space.key[a]], space.makespan[a])
    [] OTHER -> FALSE

FalsePositive(a) ==
  /\ config.bloom
  /\ Rule(MyPolicy, space, a) = "equal"
  /\ store.seen # {}
  /\ space.key[a] \notin store.seen

Recorded(a) ==
  IF Rule(MyPolicy, space, a) = "equal" THEN [store EXCEPT !.seen = @ \cup {space.key[a]}]
  ELSE IF /\ Rule(MyPolicy, space, a) = "dominance"
          /\ ~config.bloom
          /\ space.key[a] \in DOMAIN store.makespans => space.makespan[a] < store.makespans[space.key[a]]
    THEN [store EXCEPT !.makespans =
            [k \in DOMAIN @ \cup {space.key[a]} |-> IF k = space.key[a] THEN space.makespan[a] ELSE @[k]]]
  ELSE store

-----------------------------------------------------------------------------
NotCalled == [called |-> FALSE]

Init ==
  /\ space = NotCalled
  /\ config = NotCalled
  /\ status = "idle"
  /\ plan = NoNode
  /\ open = <<>>
  /\ pending = <<>>
  /\ candidates = <<>>
  /\ store = [seen |-> {}, makespans |-> <<>>]
  /\ expanded = 0
  /\ accepted = {} /\ closed = {} /\ lost = {}

(* A search is called. *)
Call ==
  /\ status = "idle"
  /\ space' \in Spaces
  /\ config' \in Configs
  /\ status' = "new"
  /\ UNCHANGED <<plan, open, pending, candidates, store, expanded, history>>

Found(a) ==
  /\ status' = "plan"
  /\ plan' = a

(* The initial state seeds the store; nothing asks the answer.               *)
Start ==
  /\ status = "new"
  /\ IF space.root = NoNode
       THEN /\ status' = "no plan"
            /\ UNCHANGED <<plan, open, store, accepted>>
       ELSE /\ store' = Recorded(space.root)
            /\ accepted' = {space.root}
            /\ IF config.early /\ space.root \in space.goal
                 THEN Found(space.root) /\ UNCHANGED open
                 ELSE /\ \E p \in space.priority[space.root] :
                           IF p = Dead
                             THEN status' = "no plan" /\ UNCHANGED open
                             ELSE status' = "running" /\ open' = <<[node |-> space.root, priority |-> p]>>
                      /\ UNCHANGED plan
  /\ UNCHANGED <<space, config, pending, candidates, expanded, closed, lost>>

(* The head of the loop.                                                     *)
HeadWithWork == status = "running" /\ pending = <<>> /\ candidates = <<>> /\ open # <<>>
AtHead == status = "running" /\ pending = <<>> /\ candidates = <<>>

Timeout ==
  /\ AtHead /\ config.timeout /\ open # <<>>
  /\ status' = "timeout"
  /\ UNCHANGED <<space, config, plan, open, pending, candidates, store, expanded, history>>

PastLimit == config.limit # NoLimit /\ expanded > config.limit
AtLimit == config.limit # NoLimit /\ expanded >= config.limit

LimitReached ==
  /\ AtHead /\ open # <<>> /\ AtLimit
  /\ status' = "limit"
  /\ UNCHANGED <<space, config, plan, open, pending, candidates, store, expanded, history>>

Exhausted ==
  /\ AtHead /\ open = <<>>
  /\ status' = "no plan"
  /\ UNCHANGED <<space, config, plan, open, pending, candidates, store, expanded, history>>

Expand ==
  /\ AtHead /\ open # <<>> /\ ~AtLimit
  /\ LET i == Least(open)
         a == open[i].node
     IN  /\ open' = RemoveAt(open, i)
         /\ closed' = closed \cup {a}
         /\ IF ~config.early /\ a \in space.goal
              THEN Found(a) /\ UNCHANGED pending
              ELSE pending' = space.succ[a] /\ UNCHANGED <<status, plan>>
  /\ expanded' = expanded + 1
  /\ UNCHANGED <<space, config, candidates, store, accepted, lost>>

(* The next successor the generator yields.                                  *)
Generate ==
  /\ status = "running" /\ pending # <<>>
  /\ pending' = Tail(pending)
  /\ LET a == Head(pending)
     IN  \/ /\ config.early /\ a \in space.goal
            /\ Found(a)
            /\ UNCHANGED <<candidates, store, accepted, lost>>
         \/ /\ ~(config.early /\ a \in space.goal)
            /\ ~InStore(a)
            /\ store' = Recorded(a)
            /\ candidates' = Append(candidates, a)
            /\ accepted' = accepted \cup {a}
            /\ UNCHANGED <<status, plan, lost>>
         \/ /\ ~(config.early /\ a \in space.goal)
            /\ InStore(a)
            /\ UNCHANGED <<status, plan, candidates, store, accepted, lost>>
         \/ /\ ~(config.early /\ a \in space.goal)
            /\ FalsePositive(a)
            /\ lost' = lost \cup {a}
            /\ UNCHANGED <<status, plan, candidates, store, accepted>>
  /\ UNCHANGED <<space, config, open, expanded, closed>>

(* A full open list keeps the smallest items.                                *)
PushEvictingLeast(x) ==
  IF config.bound = NoBound \/ Len(open) < config.bound
    THEN open' = Append(open, x) /\ UNCHANGED lost
  ELSE LET i == Least(open)
       IN  open' = Append(RemoveAt(open, i), x) /\ lost' = lost \cup {open[i].node}
Push(x) ==
  IF config.bound = NoBound \/ Len(open) < config.bound
    THEN open' = Append(open, x) /\ UNCHANGED lost
  ELSE LET i == Greatest(open)
       IN  IF Less(x, open[i])
             THEN open' = Append(RemoveAt(open, i), x) /\ lost' = lost \cup {open[i].node}
             ELSE lost' = lost \cup {x.node} /\ UNCHANGED open

EvaluateUntilDeadEnd ==
  /\ status = "running" /\ pending = <<>> /\ candidates # <<>>
  /\ \E p \in space.priority[Head(candidates)] :
       IF p = Dead THEN candidates' = <<>> /\ UNCHANGED <<open, lost>>
       ELSE candidates' = Tail(candidates) /\ Push([node |-> Head(candidates), priority |-> p])
  /\ UNCHANGED <<space, config, status, plan, pending, store, expanded, accepted, closed>>
Evaluate ==
  /\ status = "running" /\ pending = <<>> /\ candidates # <<>>
  /\ candidates' = Tail(candidates)
  /\ \E p \in space.priority[Head(candidates)] :
       IF p = Dead THEN UNCHANGED <<open, lost>>
       ELSE Push([node |-> Head(candidates), priority |-> p])
  /\ UNCHANGED <<space, config, status, plan, pending, store, expanded, accepted, closed>>

Step == Start \/ Timeout \/ LimitReached \/ Exhausted \/ Expand \/ Generate \/ Evaluate

Next == Call \/ Step

(* Once called, nothing but the search runs, and it never waits. *)
Fairness == WF_vars(Step)
Spec == Init /\ [][Next]_vars /\ Fairness
-----------------------------------------------------------------------------
Item == [node : space.nodes, priority : Nat]

TypeOK ==
  /\ status \in {"idle", "new", "running", "plan", "no plan", "limit", "timeout"}
  /\ status # "idle" =>
       /\ config \in Configs
       /\ plan \in space.nodes \cup {NoNode}
       /\ open \in Seq(Item)
       /\ pending \in Seq(space.nodes)
       /\ candidates \in Seq(space.nodes)
       /\ DOMAIN store = {"seen", "makespans"}
       /\ store.seen \subseteq {space.key[a] : a \in space.nodes}
       /\ DOMAIN store.makespans \subseteq {space.key[a] : a \in space.nodes}
       /\ expanded \in Nat
       /\ accepted \subseteq space.nodes /\ closed \subseteq space.nodes /\ lost \subseteq space.nodes

(* What the dedup policies are documented to rely on (search.py:188-213,     *)
(* 284-297): pruning a state loses no plan, because any continuation of it   *)
(* can be scheduled from the recorded one, with a deadline or a timed window *)
(* once the recorded one is epsilon ahead.                                   *)
DedupLosesNoPlan == status = "new" => DedupIsSound(space)

(* A search that is not asked to conflate states that only look alike is     *)
(* right when it says that there is no plan, although it prunes generated    *)
(* states by a store it fills as it goes, unless a full open list or a false *)
(* positive cost it a state (search.py:386-387, 945-946).                    *)
Exact == config.weak => ~space.temporal
NoPlanMeansNone ==
  status = "no plan" /\ Exact /\ lost = {} => space.root \notin Solvable(space)

(* Why: whatever the store let through waits somewhere, is a dead end, or    *)
(* was expanded, and every successor of an expanded node is still to come or *)
(* stands accepted itself or through one that makes it redundant.            *)
Waiting == {open[i].node : i \in DOMAIN open} \cup {candidates[i] : i \in DOMAIN candidates}
AcceptedWait ==
  \A a \in accepted \cap Solvable(space) : a \in closed \cup Waiting \cup lost
StandsFor(b) ==
  \E a \in accepted : a = b \/ MakesRedundant(MyPolicy, space, a, b)
SuccessorsStand ==
  \A a \in closed : \A i \in DOMAIN space.succ[a] :
    LET b == space.succ[a][i]
    IN  b \in lost \/ StandsFor(b) \/ \E j \in DOMAIN pending : pending[j] = b
StoreIsOfAccepted ==
  /\ \A k \in store.seen : \E a \in accepted : space.key[a] = k /\ Rule(MyPolicy, space, a) = "equal"
  /\ \A k \in DOMAIN store.makespans : \E a \in accepted :
       /\ space.key[a] = k
       /\ Rule(MyPolicy, space, a) = "dominance"
       /\ space.makespan[a] = store.makespans[k]
NoGoalYet == (IF config.early THEN accepted ELSE closed) \cap space.goal = {}
Accounted ==
  status \notin {"idle", "new"} =>
    /\ StoreIsOfAccepted
    /\ closed \cup Waiting \subseteq accepted
    /\ space.root # NoNode => space.root \in accepted
    /\ status = "no plan" => Waiting = {} /\ pending = <<>>
    /\ status # "plan" => AcceptedWait /\ SuccessorsStand /\ NoGoalYet

(* No goal state is passed over: the first one expanded, or generated when   *)
(* the search terminates early, is the one returned.                         *)
GoalsAreReturned ==
  status # "idle" => (IF config.early THEN accepted ELSE closed) \cap space.goal \subseteq {plan}

(* "Raised by a search once it has expanded `max_expanded_states` states"    *)
(* (search.py:38-40): exactly then, and never while there is nothing left to *)
(* expand, which is an answer.                                               *)
LimitIsExact ==
  /\ status # "idle" /\ config.limit # NoLimit => expanded <= config.limit
  /\ status = "limit" => expanded = config.limit /\ open # <<>>
(* A full open list "keeps only the `bound` smallest items" (search.py:147). *)
KeepsTheSmallest ==
  [][Len(open') = Len(open) =>
       \A i \in DOMAIN open : open[i] \notin {open'[j] : j \in DOMAIN open'}
         => \A j \in DOMAIN open' : ~Less(open[i], open'[j])]_vars

(* In a finite space a search that was called ends, cycles or not.           *)
Ends == status = "new" ~> status \notin {"new", "running"}
=============================================================================
