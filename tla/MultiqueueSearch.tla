-------------------------- MODULE MultiqueueSearch --------------------------
(****************************************************************************)
(* `_multiqueue_search` with the round-robin policy: one open list per       *)
(* heuristic, each of which is given every state that is let through. The    *)
(* items of a state share its `expanded` flag. The store (VisitedStates) is  *)
(* the set of the states it let through.                                     *)
(****************************************************************************)
EXTENDS SearchSpaces, FiniteSetsExt

CONSTANTS
  Configs     \* how the search may be called: queues, custom, early, limit,
              \* timeout, weak

NoLimit == -1

(* At least one queue; a user's own heuristics serve some of them.           *)
ConfigsAssumption ==
  \A c \in Configs :
    /\ c.queues \in Nat \ {0}
    /\ c.custom \subseteq 1 .. c.queues
    /\ c.limit \in Nat \cup {NoLimit}

VARIABLES
  space,       \* the space being searched; never changes
  config,      \* how the search was called; never changes
  status,      \* "new", "running", or how the call ended
  plan,        \* the node whose path is returned, if one is
  opens,       \* the open lists, as sets: ties are broken by the heap's layout
  pending,     \* the successors still to be generated for the node expanded last
  candidates,  \* the generated successors the queues are to be given
  filled,      \* the queues that have evaluated the candidates
  closed,      \* the nodes whose containers are marked expanded
  store,       \* the nodes the store let through
  expanded     \* states_expanded

vars == <<space, config, status, plan, opens, pending, candidates, filled, closed, store, expanded>>

Queues == 1 .. config.queues
Redundant(a) == \E b \in store : MakesRedundant(Policy(space, config.weak), space, b, a)

(* PrioritizedItem.__lt__                                                    *)
Less(x, y) ==
  \/ x.priority < y.priority
  \/ x.priority = y.priority /\ space.todo[x.node] < space.todo[y.node]

(* Only a custom heuristic may call a node a dead end that is none.          *)
Answers(q, a) == space.priority[a] \cup (IF q \in config.custom THEN {Dead} ELSE {})

-----------------------------------------------------------------------------
Init ==
  /\ space \in Spaces
  /\ config \in Configs
  /\ status = "new"
  /\ plan = NoNode
  /\ opens = [q \in Queues |-> {}]
  /\ pending = <<>>
  /\ candidates = {}
  /\ filled = Queues
  /\ closed = {}
  /\ store = {}
  /\ expanded = 0

Found(a) == status' = "plan" /\ plan' = a

(* The initial state goes to every queue, and no heuristic is asked.         *)
Start ==
  /\ status = "new"
  /\ IF space.root = NoNode
       THEN status' = "no plan" /\ UNCHANGED <<plan, opens, store>>
       ELSE /\ store' = {space.root}
            /\ IF config.early /\ space.root \in space.goal
                 THEN Found(space.root) /\ UNCHANGED opens
                 ELSE /\ status' = "running"
                      /\ opens' = [q \in Queues |-> {[node |-> space.root, priority |-> 0]}]
                      /\ UNCHANGED plan
  /\ UNCHANGED <<space, config, pending, candidates, filled, closed, expanded>>

AtHead == status = "running" /\ pending = <<>> /\ filled = Queues

Timeout ==
  /\ AtHead /\ config.timeout
  /\ status' = "timeout"
  /\ UNCHANGED <<space, config, plan, opens, pending, candidates, filled, closed, store, expanded>>

(* One empty queue ends the search.                                          *)
SomeEmpty == \E q \in Queues : opens[q] = {}
Exhausted ==
  /\ AtHead /\ SomeEmpty
  /\ status' = "no plan"
  /\ UNCHANGED <<space, config, plan, opens, pending, candidates, filled, closed, store, expanded>>

(* RoundRobinSwitchPolicy: the turn passes with an expansion, not a pop.     *)
Turn == 1 + (expanded % config.queues)
Tops(q) == {x \in opens[q] : \A y \in opens[q] : ~Less(y, x)}
Popped(x) ==
  /\ AtHead /\ ~SomeEmpty
  /\ x \in Tops(Turn)
  /\ opens' = [opens EXCEPT ![Turn] = @ \ {x}]

(* What another queue expanded is passed over.                               *)
Peek ==
  /\ AtHead /\ ~SomeEmpty
  /\ \E x \in Tops(Turn) : x.node \in closed
  /\ UNCHANGED vars
Skip ==
  /\ AtHead /\ ~SomeEmpty
  /\ \E x \in Tops(Turn) : Popped(x) /\ x.node \in closed
  /\ UNCHANGED <<space, config, status, plan, pending, candidates, filled, closed, store, expanded>>

AtLimit == config.limit # NoLimit /\ expanded >= config.limit

(* The limit is tested once an unexpanded state is in hand.                  *)
LimitReached ==
  /\ AtHead /\ ~SomeEmpty /\ AtLimit
  /\ \E x \in Tops(Turn) : Popped(x) /\ x.node \notin closed
  /\ status' = "limit"
  /\ UNCHANGED <<space, config, plan, pending, candidates, filled, closed, store, expanded>>

ExpandAgain ==
  /\ AtHead /\ ~SomeEmpty /\ ~AtLimit
  /\ \E x \in Tops(Turn) :
       /\ Popped(x)
       /\ closed' = closed \cup {x.node}
       /\ IF ~config.early /\ x.node \in space.goal
            THEN Found(x.node) /\ UNCHANGED <<pending, filled>>
            ELSE pending' = space.succ[x.node] /\ filled' = {} /\ UNCHANGED <<status, plan>>
  /\ expanded' = expanded + 1
  /\ candidates' = {}
  /\ UNCHANGED <<space, config, store>>
Expand ==
  /\ AtHead /\ ~SomeEmpty /\ ~AtLimit
  /\ \E x \in Tops(Turn) :
       /\ Popped(x) /\ x.node \notin closed
       /\ closed' = closed \cup {x.node}
       /\ IF ~config.early /\ x.node \in space.goal
            THEN Found(x.node) /\ UNCHANGED <<pending, filled>>
            ELSE pending' = space.succ[x.node] /\ filled' = {} /\ UNCHANGED <<status, plan>>
  /\ expanded' = expanded + 1
  /\ candidates' = {}
  /\ UNCHANGED <<space, config, store>>

Generate ==
  /\ status = "running" /\ pending # <<>>
  /\ pending' = Tail(pending)
  /\ LET a == Head(pending)
     IN  IF config.early /\ a \in space.goal
           THEN Found(a) /\ UNCHANGED <<candidates, store>>
           ELSE /\ IF Redundant(a) THEN UNCHANGED <<candidates, store>>
                   ELSE candidates' = candidates \cup {a} /\ store' = store \cup {a}
                /\ UNCHANGED <<status, plan>>
  /\ UNCHANGED <<space, config, opens, filled, closed, expanded>>

(* The next queue evaluates all candidates and is given those that are no    *)
(* dead ends.                                                                *)
NextQueue == Min(Queues \ filled)
FillSplitting ==
  /\ status = "running" /\ pending = <<>> /\ filled # Queues
  /\ filled' = filled \cup {NextQueue}
  /\ \E p \in [candidates -> UNION {Answers(NextQueue, a) : a \in candidates}] :
       /\ \A a \in candidates : p[a] \in Answers(NextQueue, a)
       /\ opens' = [opens EXCEPT ![NextQueue] =
                      @ \cup {[node |-> a, priority |-> p[a]] : a \in {b \in candidates : p[b] # Dead}}]
       /\ candidates' = {a \in candidates : p[a] = Dead}
  /\ UNCHANGED <<space, config, status, plan, pending, closed, store, expanded>>
Fill ==
  /\ status = "running" /\ pending = <<>> /\ filled # Queues
  /\ filled' = filled \cup {NextQueue}
  /\ \E p \in [candidates -> UNION {Answers(NextQueue, a) : a \in candidates}] :
       /\ \A a \in candidates : p[a] \in Answers(NextQueue, a)
       /\ opens' = [opens EXCEPT ![NextQueue] =
                      @ \cup {[node |-> a, priority |-> p[a]] : a \in {b \in candidates : p[b] # Dead}}]
  /\ UNCHANGED <<space, config, status, plan, pending, candidates, closed, store, expanded>>

Next == Start \/ Timeout \/ Exhausted \/ Skip \/ LimitReached \/ Expand \/ Generate \/ Fill

(* Nothing but the search runs, and it never waits.                          *)
Spec == Init /\ [][Next]_vars /\ WF_vars(Next)

-----------------------------------------------------------------------------
TypeOK ==
  /\ status \in {"new", "running", "plan", "no plan", "limit", "timeout"}
  /\ plan \in space.nodes \cup {NoNode}
  /\ opens \in [Queues -> SUBSET [node : space.nodes, priority : Nat]]
  /\ pending \in Seq(space.nodes)
  /\ candidates \subseteq space.nodes /\ closed \subseteq space.nodes /\ store \subseteq space.nodes
  /\ filled \subseteq Queues
  /\ expanded \in Nat

(* "`multiqueue_search` stops as soon as any queue runs empty"               *)
(* (engine.py:1163): with no custom heuristic among the queues that is still *)
(* a proof that no plan exists, whatever the other queues hold.              *)
Exact == (config.weak => ~space.temporal) /\ config.custom = {}
NoPlanMeansNone ==
  status = "no plan" /\ Exact => space.root \notin Solvable(space)

(* Why: a queue served by a built-in heuristic holds every state that was    *)
(* let through, can reach the goal and is not expanded yet, however many of  *)
(* its items were used up for states the other queues expanded.              *)
EveryQueueHoldsThePlans ==
  status = "running" =>
    \A q \in Queues \ config.custom :
      \A a \in store \cap Solvable(space) :
        \/ a \in closed
        \/ a \in candidates /\ q \notin filled
        \/ (pending # <<>> /\ a \in candidates)
        \/ \E x \in opens[q] : x.node = a

(* A state waits in every queue, and is expanded from one of them only:      *)
(* "marked as expanded in all other queues" (multiqueue.py:75).              *)
ExpandedOnce == expanded = Cardinality(closed) /\ closed \subseteq store

(* The limit counts expansions, not pops, and is exact (search.py:38-40).    *)
LimitIsExact ==
  /\ config.limit # NoLimit => expanded <= config.limit
  /\ status = "limit" => expanded = config.limit /\ \E a \in store : a \notin closed
=============================================================================
