---------------------------- MODULE DequeSearch -----------------------------
(****************************************************************************)
(* The searches whose open list is a plain deque: breadth-first, depth-first *)
(* (`_basic_search`, no dedup and no heuristic) and enforced hill climbing   *)
(* (`ehc_search`). Hill climbing is breadth-first from one node until a      *)
(* better one turns up; then it forgets everything and starts over from it.  *)
(****************************************************************************)
EXTENDS SearchSpaces, SequencesExt

CONSTANTS
  Configs     \* how a search may be called: kind, early, limit, timeout, weak

NoLimit == -1

ConfigsAssumption ==
  \A c \in Configs : c.kind \in {"bfs", "dfs", "ehc"} /\ c.limit \in Nat \cup {NoLimit}

VARIABLES
  space,       \* the space being searched; never changes
  config,      \* how the search was called; never changes
  status,      \* "new", "running", or how the call ended
  plan,        \* the node whose path is returned, if one is
  open,        \* the open list: [node, depth], the depth read by properties only
  current,     \* the item expanded last
  pending,     \* the successors of current still to be generated
  candidates,  \* the successors hill climbing has still to evaluate
  best,        \* best_h
  store,       \* the nodes expanded since hill climbing last started over
  base,        \* the node it last started over from, read by properties only
  expanded     \* how many items were expanded

vars == <<space, config, status, plan, open, current, pending, candidates, best, store, base, expanded>>

EHC == config.kind = "ehc"
NoItem == [node |-> NoNode, depth |-> 0]
Redundant(a) == \E b \in store : MakesRedundant(Policy(space, config.weak), space, b, a)

Init ==
  /\ space \in Spaces
  /\ config \in Configs
  /\ config.kind = "ehc" \/ space.acyclic
  /\ status = "new"
  /\ plan = NoNode
  /\ open = <<>>
  /\ current = NoItem
  /\ pending = <<>>
  /\ candidates = <<>>
  /\ best = 0
  /\ store = {}
  /\ base = NoNode
  /\ expanded = 0

Found(a) == status' = "plan" /\ plan' = a

(* A heuristic that returns None calls the node a dead end.                  *)
Prunes(h) == h = Dead

Start ==
  /\ status = "new"
  /\ base' = space.root
  /\ IF space.root = NoNode
       THEN status' = "no plan" /\ UNCHANGED <<plan, open, best>>
     ELSE IF config.early /\ space.root \in space.goal
       THEN Found(space.root) /\ UNCHANGED <<open, best>>
     ELSE /\ open' = <<[node |-> space.root, depth |-> 0]>>
          /\ IF EHC
               THEN \E h \in space.priority[space.root] :
                      IF Prunes(h) THEN status' = "no plan" /\ UNCHANGED best
                      ELSE status' = "running" /\ best' = h
               ELSE status' = "running" /\ UNCHANGED best
          /\ UNCHANGED plan
  /\ UNCHANGED <<space, config, current, pending, candidates, store, expanded>>

AtHead == status = "running" /\ pending = <<>> /\ candidates = <<>>

Timeout ==
  /\ AtHead /\ config.timeout /\ open # <<>>
  /\ status' = "timeout"
  /\ UNCHANGED <<space, config, plan, open, current, pending, candidates, best, store, base, expanded>>

AtLimit == config.limit # NoLimit /\ expanded >= config.limit

LimitReached ==
  /\ AtHead /\ open # <<>> /\ AtLimit
  /\ status' = "limit"
  /\ UNCHANGED <<space, config, plan, open, current, pending, candidates, best, store, base, expanded>>

Exhausted ==
  /\ AtHead /\ open = <<>>
  /\ status' = "no plan"
  /\ UNCHANGED <<space, config, plan, open, current, pending, candidates, best, store, base, expanded>>

(* Depth-first search takes the newest item, the others the oldest.          *)
Newest == Len(open)
Position == IF config.kind = "dfs" THEN Len(open) ELSE 1

(* closed.insert(state), which is what _basic_search leaves out.             *)
Closed(a) == IF EHC THEN store \cup {a} ELSE store

Expand ==
  /\ AtHead /\ open # <<>> /\ ~AtLimit
  /\ current' = open[Position]
  /\ open' = RemoveAt(open, Position)
  /\ expanded' = expanded + 1
  /\ LET a == open[Position].node
     IN  /\ store' = Closed(a)
         /\ IF ~config.early /\ a \in space.goal
              THEN Found(a) /\ UNCHANGED pending
              ELSE pending' = space.succ[a] /\ UNCHANGED <<status, plan>>
  /\ UNCHANGED <<space, config, candidates, best, base>>

Child(a) == [node |-> a, depth |-> current.depth + 1]
Generate ==
  /\ status = "running" /\ pending # <<>>
  /\ pending' = Tail(pending)
  /\ LET a == Head(pending)
     IN  IF config.early /\ a \in space.goal
           THEN Found(a) /\ UNCHANGED <<open, candidates>>
         ELSE /\ IF ~EHC THEN open' = Append(open, Child(a)) /\ UNCHANGED candidates
                 ELSE IF Redundant(a) THEN UNCHANGED <<open, candidates>>
                 ELSE candidates' = Append(candidates, a) /\ UNCHANGED open
              /\ UNCHANGED <<status, plan>>
  /\ UNCHANGED <<space, config, current, best, store, base, expanded>>

(* A better node ends the evaluation of its siblings: they, the open and the *)
(* closed list are dropped.                                                  *)
Improves(h) == h < best
ClosedKept == store
ClosedCleared == {}
Evaluate ==
  /\ status = "running" /\ pending = <<>> /\ candidates # <<>>
  /\ LET a == Head(candidates)
     IN  \E h \in space.priority[a] :
           IF ~Prunes(h) /\ Improves(h)
             THEN /\ best' = h
                  /\ store' = ClosedCleared
                  /\ base' = a
                  /\ open' = <<Child(a)>>
                  /\ candidates' = <<>>
             ELSE /\ open' = IF Prunes(h) THEN open ELSE Append(open, Child(a))
                  /\ candidates' = Tail(candidates)
                  /\ UNCHANGED <<best, store, base>>
  /\ UNCHANGED <<space, config, status, plan, current, pending, expanded>>

Next == Start \/ Timeout \/ LimitReached \/ Exhausted \/ Expand \/ Generate \/ Evaluate

(* Nothing but the search runs, and it never waits.                          *)
Spec == Init /\ [][Next]_vars /\ WF_vars(Next)
-----------------------------------------------------------------------------
Item == [node : space.nodes, depth : Nat]

TypeOK ==
  /\ status \in {"new", "running", "plan", "no plan", "limit", "timeout"}
  /\ plan \in space.nodes \cup {NoNode}
  /\ open \in Seq(Item)
  /\ current \in Item \cup {NoItem}
  /\ pending \in Seq(space.nodes) /\ candidates \in Seq(space.nodes)
  /\ best \in Nat
  /\ store \subseteq space.nodes
  /\ base \in space.nodes \cup {NoNode}
  /\ expanded \in Nat

(* Breadth-first and depth-first search "only give up once the space is      *)
(* exhausted" (engine.py:1158-1160). Hill climbing may be wrong about the    *)
(* problem, but not about where it last started over: the node it committed  *)
(* to can reach no goal, unless it was asked to conflate states that only    *)
(* look alike.                                                               *)
Exact == EHC /\ config.weak => ~space.temporal
GivesUpRightly ==
  status = "no plan" /\ Exact => (IF EHC THEN base ELSE space.root) \notin Solvable(space)

(* Why, for hill climbing: from where it started over, a way to the goal     *)
(* always leads through a node that still waits, however many of the states  *)
(* met before were dropped with the old lists.                               *)
Waiting == {open[i].node : i \in DOMAIN open} \cup {candidates[i] : i \in DOMAIN candidates}
             \cup (IF pending # <<>> THEN {current.node} ELSE {})
ClosedAreLeft ==
  EHC /\ Exact /\ status = "running" /\ base \in Solvable(space) =>
    \E a \in Waiting \cap Solvable(space) : space.distance[a] <= space.distance[base]

(* Breadth-first search returns a goal of least depth, when it looks at the  *)
(* goal at expansion and when it does at generation.                         *)
BreadthFirst ==
  config.kind = "bfs" /\ status = "plan" =>
    space.distance[space.root] =
      IF config.early /\ plan # space.root THEN current.depth + 1 ELSE current.depth
(* The limit on expanded states is exact, zero included (search.py:38-40).   *)
LimitIsExact ==
  /\ config.limit # NoLimit => expanded <= config.limit
  /\ status = "limit" => expanded = config.limit
=============================================================================
