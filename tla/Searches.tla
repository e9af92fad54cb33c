------------------------------ MODULE Searches ------------------------------
(****************************************************************************)
(* The searches without a store of makespans: the deque searches             *)
(* (breadth-first and depth-first over spaces without cycles, hill climbing  *)
(* over all) and the round-robin search. A configuration says which of them  *)
(* is called.                                                                *)
(****************************************************************************)
EXTENDS SearchSpaces

CONSTANTS
  QueueSpaces, QueueConfigs,   \* what the round-robin search is called with
  DequeSpaces, DequeConfigs    \* what the deque searches are

VARIABLES
  space, config, status, plan, pending, candidates, store, expanded,
  opens, filled, closed,         \* of the round-robin search only
  open, current, best, base      \* of the deque searches only

ofQueues == <<opens, filled, closed>>
ofDeques == <<open, current, best, base>>
vars == <<space, config, status, plan, pending, candidates, store, expanded, ofQueues, ofDeques>>

Q == INSTANCE MultiqueueSearch WITH Spaces <- QueueSpaces, Configs <- QueueConfigs
D == INSTANCE DequeSearch WITH Spaces <- DequeSpaces, Configs <- DequeConfigs

ASSUME SearchesAssumption ==
  /\ QueueSpaces \cup DequeSpaces \subseteq Spaces
  /\ Q!ConfigsAssumption /\ \A c \in QueueConfigs : "queues" \in DOMAIN c
  /\ D!ConfigsAssumption /\ \A c \in DequeConfigs : "queues" \notin DOMAIN c

ByQueues == "queues" \in DOMAIN config

Init ==
  \/ Q!Init /\ open = <<>> /\ current = D!NoItem /\ best = 0 /\ base = NoNode
  \/ D!Init /\ opens = <<>> /\ filled = {} /\ closed = {}

QueueStep == ByQueues /\ Q!Next /\ UNCHANGED ofDeques
DequeStep == ~ByQueues /\ D!Next /\ UNCHANGED ofQueues
Next == QueueStep \/ DequeStep

(* Nothing but the search runs, and it never waits.                          *)
Spec == Init /\ [][Next]_vars /\ WF_vars(Next)

-----------------------------------------------------------------------------
(* "No plan" is answered rightly, as far as each search promises to:         *)
(* round-robin search unless a queue has a custom heuristic, breadth-first   *)
(* and depth-first search always, hill climbing about where it started over. *)
NoPlanMeansNone == IF ByQueues THEN Q!NoPlanMeansNone ELSE D!GivesUpRightly

(* Why: as long as there is a way to a goal, one stays open: in every queue, *)
(* whatever the others took; and, for hill climbing, from where it started   *)
(* over, whatever it dropped there.                                          *)
WaysStayOpen == IF ByQueues THEN Q!EveryQueueHoldsThePlans ELSE D!ClosedAreLeft

(* Breadth-first search returns a goal of least depth, when it looks at the  *)
(* goal at expansion and when it does at generation.                         *)
BreadthFirst == ~ByQueues => D!BreadthFirst

(* The limit on expansions is exact, zero included, and with several queues  *)
(* a state counts once, whichever of them it is expanded from.               *)
LimitIsExact ==
  IF ByQueues THEN Q!TypeOK /\ Q!LimitIsExact /\ Q!ExpandedOnce
  ELSE D!TypeOK /\ D!LimitIsExact

(* The call returns: popping a state that another queue expanded, and        *)
(* starting over with nothing but the better node, make progress.            *)
Ends == <>(status \notin {"new", "running"})
=============================================================================
