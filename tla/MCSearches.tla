----------------------------- MODULE MCSearches -----------------------------
(* Searches over the classical spaces, the round-robin search with one or    *)
(* two queues.                                                               *)
EXTENDS Searches, ClassicalSpaces

(* In a space of three nodes without cycles no walk takes three steps.       *)
Acyclic(succ) ==
  \A walk \in [1 .. 4 -> Nodes] :
    \E n \in 1 .. 3 : \A i \in DOMAIN succ[walk[n]] : succ[walk[n]][i] # walk[n + 1]

MCDequeSpaces ==
  {[nodes |-> sp.nodes, root |-> sp.root, succ |-> sp.succ, goal |-> sp.goal, distance |-> sp.distance,
    key |-> sp.key, todo |-> sp.todo, timedOnly |-> sp.timedOnly, makespan |-> sp.makespan,
    epsilon |-> sp.epsilon, temporal |-> sp.temporal, deadline |-> sp.deadline,
    priority |-> [a \in Nodes |-> sp.priority[a] \cup {2}], acyclic |-> Acyclic(sp.succ)] : sp \in MCSpaces}

Unlimited == -1
MCDequeConfigs ==
  {[kind |-> k, early |-> e, limit |-> l, timeout |-> l = 2, weak |-> FALSE] :
     k \in {"bfs", "dfs", "ehc"}, e \in BOOLEAN, l \in {Unlimited, 0, 2}}

MCQueueConfigs ==
  {[queues |-> n, custom |-> IF c THEN {n} ELSE {}, early |-> e, limit |-> l, timeout |-> l = 1,
    weak |-> FALSE] : n \in {1, 2}, c \in BOOLEAN, e \in BOOLEAN, l \in {Unlimited, 1}}

MCSearchSpaces == MCSpaces \cup MCDequeSpaces
=============================================================================
