-------------------------- MODULE ClassicalSpaces ---------------------------
(* Classical spaces for TLC: every graph on three nodes, cycles included,    *)
(* with its successors in every order, with and without a goal. Heuristics   *)
(* answer what they like, and notice a dead end or not.                      *)
EXTENDS SearchSpaces

Nodes == 1 .. 3

(* The successors of node a, in the order they are generated.                *)
Orders(a) ==
  LET b == 1 + (a % 3)
      c == 1 + (b % 3)
  IN  << <<>>, <<b>>, <<c>>, <<b, c>>, <<c, b>> >>
Graph(i) == [a \in Nodes |-> Orders(a)[1 + ((i \div 5^(a - 1)) % 5)]]

(* The nodes from which a goal can be reached, with the distance to it.      *)
Distance(succ, goal) ==
  LET within[n \in 0 .. Cardinality(Nodes)] ==
        IF n = 0 THEN goal
        ELSE within[n - 1] \cup {a \in Nodes : \E i \in DOMAIN succ[a] : succ[a][i] \in within[n - 1]}
  IN  [a \in within[Cardinality(Nodes)] |->
                   CHOOSE n \in DOMAIN within : a \in within[n] /\ \A m \in 0 .. n - 1 : a \notin within[m]]

Classical(root, succ, goal) ==
  LET distance == Distance(succ, goal)
  IN  [nodes |-> Nodes, root |-> root, succ |-> succ, goal |-> goal, distance |-> distance,
       key |-> [a \in Nodes |-> 10 * a], todo |-> [a \in Nodes |-> 0],
       timedOnly |-> [a \in Nodes |-> FALSE], makespan |-> [a \in Nodes |-> 0],
       epsilon |-> 1, temporal |-> FALSE, deadline |-> FALSE,
       priority |-> [a \in Nodes |-> IF a \in DOMAIN distance THEN {0, 1} ELSE {0, 1, Dead}]]

(* The last space has no initial state.                                      *)
MCSpaces ==
  {Classical(1, Graph(i), goal) : i \in 1 .. 125, goal \in {{}, {3}}} \cup {Classical(NoNode, Graph(0), {3})}

=============================================================================
