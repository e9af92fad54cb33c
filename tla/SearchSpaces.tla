---------------------------- MODULE SearchSpaces ----------------------------
(****************************************************************************)
(* What the searches search, and what makes a state redundant to them.       *)
(*                                                                           *)
(* A search space is a graph of nodes; a node is a search state together     *)
(* with its path, so a temporal space is a tree. `key` is what two states    *)
(* that are the same for the store have in common. The number an item is     *)
(* ordered by (the weighted sum of g and h, or novelty, h and g) is any of    *)
(* node's `priority`: the heuristic is an oracle that answers Dead for a     *)
(* dead end.                                                                 *)
(****************************************************************************)
EXTENDS Integers, Sequences, FiniteSets

CONSTANTS
  Spaces      \* the search spaces

Dead == -1
NoNode == 0

(* A space as the code builds it. *)
WellFormed(sp) ==
  /\ NoNode \notin sp.nodes
  /\ sp.root \in sp.nodes \cup {NoNode}
  /\ sp.succ \in [sp.nodes -> Seq(sp.nodes)]
  /\ sp.goal \subseteq sp.nodes
  /\ sp.epsilon \in Nat
  /\ sp.makespan \in [sp.nodes -> Int]
  /\ DOMAIN sp.key = sp.nodes
  /\ sp.todo \in [sp.nodes -> Nat]
  /\ sp.timedOnly \in [sp.nodes -> BOOLEAN]
  /\ sp.priority \in [sp.nodes -> SUBSET (Nat \cup {Dead})]

(* `distance` is not part of the program: how many successors away the       *)
(* nearest goal is, for the nodes a plan exists from.                        *)
Solvable(sp) == DOMAIN sp.distance
DistanceIsRight(sp) ==
  /\ Solvable(sp) \subseteq sp.nodes
  /\ sp.distance \in [Solvable(sp) -> Nat]
  /\ \A a \in Solvable(sp) :
       a \notin sp.goal => \E i \in DOMAIN sp.succ[a] :
         sp.succ[a][i] \in Solvable(sp) /\ sp.distance[sp.succ[a][i]] < sp.distance[a]
  /\ \A a \in sp.nodes : \A i \in DOMAIN sp.succ[a] :
       sp.succ[a][i] \in Solvable(sp)
         => a \in Solvable(sp) /\ sp.distance[a] <= 1 + sp.distance[sp.succ[a][i]]
  /\ \A a \in sp.goal : a \in Solvable(sp) /\ sp.distance[a] = 0

(* A built-in heuristic answers Dead only where the goal is unreachable      *)
(* (engine.py:1135-1146).                                                    *)
HeuristicIsSafe(sp) == \A a \in Solvable(sp) : Dead \notin sp.priority[a]

-----------------------------------------------------------------------------
(* Which states take part in dedup, and how: DedupPolicy.                    *)
Policy(sp, weak) ==
  IF ~sp.temporal \/ weak THEN "all"
  ELSE IF sp.deadline THEN "dominance" ELSE "todo empty"

Rule(policy, sp, a) ==
  IF policy = "all" THEN "equal"
  ELSE IF sp.todo[a] = 0 THEN (IF policy = "dominance" THEN "dominance" ELSE "equal")
  ELSE IF sp.timedOnly[a] THEN "dominance"
  ELSE "none"

(* makespan_dominates *)
DominatesAtOnce(sp, recorded, new) == recorded <= new
Dominates(sp, recorded, new) == recorded + sp.epsilon <= new

(* Whether having let a through makes b redundant. *)
MakesRedundant(policy, sp, a, b) ==
  /\ sp.key[a] = sp.key[b]
  /\ Rule(policy, sp, a) = Rule(policy, sp, b)
  /\ \/ Rule(policy, sp, b) = "equal"
     \/ Rule(policy, sp, b) = "dominance" /\ Dominates(sp, sp.makespan[a], sp.makespan[b])

(* Any continuation of a redundant state is one of the state that makes it   *)
(* redundant.                                                                *)
DedupIsSound(sp) ==
  \A a \in sp.nodes : \A b \in Solvable(sp) :
    MakesRedundant(Policy(sp, FALSE), sp, a, b)
      => a \in Solvable(sp) /\ sp.distance[a] <= sp.distance[b]

ASSUME SpacesAssumption ==
  \A sp \in Spaces : WellFormed(sp) /\ DistanceIsRight(sp) /\ HeuristicIsSafe(sp)
=============================================================================
