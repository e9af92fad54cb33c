------------------------------ MODULE DeltaSTN ------------------------------
(****************************************************************************)
(* The incremental temporal network every temporal search state owns: a     *)
(* constraint is added to a network already at its fixpoint, and only the    *)
(* distances it improves are propagated, first in first out; a propagation   *)
(* that comes back to the new constraint has found a negative cycle.         *)
(*                                                                           *)
(* One `add` is a sequence of steps here (Add, then Pop and Relax until the  *)
(* queue is empty), so that what holds between two relaxations can be told   *)
(* from what holds when `add` returns.                                       *)
(*                                                                           *)
(* Numbers: the code compares with a tolerance (0 for the rationals of       *)
(* build_plan, epsilon/1000 for the floats of the search). Bounds are whole  *)
(* multiples of a grain, the tolerance is finer than the grain, and bounds   *)
(* and distances are counted in grains here.                                 *)
(****************************************************************************)
EXTENDS Integers, Sequences, FiniteSets

CONSTANTS
  Point,           \* the time points: action starts and ends, events, plan start and end
  Bound,           \* the bounds of the constraints, counted in grains
  Grain,           \* the granularity of the bounds, in units of the tolerance
  Tolerance,       \* what comparisons of distances disregard
  Dates,           \* candidate distances, for the statements about all schedules
  MaxConstraints   \* how many distinct constraints are added at most

ASSUME ConstantsAssumption ==
  /\ Bound \subseteq Int
  /\ Grain \in Nat \ {0}
  /\ Tolerance \in 0 .. Grain - 1
  /\ Dates \subseteq Int
  /\ MaxConstraints \in Nat

VARIABLES
  distances,    \* the map `distances`: its domain is the time points seen so far
  constraints,  \* the adjacency lists, each as the set of its entries
  is_sat,       \* the verdict
  queue,        \* the time points whose improvement is still to be propagated
  cur,          \* the time point whose neighbours are being relaxed
  pending,      \* the neighbours of cur still to be relaxed
  edge,         \* the constraint the current (or last) `add` was called with
  asserted,     \* history: every constraint `add` was called with while is_sat
  base          \* history: the distances the current (or last) `add` started from

vars == <<distances, constraints, is_sat, queue, cur, pending, edge, asserted, base>>

Known == DOMAIN distances

(* `add` has returned. *)
Idle == queue = <<>> /\ pending = {}

Constraint == {c \in [src : Point, dst : Point, bound : Bound] : c.src # c.dst}

(* The constraint that entry n of x's adjacency list stands for. *)
Edge(x, n) == [src |-> x, dst |-> n.dst, bound |-> n.bound]

(* a is below b by more than the tolerance.                                  *)
Improves(a, b) == Grain * a < Grain * b - Tolerance

NeverEquals(a, b) ==
  Grain * a - Grain * b <= Tolerance /\ Grain * a - Grain * b > Tolerance
EqualsWithTolerance(a, b) ==
  Grain * a - Grain * b <= Tolerance /\ Grain * a - Grain * b >= -Tolerance

(* Some entry of x for y is already as tight as b. The code looks at the     *)
(* newest entry only, which is the tightest one: an entry is pushed only when*)
(* it is tighter than the newest.                                            *)
IsConnected(x, y, b) == x \in Known /\ \E n \in constraints[x] : n.dst = y
IsSubsumed(x, y, b) ==
  /\ x \in Known
  /\ \E n \in constraints[x] : n.dst = y /\ Grain * n.bound <= Grain * b + Tolerance

(* The distances with entries for x and y, zero when they are new.           *)
SeenAnew(x, y) == [p \in Known \cup {x, y} |-> IF p \in Known \ {y} THEN distances[p] ELSE 0]
Seen(x, y) == [p \in Known \cup {x, y} |-> IF p \in Known THEN distances[p] ELSE 0]

(* The adjacency lists with the new constraint, unless it is subsumed.       *)
Neighbors(p) == IF p \in Known THEN constraints[p] ELSE {}

Pushed(x, y, b) ==
  [p \in Known \cup {x, y} |-> IF p = x /\ ~IsSubsumed(x, y, b)
                                THEN Neighbors(p) \cup {[dst |-> y, bound |-> b]}
                                ELSE Neighbors(p)]

(* The distance an entry of cur's adjacency list offers its destination.     *)
Offer(n) == distances[cur] + n.bound

Init ==
  /\ distances = <<>>
  /\ constraints = <<>>
  /\ is_sat = TRUE
  /\ queue = <<>>
  /\ cur \in Point
  /\ pending = {}
  /\ edge \in Constraint
  /\ asserted = {}
  /\ base = <<>>

(* `add` and the first relaxation of `inc_check`. On a network already known *)
(* to be inconsistent it does nothing.                                       *)
Add(x, y, b) ==
  /\ Idle
  /\ is_sat
  /\ Cardinality(asserted) < MaxConstraints
  /\ constraints' = Pushed(x, y, b)
  /\ LET d == Seen(x, y)
     IN  \/ /\ Improves(d[x] + b, d[y])
            /\ distances' = [d EXCEPT ![y] = d[x] + b]
            /\ queue' = <<y>>
         \/ /\ ~Improves(d[x] + b, d[y])
            /\ distances' = d
            /\ queue' = <<>>
  /\ edge' = [src |-> x, dst |-> y, bound |-> b]
  /\ base' = distances
  /\ asserted' = asserted \cup {edge'}
  /\ UNCHANGED <<is_sat, cur, pending>>

(* The head of the queue is taken, with its adjacency list.                  *)
Peek ==
  /\ pending = {}
  /\ queue # <<>>
  /\ cur' = Head(queue)
  /\ pending' = constraints[Head(queue)]
  /\ UNCHANGED <<distances, constraints, is_sat, queue, edge, asserted, base>>
Pop ==
  /\ pending = {}
  /\ queue # <<>>
  /\ cur' = Head(queue)
  /\ queue' = Tail(queue)
  /\ pending' = constraints[Head(queue)]
  /\ UNCHANGED <<distances, constraints, is_sat, edge, asserted, base>>

(* The entry would improve the target of the new constraint through the new  *)
(* constraint: it closes a negative cycle.                                   *)
ClosesCycle(n) == n.dst = edge.dst /\ EqualsWithTolerance(n.bound, edge.bound)

(* One entry of cur's adjacency list is relaxed; a cycle ends the `add`. The *)
(* code walks the list newest first; any order is allowed here.              *)
Relax(n) ==
  /\ n \in pending
  /\ \/ /\ ~Improves(Offer(n), distances[n.dst])
        /\ pending' = pending \ {n}
        /\ UNCHANGED <<distances, queue, is_sat>>
     \/ /\ Improves(Offer(n), distances[n.dst])
        /\ ClosesCycle(n)
        /\ is_sat' = FALSE
        /\ queue' = <<>>
        /\ pending' = {}
        /\ UNCHANGED distances
     \/ /\ Improves(Offer(n), distances[n.dst])
        /\ ~ClosesCycle(n)
        /\ distances' = [distances EXCEPT ![n.dst] = Offer(n)]
        /\ queue' = Append(queue, n.dst)
        /\ pending' = pending \ {n}
        /\ UNCHANGED is_sat
  /\ UNCHANGED <<constraints, cur, edge, asserted, base>>

Propagate == Pop \/ \E n \in pending : Relax(n)

Next == Propagate \/ \E c \in Constraint : Add(c.src, c.dst, c.bound)

Spec == Init /\ [][Next]_vars

(* `add` is a loop without waits: once called it keeps running. Nothing      *)
(* obliges the search to add another constraint.                             *)
FairSpec == Spec /\ WF_vars(Propagate)

-----------------------------------------------------------------------------
TypeOK ==
  /\ Known \subseteq Point
  /\ distances \in [Known -> Int]
  /\ constraints \in [Known -> SUBSET [dst : Known, bound : Bound]]
  /\ is_sat \in BOOLEAN
  /\ queue \in Seq(Known)
  /\ cur \in Point
  /\ pending # {} => cur \in Known /\ pending \subseteq constraints[cur]
  /\ edge \in Constraint
  /\ asserted \subseteq Constraint
  /\ DOMAIN base \subseteq Known /\ base \in [DOMAIN base -> Int]

Satisfies(s, E) == \A e \in E : s[e.dst] <= s[e.src] + e.bound

(* When `add` returns and the network is still satisfiable, the distances    *)
(* satisfy every constraint ever asserted, the subsumed ones that were never *)
(* stored included: get_model_value is a schedule.                           *)
ModelSatisfiesAsserted == Idle /\ is_sat => Satisfies(distances, asserted)

(* At every step the distances are at or above every nonpositive schedule of *)
(* the asserted constraints: when `add` returns they are the earliest dates, *)
(* which is what `makespan` and the deadline rely on.                        *)
EarliestDates ==
  \A s \in [Point -> Dates] :
    Satisfies(s, asserted) /\ (\A p \in Point : s[p] <= 0)
      => \A p \in Known : s[p] <= distances[p]

(* A network declared inconsistent has no schedule at all: the search prunes *)
(* a successor only when it cannot be scheduled.                             *)
UnsatIsReal ==
  ~is_sat => \A s \in [Point -> Dates] : ~Satisfies(s, asserted)

(* The target of the new constraint is improved by that constraint alone:    *)
(* no relaxation ever assigns its distance again, so the cycle test cannot   *)
(* miss a cycle by taking its other branch.                                  *)
TargetImprovedOnce ==
  [][Propagate => distances'[edge.dst] = distances[edge.dst]]_vars

(* Every `add` returns: even when the new constraint closes a negative cycle *)
(* the relaxations end.                                                      *)
AddReturns == []<>Idle

-----------------------------------------------------------------------------
(* What a propagation preserves, step by step (the inductive invariant).     *)

(* The distances the running `add` started from, new time points at zero. *)
Before == [p \in Known |-> IF p \in DOMAIN base THEN base[p] ELSE 0]

InQueue(p) == \E i \in 1 .. Len(queue) : queue[i] = p

(* Every asserted constraint is stored, or a tighter one is; nothing else is.*)
StoredAsserted ==
  /\ \A e \in asserted :
       /\ {e.src, e.dst} \subseteq Known
       /\ \E n \in constraints[e.src] : n.dst = e.dst /\ n.bound <= e.bound
  /\ \A x \in Known : \A n \in constraints[x] : Edge(x, n) \in asserted

(* A stored entry is satisfied, unless its source still has to be propagated *)
(* or it is among the neighbours left to relax.                              *)
DirtyOnly ==
  is_sat => \A x \in Known : \A n \in constraints[x] :
    \/ distances[n.dst] <= distances[x] + n.bound
    \/ InQueue(x)
    \/ x = cur /\ n \in pending

(* While `add` runs: the network was at its fixpoint before; no distance has *)
(* dropped by more than the target's; and a dropped distance is the weight   *)
(* of a path from the target, so every schedule respects it.                 *)
PathsFromTarget ==
  /\ is_sat
  /\ edge \in asserted
  /\ \A x \in Known : \A n \in constraints[x] :
       Edge(x, n) # edge => Before[n.dst] <= Before[x] + n.bound
  /\ distances[edge.dst] = Before[edge.src] + edge.bound
  /\ \A p \in Known :
       /\ distances[p] <= Before[p]
       /\ Before[p] - distances[p] <= Before[edge.dst] - distances[edge.dst]
       /\ distances[p] # Before[p] =>
            \A s \in [Point -> Dates] :
              Satisfies(s, asserted) =>
                s[p] - s[edge.dst] <= distances[p] - distances[edge.dst]

Propagating == ~Idle => PathsFromTarget

IInv ==
  /\ TypeOK
  /\ StoredAsserted
  /\ DirtyOnly
  /\ Propagating
  /\ EarliestDates
  /\ UnsatIsReal

(* What the refinement of the abstract network needs besides IInv.           *)
Mentions ==
  /\ Known = UNION {{e.src, e.dst} : e \in asserted}
  /\ \A p \in Known : distances[p] <= 0

-----------------------------------------------------------------------------
(* The network as the search sees it, between two calls of `add`.            *)
Asserted == IF Idle THEN asserted ELSE asserted \ {edge}
Verdict == Idle => is_sat
Schedule == IF Idle /\ is_sat THEN distances ELSE base

Promise == INSTANCE STN WITH asserted <- Asserted, sat <- Verdict, model <- Schedule

(* Every `add` answers as the abstract network does, with the same schedule. *)
ImplementsSTN == Promise!Spec
=============================================================================
