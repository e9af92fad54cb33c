-------------------------- MODULE DeleteRelaxation --------------------------
(****************************************************************************)
(* The delete-relaxation heuristics hmax, hadd and hff, and the reachability *)
(* analysis of the encoder: one call of `_eval_core`, a Dijkstra over the    *)
(* operators, one per event of an action.                                    *)
(*                                                                           *)
(* A condition is <<0, c>> for a leaf c of the conditions and the goal, or   *)
(* the bookkeeping fluent <<a, i>>: event i of action a was the last. What   *)
(* an event does to a leaf is given: it makes it true (`adds`), or it makes  *)
(* a numeric leaf true when applied often enough from the state (`reps`).    *)
(****************************************************************************)
EXTENDS Integers, Sequences, FiniteSets, SequencesExt

CONSTANTS
  Tasks,      \* what may be evaluated: a problem and a state of it
  Kinds       \* among "hmax", "hadd", "hff" and "reach"

Inf == 1000   \* bound: more than any cost

VARIABLES
  task, kind,      \* the call; never change
  ops,             \* _operators and _op_conditions, the goal operator last; never changes
  condCost,        \* cond_cost
  opCost, closed, unreached, heap,
  readers,         \* the operators update_condition_cost has still to look at
  firstReach,      \* first_reach of its condition
  minPre,          \* min_achiever_pre_cost
  reachedBy,       \* reached_by, 0 if none
  phase,           \* "running", "reached" (the goal), "extracting" or "done"
  current,         \* the operator being expanded
  pending,         \* the conditions it still has to update
  subgoals, visited, relaxed,   \* the extraction of the relaxed plan
  value            \* what is returned; Inf for None

graph == <<task, kind, ops>>
costs == <<condCost, opCost, closed, unreached, heap, minPre, reachedBy, readers, firstReach>>
extraction == <<subgoals, visited, relaxed, value>>
vars == <<graph, costs, phase, current, pending, extraction>>

HMax == kind \in {"hmax", "reach"}
HFF == kind = "hff"
-----------------------------------------------------------------------------
(* Expressions are in postfix form, and evaluated with a stack.              *)
Leaf(c) == [kind |-> "leaf", cond |-> c, n |-> 0]
And(n) == [kind |-> "and", cond |-> <<0, 0>>, n |-> n]
Or(n) == [kind |-> "or", cond |-> <<0, 0>>, n |-> n]

Plus(a, b) == IF a = Inf \/ b = Inf THEN Inf ELSE a + b
Larger(a, b) == IF a < b THEN b ELSE a

(* The cost of a conjunction is the sum of the costs, or the largest. *)
Both(max, a, b) ==
  [cost |-> IF max THEN Larger(a.cost, b.cost) ELSE Plus(a.cost, b.cost), leaves |-> a.leaves \cup b.leaves]
(* A disjunction costs, and is supported by, its cheapest operand, the first *)
(* popped. *)
Cheaper(a, b) == IF a.cost < b.cost THEN a ELSE b
Nothing == [cost |-> 0, leaves |-> {}]
Impossible == [cost |-> Inf, leaves |-> {}]

Reduce(cost, max, s, node) ==
  IF node.kind = "leaf" THEN Append(s, [cost |-> cost[node.cond], leaves |-> {node.cond}])
  ELSE LET operands == SubSeq(s, Len(s) - node.n + 1, Len(s))
       IN  Append(SubSeq(s, 1, Len(s) - node.n),
                  IF node.kind = "and" THEN FoldLeft(LAMBDA a, b : Both(max, a, b), Nothing, operands)
                  ELSE FoldRight(LAMBDA a, b : Cheaper(a, b), operands, Impossible))

(* _expression_cost and _supporting_conditions *)
Valued(expr, cost, max) ==
  IF expr = <<>> THEN Nothing
  ELSE FoldLeft(LAMBDA s, node : CHOOSE r \in {Reduce(cost, max, x, node) : x \in {s}} : TRUE, <<>>, expr)[1]

Leaves(expr) == {expr[i].cond : i \in {j \in DOMAIN expr : expr[j].kind = "leaf"}}
HasOr(expr) == \E i \in DOMAIN expr : expr[i].kind = "or"

(* _conjunction *)
Conjunction(a, b) == IF a = <<>> THEN b ELSE IF b = <<>> THEN a ELSE a \o b \o <<And(2)>>
-----------------------------------------------------------------------------
(* One operator per event: it needs the event before it, and the first event *)
(* needs that the action is not in progress. The first event of the timed    *)
(* action is already past, and one with a false condition has no operator.   *)
Flag(a, i) == <<a, i>>
LastFlag(t, a) == Flag(a, Len(t.events[a]))
Needs(t, a, i) == IF i = 1 THEN <<Leaf(LastFlag(t, a))>> ELSE <<Leaf(Flag(a, i - 1))>>

OperatorsOf(t, a) ==
  LET operator(i) == [action |-> a,
                      pre |-> Conjunction(t.events[a][i].pre, Needs(t, a, i)),
                      adds |-> <<Flag(a, i)>> \o t.events[a][i].adds,
                      reps |-> t.events[a][i].reps]
      there == SelectSeq([i \in 1..Len(t.events[a]) |-> i],
                         LAMBDA i : ~(i = 1 /\ a = t.timed) /\ t.events[a][i].possible)
  IN  [j \in 1..Len(there) |-> operator(there[j])]

(* The goal, and that every started action is completed: hff leaves that out.*)
Completed(t) ==
  [a \in DOMAIN t.events |-> Leaf(LastFlag(t, a))] \o <<And(Len(t.events))>>
GoalOf(t, k) ==
  [action |-> 0, adds |-> <<>>, reps |-> <<>>,
   pre |-> IF k = "hff" THEN t.goal ELSE Conjunction(t.goal, Completed(t))]

Operators(t, k) ==
  FlattenSeq([a \in DOMAIN t.events |-> OperatorsOf(t, a)]) \o <<GoalOf(t, k)>>

Conds(t) ==
  {<<0, c>> : c \in DOMAIN t.start}
    \cup UNION {{Flag(a, i) : i \in DOMAIN t.events[a]} : a \in DOMAIN t.events}

(* _initial_condition_costs: a leaf that holds costs nothing, as does how    *)
(* far an action is; one that is not understood (a complex numeric one, or   *)
(* one that calls a function) costs 1, any other is unreached.               *)
Unreached(t, c) ==
  IF c[1] = 0 THEN t.start[c[2]]
  ELSE IF c[2] = (IF t.todo[c[1]] = 0 THEN Len(t.events[c[1]]) ELSE t.todo[c[1]]) THEN 0 ELSE Inf
Initially(t) == [c \in Conds(t) |-> Unreached(t, c)]

(* hmax has to empty the heap when two operators work on one numeric leaf.   *)
Drain(o) ==
  \E i, j \in DOMAIN o : i # j /\ \E k \in DOMAIN o[i].reps, l \in DOMAIN o[j].reps :
    o[i].reps[k].cond = o[j].reps[l].cond
Reopens == kind = "hmax" /\ Drain(ops)
Drains == kind = "reach" \/ Reopens

Goal == Len(ops)
Ids == 1..Len(ops)

(* An operator is only costed once its leaves are all reached, unless it has *)
(* a disjunction.                                                            *)
Missing(o, cost) == Cardinality({c \in Leaves(o.pre) : cost[c] = Inf})
Costed(o, missing) == HasOr(o.pre) \/ missing = 0

Init ==
  /\ task \in Tasks
  /\ kind \in Kinds
  /\ ops = Operators(task, kind)
  /\ condCost = Initially(task)
  /\ unreached = [i \in Ids |-> Missing(ops[i], condCost)]
  /\ opCost = [i \in Ids |-> IF Costed(ops[i], unreached[i])
                               THEN Valued(ops[i].pre, condCost, HMax).cost ELSE Inf]
  /\ heap = {<<opCost[i], i>> : i \in {j \in Ids : opCost[j] < Inf}}
  /\ closed = [i \in Ids |-> FALSE]
  /\ minPre = [c \in Conds(task) |-> Inf]
  /\ reachedBy = [c \in Conds(task) |-> 0]
  /\ readers = <<>> /\ firstReach = FALSE
  /\ phase = "running"
  /\ current = 0
  /\ pending = <<>>
  /\ subgoals = {} /\ visited = {} /\ relaxed = {}
  /\ value = Inf
-----------------------------------------------------------------------------
(* The least entry of the heap, in the order of (cost, operator).            *)
LeastEntry == CHOOSE e \in heap : \A x \in heap : e[1] < x[1] \/ (e[1] = x[1] /\ e[2] <= x[2])

Stale(e) == closed[e[2]] \/ e[1] # opCost[e[2]]
StaleKept(e) == IF Stale(e) THEN heap ELSE heap \ {e}
Popped(e) == heap \ {e}

Updates(o) ==
  [i \in DOMAIN o.adds |-> [cond |-> o.adds[i], rep |-> 0]] \o o.reps

(* The loop head.                                                            *)
Pop ==
  /\ phase = "running" /\ pending = <<>> /\ readers = <<>> /\ heap # {}
  /\ \E e \in {LeastEntry} :
       /\ heap' = Popped(e)
       /\ IF Stale(e) THEN UNCHANGED <<closed, phase, current, pending>>
          ELSE /\ closed' = [closed EXCEPT ![e[2]] = TRUE]
               /\ current' = e[2]
               /\ IF e[2] # Goal THEN pending' = Updates(ops[e[2]]) /\ UNCHANGED phase
                  ELSE phase' = (IF Drains THEN "running" ELSE "reached") /\ UNCHANGED pending
  /\ UNCHANGED <<graph, condCost, opCost, unreached, minPre, reachedBy, readers, firstReach, extraction>>

(* update_condition_cost: once a condition got cheaper, so may the operators *)
(* that read it. On a tie, hff prefers the later operator.                   *)
Readers(c) == SelectSeq([i \in Ids |-> i], LAMBDA i : c \in Leaves(ops[i].pre))
LaterTakesOver(c, cost) == current > reachedBy[c]
TakesOver(c, cost) == cost = condCost[c] /\ current > reachedBy[c]
Update(c, cost) ==
  IF cost < condCost[c]
    THEN /\ condCost' = [condCost EXCEPT ![c] = cost]
         /\ reachedBy' = IF HFF THEN [reachedBy EXCEPT ![c] = current] ELSE reachedBy
         /\ readers' = Readers(c)
         /\ firstReach' = (condCost[c] = Inf)
    ELSE /\ reachedBy' = IF HFF /\ TakesOver(c, cost)
                           THEN [reachedBy EXCEPT ![c] = current] ELSE reachedBy
         /\ UNCHANGED <<condCost, readers, firstReach>>

(* An effect costs one more than its operator. A numeric leaf costs as many  *)
(* as it takes, for hmax after the cheapest of those that work on it.        *)
OwnPre(c) == opCost[current]
CheapestPre(c) == IF opCost[current] < minPre[c] THEN opCost[current] ELSE minPre[c]

UpdateNext ==
  /\ phase = "running" /\ readers = <<>> /\ pending # <<>>
  /\ pending' = Tail(pending)
  /\ \E u \in {Head(pending)} :
       IF u.rep = 0 THEN Update(u.cond, opCost[current] + 1) /\ UNCHANGED minPre
       ELSE IF condCost[u.cond] = 0 THEN UNCHANGED <<condCost, minPre, reachedBy, readers, firstReach>>
       ELSE IF HMax THEN /\ minPre' = [minPre EXCEPT ![u.cond] = CheapestPre(u.cond)]
                         /\ Update(u.cond, u.rep + CheapestPre(u.cond))
       ELSE Update(u.cond, u.rep + opCost[current]) /\ UNCHANGED minPre
  /\ UNCHANGED <<graph, opCost, closed, unreached, heap, phase, current, extraction>>

(* A reader that is still open, or may be opened again, is costed anew; not  *)
(* while some other leaf of it is unreached.                                 *)
Skips(i) == closed[i] /\ ~Reopens
OneLess(i) == IF firstReach THEN unreached[i] - 1 ELSE unreached[i]
Reread ==
  /\ readers # <<>>
  /\ readers' = Tail(readers)
  /\ \E i \in {Head(readers)} :
       IF Skips(i) THEN UNCHANGED <<opCost, closed, unreached, heap>>
       ELSE /\ unreached' = [unreached EXCEPT ![i] = OneLess(i)]
            /\ \E cost \in {IF Costed(ops[i], OneLess(i)) THEN Valued(ops[i].pre, condCost, HMax).cost ELSE Inf} :
                 IF cost < opCost[i]
                   THEN /\ opCost' = [opCost EXCEPT ![i] = cost]
                        /\ closed' = [closed EXCEPT ![i] = FALSE]
                        /\ heap' = heap \cup {<<cost, i>>}
                   ELSE UNCHANGED <<opCost, closed, heap>>
  /\ UNCHANGED <<graph, condCost, minPre, reachedBy, firstReach, phase, current, pending, extraction>>

GoalValue == Valued(ops[Goal].pre, condCost, HMax)

(* Events that the actions in progress have left.                            *)
Remaining == FoldLeft(+, 0, [a \in DOMAIN task.events |->
                               IF task.todo[a] = 0 THEN 0 ELSE Len(task.events[a]) - task.todo[a]])

Finish ==
  /\ phase = "reached" \/ (phase = "running" /\ pending = <<>> /\ readers = <<>> /\ heap = {})
  /\ IF kind = "reach" THEN phase' = "done" /\ UNCHANGED extraction
     ELSE /\ value' = IF HFF /\ GoalValue.cost < Inf THEN Remaining ELSE GoalValue.cost
          /\ IF HFF /\ GoalValue.cost \in 1..(Inf - 1)
               THEN /\ phase' = "extracting"
                    /\ visited' = GoalValue.leaves
                    /\ subgoals' = GoalValue.leaves
               ELSE phase' = "done" /\ UNCHANGED <<subgoals, visited>>
          /\ UNCHANGED relaxed
  /\ UNCHANGED <<graph, costs, current, pending>>

(* The relaxed plan: what supports the goal, backwards. The order in which   *)
(* the subgoals are taken is left open.                                      *)
Extract ==
  /\ phase = "extracting"
  /\ \E c \in subgoals :
       \/ /\ reachedBy[c] = 0
          /\ subgoals' = subgoals \ {c}
          /\ UNCHANGED <<visited, relaxed>>
       \/ /\ reachedBy[c] # 0
          /\ relaxed' = relaxed \cup {ops[reachedBy[c]].action}
          /\ \E needed \in {Valued(ops[reachedBy[c]].pre, condCost, FALSE).leaves} :
               /\ subgoals' = (subgoals \ {c}) \cup (needed \ visited)
               /\ visited' = visited \cup needed
  /\ UNCHANGED <<graph, costs, phase, current, pending, value>>

Extracted ==
  /\ phase = "extracting" /\ subgoals = {}
  /\ phase' = "done"
  /\ value' = value + FoldLeft(+, 0, [a \in DOMAIN task.events |->
                        IF a \in relaxed /\ task.todo[a] = 0 THEN Len(task.events[a]) ELSE 0])
  /\ UNCHANGED <<graph, costs, current, pending, subgoals, visited, relaxed>>

Next == Pop \/ UpdateNext \/ Reread \/ Finish \/ Extract \/ Extracted

(* An evaluation runs to its end.                                            *)
Spec == Init /\ [][Next]_vars /\ WF_vars(Next)

(* reachable_actions: those with every operator reached.                     *)
ReachableActions ==
  {a \in DOMAIN task.events :
     /\ \E i \in Ids : ops[i].action = a
     /\ \A i \in Ids : ops[i].action = a => opCost[i] < Inf}
-----------------------------------------------------------------------------
TypeOK ==
  /\ phase \in {"running", "reached", "extracting", "done"}
  /\ condCost \in [Conds(task) -> 0..Inf]
  /\ opCost \in [Ids -> 0..Inf] /\ closed \in [Ids -> BOOLEAN]
  /\ unreached \in [Ids -> Nat]
  /\ heap \subseteq (0..(Inf - 1)) \X Ids
  /\ current \in 0..Len(ops) /\ readers \in Seq(Ids)
  /\ reachedBy \in [Conds(task) -> 0..(Len(ops) - 1)]
  /\ subgoals \subseteq visited /\ visited \subseteq Conds(task)
  /\ relaxed \subseteq DOMAIN task.events
  /\ value \in 0..Inf

(* The loop invariant: what is read is kept up to date for every operator    *)
(* that may still be expanded. The leaves it misses are counted right, its   *)
(* cost is that of its condition, and it is queued under that cost.          *)
OpenAreQueued ==
  phase = "running" => \A i \in Ids \ Range(readers) :
    closed[i] \/ /\ unreached[i] = Missing(ops[i], condCost)
                 /\ opCost[i] = Valued(ops[i].pre, condCost, HMax).cost
                 /\ opCost[i] < Inf => <<opCost[i], i>> \in heap

(* "monotone fix-point: a closed operator cannot get cheaper": what was       *)
(* expanded was expanded at its final cost.                                  *)
ClosedAreSettled ==
  kind # "reach" => \A i \in Ids \ Range(readers) : closed[i] => opCost[i] = Valued(ops[i].pre, condCost, HMax).cost

(* The fixpoint that the Dijkstra computes, by plain iteration: the least    *)
(* costs such that a condition costs no more than what achieves it.          *)
Offers(old, pre, c, allowed) ==
  LET able == {i \in Ids : ops[i].action \in allowed /\ pre[i] < Inf}
      adding == {i \in able : \E k \in DOMAIN ops[i].adds : ops[i].adds[k] = c}
      working == {i \in able : \E k \in DOMAIN ops[i].reps : ops[i].reps[k].cond = c}
      rep(i) == Min({ops[i].reps[k].rep : k \in {l \in DOMAIN ops[i].reps : ops[i].reps[l].cond = c}})
  IN  {old} \cup {pre[i] + 1 : i \in adding}
        \cup {rep(x[1]) + pre[x[2]] : x \in {y \in working \X working : HMax \/ y[1] = y[2]}}
Round(cost, allowed) ==
  CHOOSE new \in {[c \in Conds(task) |-> Min(Offers(cost[c], pre, c, allowed))] :
                    pre \in {[i \in Ids |-> Valued(ops[i].pre, cost, HMax).cost]}} :
    new \in [Conds(task) -> 0..Inf]
LeastCosts(allowed) ==
  LET round[n \in 0..Cardinality(Conds(task))] ==
        IF n = 0 THEN Initially(task)
        ELSE CHOOSE new \in {Round(old, allowed) : old \in {round[n - 1]}} : TRUE
  IN  round[Cardinality(Conds(task))]
AllActions == DOMAIN task.events

(* The value is the fixpoint's, although the search stops at the goal, skips *)
(* closed operators and looks at a condition only once it is complete; and   *)
(* None is answered only if the goal is unreachable in the relaxation.       *)
ValueIsFixpoint ==
  phase = "done" /\ kind \in {"hmax", "hadd"}
    => value = Valued(ops[Goal].pre, LeastCosts(AllActions), HMax).cost

(* What hff counts is a plan of the relaxation: its actions alone reach the  *)
(* goal.                                                                     *)
RelaxedPlanWorks ==
  phase = "done" /\ HFF
    => (value = Inf) = (Valued(ops[Goal].pre, LeastCosts(relaxed), FALSE).cost = Inf)

(* The actions that the encoder keeps are those the relaxation can complete. *)
ReachIsRight ==
  phase = "done" /\ kind = "reach" =>
    \E least \in {LeastCosts(AllActions)} :
      ReachableActions =
        {a \in AllActions : /\ \E i \in Ids : ops[i].action = a
                            /\ \A i \in Ids : ops[i].action = a => Valued(ops[i].pre, least, TRUE).cost < Inf}
=============================================================================
