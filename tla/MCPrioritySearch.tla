-------------------------- MODULE MCPrioritySearch --------------------------
(* Every way to call a priority-queue search, over the classical spaces, and *)
(* over spaces computed from the temporal problems below with module         *)
(* TemporalSpace: branches of a tree, the same state reached at different    *)
(* times. No branch is longer than MaxPath, so the spaces are complete.      *)
EXTENDS PrioritySearch, ClassicalSpaces

CONSTANTS Fluent, Value, Action, MaxPath

P == INSTANCE MCPlanExtraction WITH Problems <- {}, problem <- <<>>, state <- <<>>

(* Two ways to get ready, one at a time, then one job. A deadline leaves     *)
(* time for the job after the fast way only. The ways differ by less than    *)
(* epsilon.                                                                  *)
Way == <<P!At(0, TRUE, P!Both(P!Is("f", 0), P!Is("k", 0)), {}, {}, P!To("k", 1)),
         P!At(0, FALSE, P!Always, {}, {}, P!To("f", 1) @@ P!To("k", 0))>>
Choice ==
  [P!Plain("fast" :> Way @@ "slow" :> Way
           @@ "job" :> <<P!At(0, TRUE, P!Both(P!Is("f", 1), P!Is("h", 0)), {}, {}, P!To("h", 1)),
                         P!At(0, FALSE, P!Always, {}, {}, P!To("g", 1))>>,
           "fast" :> P!Lasts(3, 3) @@ "slow" :> P!Lasts(4, 4) @@ "job" :> P!Lasts(2, 2),
           P!Is("g", 1))
   EXCEPT !.epsilon = 2]

(* The same within the window of a timed effect that ends it.                *)
Window(end) ==
  [Choice EXCEPT
     !.events = [a \in DOMAIN @ \cup {"til"} |->
                   IF a = "til" THEN <<P!At(0, TRUE, P!Always, {}, {}, <<>>),
                                       P!At(end, TRUE, P!Always, {}, {}, P!To("h", 1))>>
                   ELSE @[a]],
     !.duration = @ @@ "til" :> P!Lasts(end, end),
     !.safe = @ @@ "til" :> FALSE,
     !.objects = @ @@ "til" :> {},
     !.relevant = @ \cup {"til"},
     !.timed = "til"]

(* Two ways to switch g on while "main" takes its time: in the same state at *)
(* the same makespan, "use" is free to start at once after the shorter one   *)
(* and has to keep its distance from the longer one.                         *)
Margin ==
  [P!Plain("main" :> <<P!At(0, TRUE, P!Is("f", 0), {}, {}, <<>>),
                       P!At(0, FALSE, P!Always, {}, {}, P!To("f", 1))>>
           @@ "short" :> <<P!At(0, TRUE, P!Is("g", 0), {}, {}, <<>>),
                           P!At(0, FALSE, P!Always, {}, {}, P!To("g", 1))>>
           @@ "long" :> <<P!At(0, TRUE, P!Is("g", 0), {}, {}, <<>>),
                          P!At(0, FALSE, P!Always, {}, {}, P!To("g", 1))>>
           @@ "use" :> P!Instant(P!Both(P!Is("g", 1), P!Is("h", 0)), P!To("h", 1)),
           "main" :> P!Lasts(4, 4) @@ "short" :> P!Lasts(2, 2) @@ "long" :> P!Lasts(3, 3)
           @@ "use" :> P!NoDuration,
           P!Both(P!Is("f", 1), P!Is("h", 1)))
   EXCEPT !.epsilon = 2, !.deadline = 6]

(* The slow way late by exactly epsilon: still in time, and dominated.       *)
Slower(p) == [p EXCEPT !.duration["slow"] = P!Lasts(5, 5)]

TemporalProblems ==
  {Choice, [Choice EXCEPT !.deadline = 9], [Choice EXCEPT !.deadline = 8], Window(7), Margin,
   Slower([Choice EXCEPT !.deadline = 11]), Slower(Window(9))}

(* The search space of a problem. *)
T(problem) == INSTANCE TemporalSpace WITH Problems <- TemporalProblems, state <- <<>>

InOrder(S) == FoldSet(LAMBDA x, s : Append(s, x), <<>>, S)

(* f itself; TLC computes the values of a merged function once and for all.  *)
Evaluated(f) == f @@ <<>>

(* The states of the space, breadth first. *)
States(p) ==
  LET layer[n \in 0 .. MaxPath] ==
        IF n = 0 THEN [old |-> {}, new |-> T(p)!InitialStates]
        ELSE LET l == layer[n - 1]
             IN  [old |-> l.old \cup l.new,
                  new |-> UNION {T(p)!Successors(s, a, TRUE) : s \in l.new, a \in p.relevant}]
  IN  InOrder(layer[MaxPath].old \cup layer[MaxPath].new)
Id(states, s) == CHOOSE i \in DOMAIN states : states[i] = s

(* The successors, generated in the order of the actions. *)
Succ(p, states, actions) ==
  LET order == SelectSeq(actions, LAMBDA a : a \in p.relevant)
      ids(s, a) == InOrder({Id(states, c) : c \in T(p)!Successors(s, a, TRUE)})
  IN  Evaluated([i \in DOMAIN states |->
                   FlattenSeq([n \in DOMAIN order |-> ids(states[i], order[n])])])

(* The nodes at most n actions away from a goal. *)
Within(succ, goal) ==
  LET within[n \in 0 .. MaxPath] ==
        IF n = 0 THEN goal
        ELSE LET w == within[n - 1]
             IN  w \cup {i \in DOMAIN succ : \E c \in DOMAIN succ[i] : succ[i][c] \in w}
  IN  Evaluated(within)

Space(p, states, succ, goal, within, priority(_)) ==
  LET nodes == DOMAIN states
  IN  [nodes |-> nodes,
       root |-> Id(states, CHOOSE s \in T(p)!InitialStates : TRUE),
       succ |-> succ,
       goal |-> goal,
       distance |-> Evaluated([i \in within[MaxPath] |->
         CHOOSE n \in 0 .. MaxPath : i \in within[n] /\ \A m \in 0 .. n - 1 : i \notin within[m]]),
       key |-> Evaluated([i \in nodes |->
         <<states[i].assignments, [a \in DOMAIN states[i].todo |-> states[i].todo[a].next]>>]),
       todo |-> Evaluated([i \in nodes |-> Cardinality(DOMAIN states[i].todo)]),
       timedOnly |-> Evaluated([i \in nodes |-> DOMAIN states[i].todo = {p.timed}]),
       makespan |-> Evaluated([i \in nodes |-> T(p)!Makespan(states[i])]),
       epsilon |-> p.epsilon, temporal |-> TRUE, deadline |-> p.deadline # -1,
       priority |-> Evaluated([i \in nodes |-> {priority(states[i].g)}])]

(* Of a problem, one space for each order of the actions. A variable bound   *)
(* to the one element of a set is evaluated once.                            *)
SpacesOf(p, orders, priority(_)) ==
  UNION {UNION {UNION {{Space(p, states, succ, goal, within, priority) :
           within \in {Within(succ, goal)}} :
           succ \in {Succ(p, states, o) : o \in orders}, goal \in {{i \in DOMAIN states : T(p)!GoalReached(states[i])}}} :
           states \in {States(p)}}}

ActionOrders ==
  {<<"til", "fast", "slow", "job", "main", "short", "long", "use">>,
   <<"use", "long", "short", "main", "job", "slow", "fast", "til">>,
   <<"job", "use", "slow", "long", "til", "fast", "main", "short">>}

(* Uninformed, deep branches first, shallow branches first. *)
TemporalSpaces ==
  UNION {SpacesOf(p, ActionOrders, LAMBDA g : 0)
           \cup SpacesOf(p, ActionOrders, LAMBDA g : MaxPath - g)
           \cup SpacesOf(p, ActionOrders, LAMBDA g : g) : p \in TemporalProblems}

MCSearchSpaces == MCSpaces \cup TemporalSpaces

Plainly == [early |-> FALSE, limit |-> NoLimit, timeout |-> FALSE, bound |-> NoBound,
            bloom |-> FALSE, weak |-> FALSE]
MCConfigs ==
  {[Plainly EXCEPT !.early = e, !.limit = l, !.timeout = t, !.bound = b, !.bloom = b # NoBound] :
     e \in BOOLEAN, l \in {NoLimit, 0, 2}, t \in BOOLEAN, b \in {NoBound, 1}}
  \cup {[Plainly EXCEPT !.weak = TRUE], [Plainly EXCEPT !.bound = 2, !.bloom = TRUE]}
=============================================================================
