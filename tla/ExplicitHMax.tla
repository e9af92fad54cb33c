---------------------------- MODULE ExplicitHMax ----------------------------
(****************************************************************************)
(* The explicit hmax: one evaluation. Every fluent has the list of the       *)
(* values it was found to reach, and a round applies every operator whose    *)
(* conditions can be true. Not to evaluate an expression twice on the same   *)
(* values, every place remembers how long the lists were when it last did,   *)
(* and looks only at the combinations with a value that came since.          *)
(****************************************************************************)
EXTENDS Expressions

CONSTANTS
  Tasks,      \* [events, goal, start, todo, timed]: what may be evaluated
  MaxRounds   \* bound on the rounds

Undecided == -2
None == -1

VARIABLES
  task,          \* never changes
  operators,     \* _operators; never changes
  assignments,   \* per fluent, the values it can hold, in the order they were found
  oldSizes,      \* old_sizes_by_expr and eff_old_sizes, by the place
  known,         \* cache_can_be_true
  applied,       \* applied_operators
  changes,       \* assignments_changes
  collected,     \* new_assignments
  turn,          \* the operator to look at; 0 to test the goal
  depth,
  answer,
  tried,         \* the combinations a place was evaluated on
  repeated,      \* whether it was so twice on any
  reachable      \* the states that `depth` events of the problem really lead to

static == <<task, operators>>
vars == <<static, assignments, oldSizes, known, applied, changes, collected, turn, depth, answer, tried, repeated, reachable>>
-----------------------------------------------------------------------------
(* __init__: one operator per event, with a fluent of its own that says that *)
(* this was the last event of its action.                                    *)
EventsOf(t) == UNION {{a} \X DOMAIN t.events[a] : a \in DOMAIN t.events}
Flag(t, a, i) == Len(t.start) + Cardinality({e \in EventsOf(t) : e[1] < a}) + i
LastFlag(t, a) == Flag(t, a, Len(t.events[a]))
Before(t, a, i) == IF i = 1 THEN LastFlag(t, a) ELSE Flag(t, a, i - 1)

Operator(t, a, i) ==
  [event |-> <<a, i>>,
   conditions |-> <<<<Fluent(Before(t, a, i))>>>> \o t.events[a][i].conditions,
   effects |-> <<[fluent |-> Flag(t, a, i), value |-> <<True>>]>> \o t.events[a][i].effects]
Possible(t, a, i) == <<False>> \notin Range(t.events[a][i].conditions) /\ ~(i = 1 /\ a = t.timed)
OperatorsOf(t) == {Operator(t, e[1], e[2]) : e \in {x \in EventsOf(t) : Possible(t, x[1], x[2])}}

Goals ==
  Conjuncts(task.goal) \o [a \in DOMAIN task.events |-> <<Fluent(LastFlag(task, a))>>]

(* The values in the state, and how far its actions are.                     *)
FluentsIn(t) == DOMAIN t.start \cup {Flag(t, e[1], e[2]) : e \in EventsOf(t)}
Progress(t, a) == IF t.todo[a] = 0 THEN Len(t.events[a]) ELSE t.todo[a]
Beginning(t) ==
  [f \in FluentsIn(t) |->
     IF f \in DOMAIN t.start THEN t.start[f] ELSE Truth(\E a \in DOMAIN t.events : f = Flag(t, a, Progress(t, a)))]

(* _dedup_fluents. Their order only decides in which order the combinations  *)
(* of their values are looked at.                                            *)
FluentSet(exp) == {FluentOf(exp[i]) : i \in {j \in DOMAIN exp : exp[j].kind = "fluent"}}
FluentsOf(exp) == SetToSeq(FluentSet(exp))
ConditionFluents(o) == UNION {FluentSet(o.conditions[k]) : k \in DOMAIN o.conditions}
EffectFluents(o) == UNION {FluentSet(o.effects[j].value) : j \in DOMAIN o.effects}
-----------------------------------------------------------------------------
(* _for_each_new_value. A combination is a tuple of positions in the lists.  *)
(* The first position with a new value tells the blocks apart; an expression *)
(* without fluents has one, empty, combination.                              *)
Sizes(exp) == LET fluents == FluentsOf(exp) IN [k \in DOMAIN fluents |-> Len(assignments[fluents[k]])]
Old(place, exp) == IF place \in DOMAIN oldSizes THEN oldSizes[place] ELSE [k \in DOMAIN FluentsOf(exp) |-> 0]

OnlyNew(i, j, old, new) == (old + 1)..new
Positions(i, j, old, new) ==
  IF i < j THEN 1..old ELSE IF i = j THEN (old + 1)..new ELSE 1..new

Block(j, old, new) ==
  LET sides == [i \in DOMAIN new |-> Positions(i, j, old[i], new[i])]
  IN  {c \in [DOMAIN new -> UNION {1..new[i] : i \in DOMAIN new}] : \A i \in DOMAIN new : c[i] \in sides[i]}

(* Per first position with a new value, <<it, the combinations>>.            *)
Blocks(place, exp) ==
  IF FluentSet(exp) = {} THEN (IF place \in DOMAIN oldSizes THEN {} ELSE {<<0, {<<>>}>>})
  ELSE LET old == Old(place, exp)
           new == Sizes(exp)
       IN  IF old = new THEN {} ELSE {<<j, Block(j, old, new)>> : j \in DOMAIN new}
All(blocks) == UNION {b[2] : b \in blocks}

Valuation(exp, combination) ==
  LET fluents == FluentsOf(exp)
  IN  [f \in FluentSet(exp) |-> assignments[f][combination[CHOOSE k \in DOMAIN fluents : fluents[k] = f]]]
NewValues(place, exp) == {Evaluate(exp, Valuation(exp, c)) : c \in All(Blocks(place, exp))}

(* What is remembered when the expressions `exps`, by the place, have been    *)
(* looked at.                                                                *)
Looked(exps) ==
  \E blocks \in {[p \in DOMAIN exps |-> Blocks(p, exps[p])]} :
    LET before(p) == IF p \in DOMAIN tried THEN tried[p] ELSE {}
    IN  /\ oldSizes' = [p \in DOMAIN oldSizes \cup DOMAIN exps |->
                          IF p \in DOMAIN exps THEN Sizes(exps[p]) ELSE oldSizes[p]]
        /\ tried' = [p \in DOMAIN tried \cup DOMAIN exps |->
                       IF p \in DOMAIN exps THEN before(p) \cup All(blocks[p]) ELSE tried[p]]
        /\ repeated' = (repeated \/ \E p \in DOMAIN exps :
                          \/ before(p) \cap All(blocks[p]) # {}
                          \/ \E b, c \in blocks[p] : b # c /\ b[2] \cap c[2] # {})

(* _can_be_true: one condition after the other, up to the first that cannot. *)
(* One that can is not looked at again.                                      *)
At(exp) == <<0, 0, exp>>
AtEffect(i, j) == <<i, j, <<>>>>
Able(exps) == {e \in Range(exps) : e \in known \/ True \in NewValues(At(e), e)}
Visited(exps, able) == {exps[k] : k \in {l \in DOMAIN exps : \A j \in 1..(l - 1) : exps[j] \in able}}
Learned(exps, able) ==
  /\ known' = known \cup (Visited(exps, able) \cap able)
  /\ Looked([p \in {At(e) : e \in Visited(exps, able) \ able} |-> p[3]])
-----------------------------------------------------------------------------
(* A problem has fluents, and speaks of no others; an event's conditions are *)
(* its conjuncts other than True.                                            *)
Formulas(t) ==
  Seq({n \in [kind : STRING, value : Int \X Int, operands : Seq(Int)] :
         n.kind = "fluent" => FluentOf(n) \in DOMAIN t.start})
EventsIn(t) ==
  [conditions : Seq(Formulas(t)), effects : Seq([fluent : DOMAIN t.start, value : Formulas(t)])]
TasksAssumption ==
  \A t \in Tasks :
    /\ DOMAIN t.start = 1..Len(t.start) /\ Len(t.start) \in Nat \ {0}
    /\ t.events \in Seq(Seq(EventsIn(t)) \ {<<>>})
    /\ Conjuncts(t.goal) \in Seq(Formulas(t))

Init ==
  /\ task \in Tasks
  /\ operators = SetToSeq(OperatorsOf(task))
  /\ assignments = [f \in DOMAIN Beginning(task) |-> <<Beginning(task)[f]>>]
  /\ oldSizes = <<>> /\ known = {} /\ tried = <<>> /\ repeated = FALSE
  /\ applied = {}
  /\ changes = DOMAIN Beginning(task)
  /\ collected = [f \in DOMAIN Beginning(task) |-> {}]
  /\ turn = 0
  /\ depth = 0
  /\ answer = Undecided
  /\ reachable = {Beginning(task)}

(* The loop head: with nothing changed, the goal is out of reach.            *)
TestGoal ==
  /\ answer = Undecided /\ turn = 0
  /\ IF changes = {} THEN answer' = None /\ UNCHANGED <<known, oldSizes, tried, repeated, turn>>
     ELSE \E able \in {Able(Goals)} :
          /\ Learned(Goals, able)
          /\ IF Range(Goals) \subseteq able THEN answer' = depth /\ UNCHANGED turn ELSE turn' = 1 /\ UNCHANGED answer
  /\ UNCHANGED <<static, assignments, applied, changes, collected, depth, reachable>>

(* An operator is looked at again only if what it reads has changed: its     *)
(* conditions until it is applied, then its effects.                         *)
Reads(i) ==
  changes \cap (IF i \in applied THEN EffectFluents(operators[i]) ELSE ConditionFluents(operators[i])) # {}

ApplyEffects(i) ==
  /\ applied' = applied \cup {i}
  /\ collected' =
       [f \in DOMAIN collected |->
          collected[f] \cup UNION {NewValues(AtEffect(i, j), operators[i].effects[j].value) :
                                     j \in {k \in DOMAIN operators[i].effects : operators[i].effects[k].fluent = f}}]
  /\ Looked([p \in {AtEffect(i, j) : j \in DOMAIN operators[i].effects} |-> operators[i].effects[p[2]].value])

Consider(i) ==
  \/ /\ ~Reads(i)
     /\ UNCHANGED <<applied, collected, known, oldSizes, tried, repeated>>
  \/ /\ Reads(i) /\ i \notin applied
     /\ \E able \in {Able(operators[i].conditions)} :
          IF Range(operators[i].conditions) \subseteq able
            THEN known' = known \cup able /\ ApplyEffects(i)
            ELSE Learned(operators[i].conditions, able) /\ UNCHANGED <<applied, collected>>
  \/ Reads(i) /\ i \in applied /\ ApplyEffects(i) /\ UNCHANGED known

Operate ==
  /\ turn \in DOMAIN operators
  /\ turn' = turn + 1
  /\ Consider(turn)
  /\ UNCHANGED <<static, assignments, changes, depth, answer, reachable>>

(* An event of the problem.                                                  *)
Occur(o, s) ==
  LET before == Before(task, o.event[1], o.event[2])
      giving(f) == {j \in DOMAIN o.effects : o.effects[j].fluent = f}
  IN  [f \in DOMAIN s |->
         IF giving(f) # {} THEN Evaluate(o.effects[CHOOSE j \in giving(f) : TRUE].value, s)
         ELSE IF f = before THEN False
         ELSE s[f]]
Successors(s) ==
  {Occur(o, s) : o \in {p \in Range(operators) : \A k \in DOMAIN p.conditions : Evaluate(p.conditions[k], s) = True}}

(* The end of a round: what was collected is added, in any order.            *)
NewOf(f) == SetToSeq(collected[f] \ Range(assignments[f]))
EndRound ==
  /\ turn = Len(operators) + 1 /\ depth < MaxRounds
  /\ assignments' = [f \in DOMAIN assignments |-> assignments[f] \o NewOf(f)]
  /\ changes' = {f \in DOMAIN assignments : collected[f] \ Range(assignments[f]) # {}}
  /\ collected' = [f \in DOMAIN collected |-> {}]
  /\ depth' = depth + 1
  /\ reachable' = reachable \cup UNION {Successors(s) : s \in reachable}
  /\ turn' = 0
  /\ UNCHANGED <<static, oldSizes, known, applied, answer, tried, repeated>>

Next == TestGoal \/ Operate \/ EndRound

(* An evaluation runs to its end.                                            *)
Spec == Init /\ [][Next]_vars /\ WF_vars(Next)
-----------------------------------------------------------------------------
TypeOK ==
  /\ turn \in 0..(Len(operators) + 1)
  /\ \A f \in DOMAIN assignments :
       /\ assignments[f] # <<>> /\ IsInjective(assignments[f])
  /\ changes \subseteq DOMAIN assignments
  /\ applied \subseteq DOMAIN operators
  /\ answer \in {Undecided, None} \cup Nat

(* "Which round first sees a given combination doesn't matter, only that     *)
(* it's seen exactly once": never twice, ...                                 *)
NeverTwice == ~repeated

(* ... and none is missed. Where a round starts, an operator that was        *)
(* applied has given its fluents all that they can get from the values of    *)
(* the last round; nothing that came since is forgotten.                     *)
Layer == [f \in DOMAIN assignments |-> Range(assignments[f])]
CanBeTrue(exp, layer) ==
  \E s \in [FluentSet(exp) -> UNION {layer[f] : f \in FluentSet(exp)}] :
    (\A f \in DOMAIN s : s[f] \in layer[f]) /\ Evaluate(exp, s) = True
Given(o, f, layer) ==
  UNION {{Evaluate(e.value, s) : s \in {x \in [FluentSet(e.value) -> UNION {layer[g] : g \in FluentSet(e.value)}] :
                                          \A g \in DOMAIN x : x[g] \in layer[g]}} :
           e \in {o.effects[j] : j \in {k \in DOMAIN o.effects : o.effects[k].fluent = f}}}

(* It computes the layers of the abstract specification, although it skips   *)
(* operators and looks only at what is new.                                  *)
Layers ==
  INSTANCE LayeredReachability WITH
    layer <- Layer,
    operators <- {[conditions |-> Range(operators[i].conditions), effects |-> operators[i].effects] : i \in DOMAIN operators},
    goals <- Range(Goals),
    moved <- changes # {},
    Impossible <- None

(* The loop has no bound of its own (heuristics.py:2007): where an effect    *)
(* takes a number out of every range, each round may add another value. Such *)
(* an evaluation ends if the goal is reached, and need not end otherwise.    *)
GoalHolds(s) == \A k \in DOMAIN Goals : Evaluate(Goals[k], s) = True
Ranging(f, n) == IF Beginning(task)[f].kind = "bool" THEN {True, False} ELSE {Number(i) : i \in -n..n}
StaysWithin(n) ==
  /\ \A f \in FluentsIn(task) : Beginning(task)[f] \in Ranging(f, n)
  /\ \A o \in Range(operators) : \A e \in Range(o.effects) :
       Given(o, e.fluent, [f \in FluentsIn(task) |-> Ranging(f, n)]) \subseteq Ranging(e.fluent, n)
Endless ==
  /\ depth = MaxRounds
  /\ ~ \E n \in 0..MaxRounds : StaysWithin(n)
  /\ ~ \E s \in reachable : GoalHolds(s)

(* hmax does not overestimate: the goal is answered before another round if  *)
(* any sequence of as many events as there were rounds reaches it, and None  *)
(* only if none does at all.                                                 *)
Admissible ==
  \A s \in reachable :
    GoalHolds(s) => turn = 0 /\ answer # None
=============================================================================
