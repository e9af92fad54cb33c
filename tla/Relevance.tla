----------------------------- MODULE Relevance -----------------------------
(****************************************************************************)
(* What the encoder leaves out of the search: actions that cannot help to    *)
(* reach the goal, and fluents nothing that is left reads. The fluents that  *)
(* stay are numbered anew, and the problem is encoded again under the new    *)
(* numbers.                                                                  *)
(*                                                                           *)
(* A behaviour carries out a plan of the whole problem and, beside it, the   *)
(* same plan without the pruned actions in the encoded problem.              *)
(*                                                                           *)
(* The fluents hold truth values. A condition is a function from the fluents *)
(* it mentions to the values it asks for; an effect assigns a constant or    *)
(* the value of a fluent. An action is its events, the condition it          *)
(* maintains from the first to the last, and the fluent its duration depends *)
(* on.                                                                       *)
(****************************************************************************)
EXTENDS Naturals, FiniteSets, Sequences, SequencesExt, FiniteSetsExt

CONSTANTS
  Fluents,     \* the names of the fluents, sorted
  Problems     \* the problems that are encoded

Fluent == ToSet(Fluents)
NoTimed == "no timed action"
NoFluent == "constant"

VARIABLES
  problem,
  options,     \* which of the two analyses are on
  begins,      \* whether the problem has an initial state
  considered,  \* the actions the search expands
  slots,       \* the number of each fluent that is kept
  durationSlot,\* the number each action's encoded duration reads; 0 for none
  full,        \* the value of each fluent
  slim,        \* the values of the kept fluents, by number
  todo,        \* the next event of each action under way
  kept         \* whether the encoded plan got through so far

vars == <<problem, options, begins, considered, slots, durationSlot, full, slim, todo, kept>>
encoding == <<problem, options, begins, considered, slots, durationSlot>>

Actions(p) == DOMAIN p.actions
EventsOf(p, a) == p.actions[a].events
EventSet(p, a) == ToSet(EventsOf(p, a))
Constant(v) == [is |-> v]
Value(f) == [reads |-> f]
ValueReads(x) == IF "is" \in DOMAIN x THEN {} ELSE {x.reads}
Evaluated(x, s) == IF "is" \in DOMAIN x THEN x.is ELSE s[x.reads]
Satisfied(c, s) == \A f \in DOMAIN c : s[f] = c[f]
After(e, s) == [f \in DOMAIN s |-> IF f \in DOMAIN e.effects THEN Evaluated(e.effects[f], s) ELSE s[f]]

(* An action with a condition that is constantly false is not applicable.    *)
Applicable(p) == {a \in Actions(p) : ~p.actions[a].impossible}

ReadByBounds(p, a) == {p.actions[a].duration} \ {NoFluent}

(* The inputs. A condition is maintained between events, and the timed       *)
(* action has none that is constantly false.                                 *)
ConditionWellFormed(c) == DOMAIN c \subseteq Fluent
EffectsWellFormed(effects) ==
  /\ DOMAIN effects \subseteq Fluent
  /\ \A f \in DOMAIN effects : effects[f] \in {Constant(v) : v \in BOOLEAN} \cup {Value(g) : g \in Fluent}
ActionWellFormed(p, a) ==
  /\ EventsOf(p, a) \in Seq(EventSet(p, a)) /\ EventsOf(p, a) # <<>>
  /\ \A e \in EventSet(p, a) : ConditionWellFormed(e.pre) /\ EffectsWellFormed(e.effects)
  /\ ConditionWellFormed(p.actions[a].maintained)
  /\ Len(EventsOf(p, a)) = 1 => DOMAIN p.actions[a].maintained = {}
  /\ ReadByBounds(p, a) \subseteq Fluent
ProblemWellFormed(p) ==
  /\ p.init \in [Fluent -> BOOLEAN]
  /\ p.timed # NoTimed => p.timed \in Applicable(p)
  /\ \A a \in Actions(p) : ActionWellFormed(p, a)
  /\ ConditionWellFormed(p.goal)
RelevanceAssumption == Fluents \in Seq(Fluent) /\ \A p \in Problems : ProblemWellFormed(p)

(* What an action reads outside of the values of its effects; the condition  *)
(* it maintains is read where it ends.                                       *)
ReadFluents(p, a) ==
  (UNION {DOMAIN e.pre : e \in EventSet(p, a)}) \cup DOMAIN p.actions[a].maintained
    \cup ReadByBounds(p, a)
Writes(p, a) == UNION {DOMAIN e.effects : e \in EventSet(p, a)}
ReadByEffects(p, a, f) ==
  UNION {ValueReads(e.effects[f]) : e \in {d \in EventSet(p, a) : f \in DOMAIN d.effects}}
DependsOnConditions(p, a) == ReadFluents(p, a)
Depends(p, a) == ReadFluents(p, a) \cup UNION {ReadByEffects(p, a, f) : f \in Writes(p, a)}

(* The least set that contains a seed and is closed under Grow, for growth   *)
(* within a universe.                                                        *)
Closure(seed, Grow(_), universe) ==
  LET closed == {s \in SUBSET universe : seed \subseteq s /\ Grow(s) \subseteq s}
  IN  {x \in universe : \A s \in closed : x \in s}

(* The actions all of whose events can fire once a fluent keeps every value  *)
(* it ever had. An event needs the one before; the timed action's first has  *)
(* fired. What an action maintains is asked for where it ends, and an effect *)
(* that reads a fluent may give any value.                                   *)
Possible(c, facts) == \A f \in DOMAIN c : <<f, c[f]>> \in facts
Operators(p, a) == DOMAIN EventsOf(p, a) \ (IF a = p.timed THEN {1} ELSE {})
Fireable(p, a, i, facts) ==
  \A j \in Operators(p, a) : j <= i =>
    /\ Possible(EventsOf(p, a)[j].pre, facts)
    /\ j = Len(EventsOf(p, a)) => Possible(p.actions[a].maintained, facts)
Outcomes(x) == IF "is" \in DOMAIN x THEN {x.is} ELSE BOOLEAN
Added(e) == UNION {{f} \X Outcomes(e.effects[f]) : f \in DOMAIN e.effects}
Reach(p, facts) ==
  UNION {UNION {Added(EventsOf(p, a)[i]) : i \in {j \in Operators(p, a) : Fireable(p, a, j, facts)}} :
           a \in Applicable(p)}
Reached(p, from) ==
  Closure({<<f, from[f]>> : f \in Fluent}, LAMBDA facts : Reach(p, facts), Fluent \X BOOLEAN)
ReachableActions(p, from) ==
  LET facts == Reached(p, from)
  IN  {a \in Applicable(p) : Operators(p, a) # {} /\ Fireable(p, a, Len(EventsOf(p, a)), facts)}

(* Backwards from the goal and the timed goals: an action that writes what   *)
(* matters matters, and so does all it depends on.                           *)
GoalReads(p) == DOMAIN p.goal
TimedReads(p) == IF p.timed = NoTimed THEN {} ELSE ReadFluents(p, p.timed)
Serving(p, reachable, fs) == {a \in reachable : Writes(p, a) \cap fs # {}}
Matters(p, reachable) ==
  Closure(GoalReads(p) \cup TimedReads(p),
          LAMBDA fs : UNION {Depends(p, a) : a \in Serving(p, reachable, fs)}, Fluent)
RelevantActions(p, from) ==
  LET reachable == ReachableActions(p, from)
  IN  Serving(p, reachable, Matters(p, reachable)) \cup ({p.timed} \ {NoTimed})

(* The fluents read by what is left, and by the effects on those.            *)
RelevantFluents(p, actions) ==
  Closure(GoalReads(p) \cup UNION {ReadFluents(p, a) : a \in actions},
          LAMBDA fs : UNION {UNION {ReadByEffects(p, a, f) : f \in fs \cap Writes(p, a)} : a \in actions},
          Fluent)

(* The numbers of the fluents of a set, in the order of their names.         *)
Place(f) == CHOOSE n \in DOMAIN Fluents : Fluents[n] = f
Numbered(fs) == [f \in fs |-> Cardinality({g \in fs : Place(g) <= Place(f)})]
NumberIn(numbers, f) == IF f \in DOMAIN numbers THEN numbers[f] ELSE 0
(* Under the second numbering only the actions that are left are converted,  *)
(* and none if no duration reads a fluent.                                   *)
DurationSlots(p, actions, first, second) ==
  [a \in Actions(p) |->
     IF ReadByBounds(p, a) = {} THEN 0
     ELSE NumberIn(IF a \in actions THEN second ELSE first, p.actions[a].duration)]

(* The timed action starts with the plan: its first event makes the initial  *)
(* state, or there is none.                                                  *)
FirstOf(p) == EventsOf(p, p.timed)[1]
Begins(p) == p.timed = NoTimed \/ /\ Satisfied(FirstOf(p).pre, p.init)
                                  /\ Satisfied(p.actions[p.timed].maintained, After(FirstOf(p), p.init))
Beginning(p) == IF p.timed = NoTimed THEN p.init ELSE After(FirstOf(p), p.init)

Considered(p, on) ==
  IF ~on.actions THEN Applicable(p)
  ELSE IF ~Begins(p) THEN {p.timed} ELSE RelevantActions(p, Beginning(p))

Init ==
  /\ problem \in Problems
  /\ options \in [actions : BOOLEAN, fluents : BOOLEAN]
  /\ begins = Begins(problem)
  /\ considered = Considered(problem, options)
  /\ slots = Numbered(IF options.fluents THEN RelevantFluents(problem, considered) ELSE Fluent)
  /\ durationSlot = DurationSlots(problem, considered, Numbered(Fluent), slots)
  /\ full = Beginning(problem)
  /\ slim = [n \in 1 .. Cardinality(DOMAIN slots) |->
               full[CHOOSE f \in DOMAIN slots : slots[f] = n]]
  /\ todo = [a \in {b \in {problem.timed} \ {NoTimed} : Len(EventsOf(problem, b)) > 1} |-> 2]
  /\ kept = TRUE

(* The encoded problem: its reads and writes go by number. *)
SlimView == [f \in DOMAIN slots |-> slim[slots[f]]]
SlimSatisfied(c, s) == \A f \in DOMAIN c : s[slots[f]] = c[f]
SlimAfter(e, s) ==
  [n \in DOMAIN s |->
     LET f == CHOOSE g \in DOMAIN slots : slots[g] = n
     IN  IF f \in DOMAIN e.effects THEN Evaluated(e.effects[f], SlimView) ELSE s[n]]

Busy(t) == {a \in DOMAIN t : t[a] <= Len(EventsOf(problem, a))}
Maintained(t) == {problem.actions[a].maintained : a \in Busy(t)}
Fires(a, i) ==
  LET e == EventsOf(problem, a)[i]
      next == [b \in DOMAIN todo \cup {a} |-> IF b = a THEN i + 1 ELSE todo[b]]
  IN  /\ Satisfied(e.pre, full)
      /\ \A c \in Maintained(next) : Satisfied(c, After(e, full))
      /\ full' = After(e, full)
      /\ todo' = [b \in Busy(next) |-> next[b]]
      /\ IF a \notin considered THEN UNCHANGED <<slim, kept>>
         ELSE /\ slim' = SlimAfter(e, slim)
              /\ kept' = (/\ kept
                          /\ SlimSatisfied(e.pre, slim)
                          /\ \A b \in Busy(next) \cap considered :
                               SlimSatisfied(problem.actions[b].maintained, slim')
                          /\ (i = 1 /\ durationSlot[a] # 0) =>
                               slim[durationSlot[a]] = full[problem.actions[a].duration])
      /\ UNCHANGED encoding

Open(a) ==
  /\ begins /\ a \in Applicable(problem) \ {problem.timed} /\ a \notin DOMAIN todo
  /\ Fires(a, 1)
Continue(a) == begins /\ a \in Busy(todo) /\ Fires(a, todo[a])

Next == \E a \in Actions(problem) : Open(a) \/ Continue(a)

Spec == Init /\ [][Next]_vars

----------------------------------------------------------------------------
(* The search state of a state of the problem: a static fluent keeps its     *)
(* initial value.                                                            *)
StaticAmongTheLeft(p) == Fluent \ UNION {Writes(p, a) : a \in considered}
Static(p) == Fluent \ UNION {Writes(p, a) : a \in Actions(p)}
StateOf(s) ==
  [n \in DOMAIN slim |->
     LET f == CHOOSE g \in DOMAIN slots : slots[g] = n
     IN  IF f \in Static(problem) THEN problem.init[f] ELSE s[f]]

TypeOK ==
  /\ considered \subseteq Actions(problem)
  /\ DOMAIN slots \subseteq Fluent
  /\ \A f, g \in DOMAIN slots : slots[f] \in DOMAIN slim /\ (slots[f] = slots[g] => f = g)
  /\ DOMAIN full = Fluent
  /\ DOMAIN todo \subseteq Applicable(problem)
  /\ begins \in BOOLEAN /\ kept \in BOOLEAN

(* Everything the encoded problem reads has a number: the goal, the events,  *)
(* bounds and maintained conditions of the actions that are left, and the    *)
(* values of their effects on fluents that are kept.                         *)
ReadsResolve ==
  /\ GoalReads(problem) \subseteq DOMAIN slots
  /\ \A a \in considered :
       /\ \A e \in EventSet(problem, a) : DOMAIN e.pre \subseteq DOMAIN slots
       /\ DOMAIN problem.actions[a].maintained \subseteq DOMAIN slots
       /\ ReadByBounds(problem, a) \subseteq DOMAIN slots
       /\ \A f \in Writes(problem, a) \cap DOMAIN slots :
            ReadByEffects(problem, a, f) \subseteq DOMAIN slots

(* Whatever the whole problem carries out to the end, the encoded problem    *)
(* carries out without the pruned actions: every condition, maintained       *)
(* condition and duration it evaluates comes out as in the whole problem.    *)
PlanSurvives == (begins /\ todo = <<>>) => kept

(* ... and where the plan reaches the goal, the shorter one does.            *)
GoalSurvives ==
  (begins /\ todo = <<>> /\ Satisfied(problem.goal, full)) => SlimSatisfied(problem.goal, slim)

(* A state of the problem that is handed to the heuristic has, slot by slot, *)
(* the values it has in the problem.                                         *)
StateOfIsRight == todo = <<>> => \A f \in DOMAIN slots : StateOf(full)[slots[f]] = full[f]
=============================================================================
