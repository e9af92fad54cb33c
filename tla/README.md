# TamerLite in TLA+

TamerLite is a heuristic-search planner for classical and temporal problems with
intermediate conditions and effects. This directory holds TLA+ models of it, the TLC
configurations that check them on small instances, and proofs, checked by TLAPS, of what
holds for every instance. Definitions carry the names the code uses; `PROJECT.json` maps
each one to the lines it models and lists the hazards, each at its line with the
properties that would catch it. Paths below are relative to the repository
(`src/tamerlite/...` is Python, `crates/rustamer-base/src/...` is Rust); line numbers
are those of the Python code unless a file is named.

## The system

A problem is grounded and encoded, a search walks a space of search states, and the
branch that ends in a goal becomes a plan.

```
engine ──> encoder ──> search space <──── search ────> heuristics, novelty
   ^                    │       ▲           │
   │                    ▼       │           ▼
   └── build_plan <── temporal network   open lists, visited-state store
```

| component | state | operations | correct when |
|---|---|---|---|
| temporal network (`stn.rs`, and the external `DeltaSimpleTemporalNetwork` in Python) | distances, adjacency lists shared between copies, `is_sat` | `add`, `check`, `get_model_value`, copy | the verdict is exact, the distances are the earliest schedule, `add` returns |
| search space (`core/search_space.py`) | per search state: assignments, `todo`, active conditions (a multiset), path, network, depth | `initial_state`, `get_successor_state`, `goal_reached`, `makespan`, `build_plan` | every maintained condition holds, the network orders the whole branch, the plan is valid and meets the deadline |
| priority-queue searches (`core/search.py`) | open list, visited-state store, counters | `_priority_search` and its callers: weighted A*, A*, greedy, novelty search, and their memory-bounded forms | a plan is a goal branch; "no plan" is said only when there is none; the loop ends; limits are exact |
| other searches (`core/search.py`, `core/multiqueue.py`) | closed set, several queues sharing an expanded flag | `ehc_search`, `bfs`/`dfs`, `multiqueue_search` | the same, for the complete ones |
| novelty (`core/novelty.py`) | tables of what was seen, filled in evaluation order; caches of one expansion | `start`, `begin_expansion`, `eval` | a state's novelty depends only on what was recorded before it |
| heuristics (`core/heuristics.py`) | costs, a heap, layers of values | `eval`, `reachable_actions` | a dead end is answered only where no plan exists; values are those of the relaxation |
| encoder (`encoder.py`) | the encoded problem | events from timed conditions and effects, relevance, object symmetry, compression safety | the encoded space has a plan if the problem has one |
| engine (`engine.py`) | incumbent, bound of the next improvement, remaining time | one-shot solving with a retry, anytime improvement | statuses claim no more than the search showed |
| interpreted functions (`converter.py`, `interpreted_functions.rs`) | registry of callables, ids, count of live scopes | register, resolve, scope, clear | an id never resolves to another function |
| expressions (`search_space.py`, `converter.py`) | none | shift, split, evaluate, simplify | the value is kept |
| bindings, package | none | registration | – |

Nothing here runs in parallel: the planner is one thread. What is hard is the order of
things. States are built lazily and share structure; a check is skipped because an
earlier one is said to imply it; a state is recorded long before it is expanded and
prunes others meanwhile; extraction schedules a network other than the one the search
checked; a generator may be suspended between two solutions of the anytime loop while
others run; a timeout or an expansion limit may end any loop; caches say what need not
be computed again; and every analysis of the encoder removes something on the argument
that no plan needs it.

## Modules

| module | models |
|---|---|
| `STN` | what a temporal network promises: verdict and earliest schedule of the constraints asserted so far |
| `DeltaSTN` | `stn.rs`: `add` with its subsumption test and `inc_check`, one relaxation per step |
| `Schedules` | the networks of the search and of extraction, as a whole `add` leaves them |
| `TemporalSpace` | `search_space.py`: search states, successors, initial state, goal test, makespan |
| `PlanExtraction` | `build_plan`, and, from the problem alone, what a valid plan is |
| `SearchSpaces`, `ClassicalSpaces` | what every search searches; all such graphs on three nodes |
| `PrioritySearch` | `_priority_search` with its open lists, dedup policies and stores |
| `MultiqueueSearch` | `_multiqueue_search` with the round-robin policy |
| `DequeSearch` | `_basic_search` (breadth-first, depth-first) and `ehc_search` |
| `Searches` | the round-robin and the deque searches together, one of them called |
| `AnytimeContract`, `Engine` | what an anytime planner promises; the one-shot call and the improvement loop |
| `FunctionScopes` | the registry of interpreted functions and the scopes of its runs |
| `DeleteRelaxation` | `_eval_core`: hmax, hadd, hff, and the reachability analysis |
| `HeuristicConditions` | the rewriting of conditions for the delete relaxation; counts for numeric ones |
| `LayeredReachability`, `ExplicitHMax` | the layers of reachable values; the evaluation that computes them |
| `Novelty` | partitions, feature tables, caches of the expanded state |
| `Expressions`, `Simplification` | postfix expressions with their positions; simplifying under known fluents |
| `EventEncoding` | timed conditions and effects to events; folding; separation of events |
| `Relevance` | relevant actions, relevant fluents, the second encoding |
| `ObjectSymmetry` | classes of interchangeable objects and the rule of the search |
| `CompressionSafety` | which actions may be carried out in one go |
| `Heuristics` | one evaluation: of a heuristic, of the conditions it sees, of the explicit hmax, or of the novelty measure |
| `Encoder` | one analysis: events, relevance, symmetry, compression, or the simplification of an expression |
| `MC*` | instances for TLC |
| `*_proofs` | theorems and proofs |

How they compose. `DeltaSTN` implements `STN` (`ImplementsSTN`, theorem `Refinement`),
`Engine` implements `AnytimeContract` (`KeepsContract`, theorem `EngineImplementsContract`), and `ExplicitHMax` implements
`LayeredReachability` (`KeepsLayers`, theorem `LayersWithoutRepetition`), each under a refinement mapping.
`PlanExtraction` extends `TemporalSpace`, which extends `Schedules`. `MCPrioritySearch`
computes the whole space of a temporal problem with `TemporalSpace` and searches it with
`PrioritySearch`. `Engine` takes a search for an oracle and assumes of it what the
search modules check. The parts that `Searches`, `Heuristics` and `Encoder` put together
share no state in the code either: there a behaviour is about one of them.

### Temporal network and search space

*DeltaSTN.* `distances`, `constraints`, `is_sat` are the fields of the Rust struct;
`queue`, `cur`, `pending` are the locals of `inc_check`. Actions: `Add` (the call up to
the first relaxation), `Pop`, `Relax` (one neighbour; its three cases are the branches of
the loop body). `edge`, `asserted` and `base` are history. An adjacency list is the set
of its entries: the code walks it newest first, the model in any order, which only adds
behaviours, and `is_subsumed` looks at the newest entry of a pair, which is the tightest.
Rationals and floats with a tolerance become integers: bounds are multiples of a grain
coarser than the tolerance. In the search the tolerance is a thousandth of epsilon; in
`build_plan` it is zero.

*TemporalSpace.* `state` is a `State`; a behaviour goes down one branch, an `Apply(a)`
per `get_successor_state`. `Successors` is `get_successor_state_with_compression`, with
`Continued`, `Opened` and `Finish` for its three paths, and `Expand` for `_expand_event`.
Each returns the set of results: empty where the code returns `None`. An expression is
its set of fluents and its value in every assignment, so that mutex and precedence are
computed as the code computes them, from fluents, and evaluation is application. Instance
ids number the openings of the branch; the code's counter runs over the whole search, and
only distinctness within a branch matters. Times are integers in a unit finer than
epsilon. A problem without durations never builds a network; such problems are the graphs
of `ClassicalSpaces`.

*PlanExtraction.* `PlanNetworks` holds the network `build_plan` builds from a branch
replayed without compression: durations read in the state before each opening, the
anchors, `PlanOrder` between fired events (epsilon for mutex pairs, zero for precedence
pairs, nothing for the others), `PlanPending` towards events not yet fired. `BuildPlan`
reads the dates. `Valid` is independent of the search: it executes the plan's happenings
by time and checks conditions, interference, maintained intervals, durations and goal.

### Searches

A space is a graph of nodes with what a search looks at: successors in order, goal, dedup
key, pending actions, makespan, and for each node the priorities an evaluation may give
(`Dead` for a dead end). That priorities come from a set is how g, weight, heuristic and
novelty are abstracted: a search only compares them. Actions follow the functions:
`Start` (everything before the loop), `Timeout`, `LimitReached`, `Exhausted`, `Expand`
(pop, count, goal test), `Generate` (one successor: goal test and dedup), `Evaluate` (one
item of `eval_gen`, with the push). Configurations choose early termination, limit,
timeout, and, of the priority search, bound of the open list, Bloom filter and weak
equality. `accepted`, `closed` and `lost` of `PrioritySearch` are history.

`MultiqueueSearch` keeps one open list per heuristic. `Fill` evaluates one queue's
heuristic on all new states; `Skip` pops an item that another queue expanded. The loop
ends at the first empty queue. `DequeSearch` has the three kinds in one module because
they are one loop: breadth-first takes the oldest item, depth-first the newest, and hill
climbing is breadth-first that drops everything at each improvement of `best`.

### Engine and interpreted functions

*Engine.* `phase` says where the generator stands; `Compile`, `Encode`, `SearchPlan`,
`Iterate`, `SearchTimeout`, `SearchLimit`, `SearchNone`, `Resume`, `Conclude` follow
`_solve_with_params`, `_anytime_solutions` and `_solve_ground_problem`. A search is an
oracle: any plan within the bound, or none, where `MayLoseStates` says when none may be
answered although there is a plan. Of the plans of a problem, the compressed space keeps
any set. The engine trusts compression to keep, for every plan, one of the same costs
(engine.py:1005-1012), which the code does not ensure (finding `short_light`); so what a
status claims is stated of the plans with such a counterpart (`Represented`), and of every
plan for the makespan, where the engine does not trust it (`Rivals`). A plan is what a metric
reads of it. `Bounded` is the bounded problem of the next round: a goal,
and a precondition of every action. The clock counts iterations of searches, encodings
and the caller's pauses; a retry gets what the first search left.

*FunctionScopes.* A run (a one-shot call, a suspended generator, a heuristic) opens a
scope, converts (`Convert`: a wrapper at an address, an id for it), evaluates and closes,
in any order with other runs; the last scope clears. A closed run may be opened again, so
runs can overlap without end. The caller may let go of a suspended generator (`Drop`): it
leaves its scope when it is collected (`Collect`), or never does, which converter.py:114-117
names as the one leak. Addresses of collected wrappers are reused. `forced` remembers that somebody called `clear_interpreted_function_cache`.

### Heuristics and novelty

*DeleteRelaxation* is the Dijkstra of `_eval_core`: `Pop` takes an operator off the heap,
`UpdateNext` and `Reread` spread what it adds, one condition at a time, `Finish` reads
the value, `Extract` and `Extracted` walk the achievers of hff. Leaves are abstract: an
operator adds a leaf, or lowers a numeric one so often. *HeuristicConditions* is where
leaves come from: conversion to conjunctions and disjunctions, the table of object
equalities, the weighted sums and the number of applications. Its state machine applies
operators from the evaluated state, for the estimate to be compared with.
*ExplicitHMax* has one step per operator of a round; each place remembers how long the
lists of values were. Its loop (heuristics.py:2007) has no bound of its own: where an
increase takes a number out of every range and the goal cannot be reached, it never ends;
the model stops such an evaluation after `MaxRounds` rounds. *Novelty* has `Start`, `Root`, `BeginExpansion` and `Child`, a
child being given with the set of fluents said to have been touched, at least those that
differ.

### Encoder and expressions

*EventEncoding* encodes one item (a durative action, or the timed effects and goals of the
problem, which become one synthetic action) when a behaviour begins, then lets time run
(`Tick`, `Wait`) while conditions change truth from outside (`Interfere`), and keeps two
verdicts: of the events, as the search tests them, and of the intervals and effects as
written. *Relevance*, *CompressionSafety* and *ObjectSymmetry* carry out a plan of the
whole problem and, beside it, what the encoder makes of it: without the pruned actions
under the new numbering, with safe actions over at once, with the objects of a class
renamed in order, those an action is the first to use among the names left of their
class. A date plays a part in none of the three: what they compare is the
order of events. The closures of *Relevance* are least sets, which is what the code's
work lists and the relaxation compute; reachability chains the events of an action, leaves
out the first of the timed one, and lets an effect that reads a fluent give any value, as
the operators of the heuristic do. In *CompressionSafety* an interval has open and closed
sides, and an event is tested for what a closed side asks of its instant; a problem with
timed effects or goals has no safe action. In *ObjectSymmetry* the classes are found in the
order in which the problem lists the objects and then put in order of name, and an object
stands for a parameter of its type or of one above it. *Expressions* gives the operations on postfix sequences of nodes,
numbers being fractions; *Simplification* makes more and more fluents known.

## Runs

| run | shows | bounds |
|---|---|---|
| `stn` | the distances satisfy what was asserted, inconsistencies are found exactly, the new target is assigned once, `add` returns, and `STN` is implemented | 3 time points, bounds −2, −1, 1, grain 2, tolerance 1, 4 distinct constraints, candidate dates −4..4 |
| `plan` | conditions stay maintained, two edges suffice, dates only grow, the replay succeeds, the plan can be scheduled, is valid, in time and no later than the branch | six problems, branches of at most 8 events |
| `search` | the search ends, its "no plan" is right, limits and evictions are exact, dedup loses no plan | every graph on 3 nodes, priorities 0, 1 and dead end, limits none/0/2, open list unbounded or of 1 or 2; seven temporal problems, branches of at most 9 events, which none reaches |
| `searches` | "no plan" is right where it is promised, because a way to a goal stays open; breadth-first plans are shortest; limits are exact; all end | the same graphs; one or two queues, limits none/1; deque limits none/0/2, breadth- and depth-first on acyclic graphs |
| `engine` | "optimal" and "no plan" claim no more than is known, one timeout is shared, `AnytimeContract` is kept | any plans of a pool of five under every metric, ten configurations, compression that keeps every plan, replaces one or loses one, `MaxWork` 2 iterations per search, `MaxIdle` 1 |
| `functions` | calls reach their own function, nothing is kept when no run is live, dropped runs alone keep nothing for good | 3 runs, 2 functions, 2 addresses, result cache of 1 |
| `heuristics` | values are the fixpoint, hff's plan works, nothing is pruned wrongly, the layers are those of `LayeredReachability`, novelty is that of its definition, evaluations end, except one of the explicit hmax with an endless increase and an unreachable goal | 3 leaves, ≤3 actions, 4 kinds; conditions over 5 fluents, `MaxSteps` 3; numbers −1..1 and increases without limit, `MaxRounds` 14; at most 3 events; 4 subgoals, `MaxH` 1, `MaxEvals` 2, `MaxStarts` 1 |
| `encoder` | events and intervals agree, separation is right, no plan is lost to relevance or symmetry, compressed plans work, values are kept | 5 timings, 6 lists of effects, 5 durations, epsilon 1, `MaxFlips` 2; ≤4 of 7 actions; 3 objects, `MaxPath` 4; ≤3 of 15 actions over 4 fluents; expressions over 5 fluents |
| `handover`, `short_light`, `final_value`, `collapsed` | see Findings | |

Why these are enough. On three points a negative cycle can close through two or three
edges, pass through a subsumed pair, and meet a point queued twice; four constraints
allow a cycle on top of a slack pair. The six problems of `plan` have an intermediate
effect, an intermediate condition, open and closed durations, a state-dependent duration
read while another action changes it, two actions maintaining the same condition, a timed
action with pending events, a deadline, compression and symmetry. Three nodes give
self-avoiding and cyclic graphs, dead ends noticed or not, an open list that evicts, a
state another queue took, and a hill climb that starts over. The temporal problems of
`search` reach equal states at different dates: with less than epsilon between them, where
pruning the later one would lose the plan, and with exactly epsilon, where it is pruned;
with and without deadline and timed window. Plans of `engine` improve at once, only in the
end, not at all, or at no cost, and two searches per round are as many as there are. Two
addresses for three runs make recycling unavoidable. In `heuristics` an operator is
reopened with one leaf above another, and two rounds of values are the fewest in which a
place can repeat or miss a combination; two evaluations after a root are the fewest where
a cache, a table and a partition can disagree. The families of `encoder` are built around
the links its arguments name: each kind of side of an interval, each way an action can
matter to another, each way two objects can differ, each way an effect can interfere.
The increases without limit of the explicit hmax reach their goal in fewer than 14 rounds, or
never.

`MaxConstraints`, `MaxPath`, `MaxSteps`, `MaxRounds`, `MaxEvals`, `MaxStarts`, `MaxFlips`,
`MaxWork` and `MaxIdle` bound what the code does not. Deadlock is not checked: nobody is
obliged to add a constraint or to evaluate another state, a branch ends where no action
applies or at its bound, and a search, an evaluation and a run end.

Fairness. Weak fairness is assumed of loops of one thread without a wait, which once
entered go on: `Propagate` of `DeltaSTN`, `Step` of `PrioritySearch`, `Next` of
`Searches`, the evaluation steps of `Heuristics`. Nothing forces a caller to call. In
`FunctionScopes` only `Collect(r)` is fair: a generator that nobody refers to is finalized,
which runs the `finally` of its scope. No caller is obliged to close or exhaust a generator it
holds, and one in a reference cycle or a stored traceback may never be finalized; `Reclaimed`
therefore has a premise, that from some point on no run is held or lost, and claims that the
registry is then emptied. The other specifications are safety only.

## Proofs

All constants are arbitrary, within the named assumptions.

**`DeltaSTN_proofs`** (`ConstantsAssumption`: integer bounds, tolerance below the
grain). `IInv` is inductive. Between two relaxations the distances are no
schedule, so the invariant says what they are: every asserted constraint is stored or a
tighter one is (`StoredAsserted`); an unsatisfied entry starts at a point still to be
propagated or is among the neighbours left (`DirtyOnly`); and while `add` runs
(`PathsFromTarget`) the network was at its fixpoint before, no distance dropped by more
than that of the new target, and a dropped distance is the weight of a path from the
target, hence a bound on every schedule. The second fact is why the target is never
assigned again (`TargetOnce`) and so why testing for a cycle only there is enough; the
third gives `DatesAreEarliest` and `UnsatIsNoSchedule`; `DirtyOnly` with an empty queue
is `ModelIsASchedule`. `Refinement`, for `Dates = Int`, maps a running `add` to the
abstract state before it and its return to the abstract step.

**`TemporalSpace_proofs`** (`ProblemsAssumption`: effects give fluents values of their
range, actions have events, delays, duration bounds and the deadline are integers,
epsilon is not negative; and, for extraction, the first event of an action is not before
its start, an action does not end before it starts, the duration of the timed action is
constant, and what an event of a compression-safe action needs is maintained from the
action's first event on). `IInv` says of the state that it is `Good`. `StateOK`: typed,
its pending events exist, its maintained conditions hold, and every schedule of its
network orders the branch. `NetOK`: the network's constraints are finitely many, on time
points, with integer bounds, every event of the branch and of `todo` is among its points,
and the dates kept with it are those of its constraints. `ConditionsKept` is the argument of
the comment in `_expand_event`: inherited conditions hold on the parent, those an event
without effects starts are all effect-independent and were checked by the caller, and an
event with effects checks all. `BranchOrdered` is the comment on the two edges: a chain
of the immediate predecessors, and epsilon from the last mutex one on. A compressed chain
is covered event by event, by induction along it. `TwoEdgesSuffice` and `DatesAdvance`
turn this into dates. `DistancesAreLargest` unfolds the recursive relaxation of
`Schedules` (by a least counterexample over the rounds): a network that the check
accepts has the largest non-positive distances, hence the earliest dates, so they are a
schedule and are ordered like every other; and a network with more constraints dates its
points no earlier (`DatesGrow`). An expansion only adds constraints, which is why no date
goes back and a makespan bounds those of the successors.

The plan of a branch comes from a second walk, `build_plan`'s, and `RInv` relates the two:
`Replayed`, some replayed state mirrors the search state. `Mirrors` is the same values,
active conditions and pending events, and a network that asks for no more (`Implies`). A
step of the search is one event, or all events of a compressed action, which the replay
fires one by one (`Shadow`, `FinishReplayed`) and whose conditions it checks though
compression skips them: they hold because they are maintained. So the replay is never
stuck, the first half of `BranchesReplay`. The branch has a schedule, hence so has the
replay; that schedule meets every constraint `build_plan` asserts (`AskedIsRecorded`:
the steps of the replay, `Trail`, recorded them or tighter ones; that neither end of an
action is before the plan's start needs the assumptions above); and the round-limited
relaxation accepts every network that has a schedule (`ConsistentIsFound`). So the
plan's network is consistent, the second half. Its dates are the earliest, hence no later than
the branch's, whose plan end is epsilon behind every end of an action: the makespan of the
plan stays epsilon below it and below the deadline (`PlanInTime`). The empty branch is
left out: its plan has makespan 0, and the search returns an initial state that is a goal
without asking the network (search.py:435), whatever the deadline.

**`PrioritySearch_proofs`** (`SpacesAssumption`: well-formed graphs, right distances,
dead ends answered only where there is no plan; `ConfigsAssumption`). `IInv` is
`TypeOK`, the state before the call, `Accounted` and `GoalsAreReturned`. `Accounted` is
what makes an answer right: each node let through that has a plan is expanded, waiting
or lost, and each successor of an expanded node is pending, lost, or represented by an
accepted node. `NoPlanIsRight` takes an accepted solvable node nearest to a goal: it was
expanded, its next node towards the goal is represented by an accepted one at least as
near, a contradiction. It assumes `DedupIsSound` for the spaces searched: the
representative is no farther from a goal. For classical spaces that is equality of
states; for the temporal ones, run `search` checks it (`DedupLosesNoPlan`). `LimitHolds`
counts the expansions against the limit. `BoundKeepsTheSmallest` needs that the order of
the items (priority, then age) is total on any finite list, so that a greatest one
exists, and that the one evicted is it.

**`Searches_proofs`** (`SearchesAssumption`: the same of spaces and configurations;
which of the two a configuration calls). `IInv` is `QueuesInv` or `DequesInv`. Of the
round robin: an expanded node is counted once though several queues hold it
(`QueuesCount`), every successor of an expanded node is pending or stood for by one
recorded, and each queue with a built-in heuristic holds every recorded node that has a
plan and was not expanded, from whichever queue, or is still to be filled with it. Of the
deques:
depths are those of real paths, something that waits lies on a shortest way
(`WayIsOpen`), and the open list of breadth-first search is sorted with at most two
depths in it (`ShallowFirst`); together they give `ShortestFirst`. Hill climbing promises
less: `ClimbsOn` says that nothing expanded since it last started over is nearer to a
goal than all that waits. `WaysAreKept` and `NoPlanIsRight` assume `DedupIsSound`, like
their counterpart above; the spaces of the run satisfy it, being classical.

**`Engine_proofs`** (`ProblemsAssumption`: plans are sequences of costs, of which the
compressed space keeps any; `ConfigsAssumption`).
`IInv` ties what was handed out to the incumbent and the bound (`HandedOut`), says what
the outcome of a search tells of the plans it did not find (`OutcomeIsKnown`), and what
time is left (`TimeIsLeft`). The core is `CostsGrow`, `QualityGrows` and
`BeatsIsBounded`: under a metric that cannot get better along a plan, a plan that beats
the incumbent is found within the bound of the round, because all its prefixes do; so a
search that finds none has shown that there is none among the plans its space represents:
the counterpart of such a plan is as good and within the bound. `EngineImplementsContract` maps the
incumbent's quality and the last status to `AnytimeContract`, each step to a step or a
stutter.

**`FunctionScopes_proofs`** (`ScopesAssumption`: finitely many runs, `None` is no
address and no wrapper, the result cache holds something). `IInv` (`Invariant`): the
counter counts the live runs, so that the scope that clears is the last one; only live runs hold ids and wrappers; and, unless
somebody cleared the registry by hand, every id a run holds names its own function,
every wrapper alive is registered under its address, and the two maps and the memoised
results agree. The last part is what makes reuse safe: an address is reused only when
its wrapper is gone, and wrappers of registered functions live as long as the registry.
`AnswersRight` and `Emptied` follow.

**`Heuristics_proofs`**, in two parts. *Novelty* (`NoveltyAssumption`: a leaf reads fluents
only, the operands of a comparison are integers, bounds are naturals; that a child differs
from its parent in touched fluents only is a guard of `Child`). The property
compares each answer of the novelty measure with its definition over all that was recorded
before. `IInv` says that the tables are exactly the extract of the record (per partition:
the leaves and pairs seen), that the caches and the snapshot of the expanded state are
those of a fresh evaluation of it, and that what a child's evaluation took over from them
is what it would have computed: a leaf none of whose fluents was touched has the parent's
truth, and a pair of such leaves was seen with the parent. `NoveltyFromCaches` follows.

*The explicit hmax* (`TasksAssumption`: a problem has a fluent, its actions have events,
and what it writes, asks for and aims at are formulas over its fluents).
`LayersWithoutRepetition` maps an evaluation to `LayeredReachability`: a round is a step,
`EndRound` being the one that advances, and in between nothing happens. `ExplicitInv` is
what makes that so. Between two rounds the combinations a place was looked at are all
those up to the sizes it remembers (`PlacesOK`); the blocks by the first new position are
disjoint and make up the rest (`BlocksAre`), so nothing is looked at twice and nothing
missed. A condition taken for possible is possible in the layer, and stays so, since lists only
grow; one not known to be was false on all that was looked at (`KnownOK`). What an applied
operator was seen to give is in the layer or collected for the next one (`AppliedOK`), and
nothing else is collected (`CollectedOK`). At last an operator may be skipped: if none of
the fluents it reads has a new value it is `UpToDate`, that is, it cannot be applied or has
given all it can. This has to hold of every operator considered so far in the round and of every one that
would be skipped (`RoundOK`), which `EndRound` establishes anew because the sizes of what
an operator reads change exactly with those fluents. The lower bound follows from
`ReachableOK`: the values of any state that so many events lead to are in the layer,
except flags that are down, which no condition asks to be down.

**`Encoder_proofs`**, in four parts. *Compression* (`CompressionAssumption`: effects and
conditions are over the action's instants and the problem's fluents, states hold truth
values). `CompressionInv` relates the compressed plan's state to the plan's: the same on
every fluent, except those on which a safe action under way has effects still to come,
whose last value the compressed plan already has (`Tracks`). It is inductive because a safe action's
effects after its start are constant, no condition can tell apart states that differ in
them (else the action would not be safe), and an end in whose way something came makes
the run `disturbed`. *Relevance* (`RelevanceAssumption`: fluents hold truth values,
conditions and effects are over the fluents, an action without an interval maintains
nothing, the timed action is applicable). The closures are proved to be closed, hence
`EncodedRight`: what is left refers only to what matters and has a number, and what is
pruned writes nothing that matters. `RelevanceInv` says that fluents only take values the
relaxation gave them; so an action it calls unreachable never fires its last event
(`StuckStays`); and as long as none was opened the two plans agree on all that matters.
*Events* (`EncodingAssumption`: timings are integers in the finest unit, conditions and
effects are finitely many, effects of a timed item count from the start; and, of an action,
an interval that is not dropped does not run from the end to the start and is not turned
round or into a point by folding, which is finding `collapsed`). The places that sorting
gives the buckets are cardinalities of what precedes them, so the events are in the order
of their timings (`PlacesAre`, `EventsAre`); if they are placed apart, no two share an
instant and the event of an instant gathers all that falls on it (`PartsAre`). Then
`VerdictInv` is inductive: the multiset the search maintains counts exactly the intervals
that are open (`MaintainedIs`), every requirement due so far was checked, and the verdict
is that of the intervals. Separation needs no induction: of two neighbours on the same
side the distance is constant, of two on different sides it grows with the duration, so
the longest one decides. Effects are merged right (`MergingIsRight`, of typed initial states and
effects, of which only those on numbers add) because the effects of the event of an instant
are all that fall on it, and a sum over the effects of an item splits into those that
increase and those that decrease (`PartialSums`, by induction on its length, the merged
sum being a recursive function along the effects). *Symmetry* (`SymmetryAssumption`: explicit values, conjuncts,
conditions and effects are over ground fluents, the timed effects mention excluded
objects, and actions are lifted: renaming the objects of an action, types and excluded
objects kept, gives an action with the conditions and effects renamed). Two objects are
interchangeable if exchanging them keeps the initial state and the goal; this is an
equivalence, comparing the assignments and conjuncts that mention the two decides it
(`EquivalentIs`), and it keeps signatures, which are tallies (`SignatureSame`). So
`SortedInto`, that the classes so far are those of the relation, survives every object
(`StartsClass`, `JoinsClass`). `Right` relates the two plans: some one-to-one renaming of
all objects within their classes (`Serves`) extends the names given so far, keeps the goal
and takes the plan's state to that of the renamed plan, and the plan's state does not tell
apart two of a class that are not named yet (`Settled`). It is inductive because new names
can be had by exchanging unnamed objects first (`NamesExtend`: of the renamings that serve,
one that disagrees least with the new names agrees with all of them), and an action does
not mention the objects that stay unnamed. That the search lets the action open is that
every name given was used on the path and the names before it were given first
(`AllowsRenamed`). `EveryPlanIsRenamed` says that the rule never runs out of names.

Only model-checked:

- liveness (`AddReturns`, `Ends`, `Reclaimed`), since it needs fairness;
- that the plan's dates are valid, the second conjunct of `PlanValid` (the first is
  `BranchesReplay`). It does not hold of every problem (`handover`), so a proof would be
  about a condition on problems that the code does not check;
- `DedupLosesNoPlan`, which is about the spaces of the instance;
- `ValueIsFixpoint`, `RelaxedPlanWorks`, `Admissible`, and of the encoder
  `ValueKept` and `TypeOK`. What an operator on
  expressions computes (`Expressions`, `HeuristicConditions`) is defined
  by induction over the expression (`LayersWithoutRepetition` needs no more of `Evaluate`
  than that it depends on the fluents the expression speaks of), and what a fold over a heap does
  (`DeleteRelaxation`) likewise: out of the prover's reach.

## Findings

- `handover`: extraction keeps mutex and precedence pairs only. Two events that write
  different fluents of one maintained disjunction are neither, and the plan may put the
  one that breaks it before the end of the one that was to keep it: `guard` in 0-5 and
  `replace` in 0-3 go together, and `leave` is dated only by being mutex with the start of
  `guard`, at epsilon. The engine and the tests take every plan for valid.
- `short_light`: two compression-safe actions that must overlap never do in the compressed
  space, so an exhausted search is no proof of unsolvability there; the engine
  makes this exception for the makespan metric only.
- `final_value`: the bound of an improvement round is also a precondition of every action;
  with a metric on the final state that starts out no better than the incumbent, a better
  plan is cut off and the incumbent is called optimal.
- `collapsed`: an interval that folding onto a constant duration makes empty keeps its two
  halves, the end before the start, and its condition stays active for ever.

Five smaller disagreements are stated by definitions that no run checks, since they do
not hold; each shows as an invariant of the specification of its module.

- `MakespanIsLowerBound` (`PlanExtraction`, the problems of `plan`): `makespan` is
  documented (search_space.py:789-790) as a lower bound on any plan through a state. It
  bounds the schedules of the whole branch; the extracted plan may end earlier. Dominance
  is sound all the same, since it compares branches.
- `NeverMisresolves` (`FunctionScopes`): clearing the registry by hand under a live run
  restarts the ids, which then reach another run's function, although converter.py:117-119
  says a stale id raises.
- `NeverOverestimates` (`HeuristicConditions`): for a strict comparison the constant
  derived from the largest net effect makes hmax count two applications where one is
  enough (engine.py:473 says hmax does not overestimate).
- `SeparationIsExact` (`EventEncoding`, epsilon 2): folded events of the start and of the
  end can alternate, and the test of the one pair that crosses over (encoder.py:1825)
  misses two that are too close. The action is kept and can never end.
- `SequentialIsEquivalent` (`CompressionSafety`, `SequentialProblems`): two actions, both
  safe, reach a goal that wants false what one clears at its end only when they overlap;
  the classical problem they are compiled into (engine.py:1251-1252) has no plan.

## Not modelled

Grounding and the other compilations of the modelling library, the map back to lifted
actions, parameter parsing, output streams, bindings, the tutorial notebook; in the
heuristics the memoisation of whole evaluations, `eval_gen` and the wrapper of
caller-supplied heuristics, which hold no state of the algorithms; the `_tnsolve` driver;
the hash functions of the Bloom filter (a false positive is a choice) and the heap layouts
(an open list gives its least item). The Rust rewrites of search, heuristics and encoding
helpers are covered as far as they do what the Python code does; `stn.rs` and
`interpreted_functions.rs` are modelled themselves. Floating-point rounding is covered
only by the tolerance. Compression that forbids an overlap a plan needs is a finding, and
`CompressedPlanWorks` is about plans without one.

## Plan

Every component with state is modelled. What is left is to name the problems, larger than
those of `plan`, whose extracted plans are valid, and to prove it of them.
