----------------------------- MODULE Heuristics -----------------------------
(****************************************************************************)
(* The parts of the heuristics: the delete relaxation of hmax, hadd, hff and *)
(* the reachability analysis, the conditions it sees, the explicit hmax, and *)
(* the novelty measure. None shares state with another, so a behaviour is    *)
(* about one of them. The variables of the others are Unused.                *)
(****************************************************************************)
EXTENDS Integers, Sequences

CONSTANTS
  RelaxationTasks, Kinds,                           \* of the delete relaxation
  ConditionTasks, Objects, Booleans, MaxSteps,      \* of the conditions
  ExplicitTasks, MaxRounds,                         \* of the explicit hmax
  Subgoals, Valuations, MaxH, MaxEvals, MaxStarts   \* of the novelty measure

VARIABLES
  part,         \* "relaxation", "conditions", "explicit" or "novelty"
  task, answer,
  kind, ops, condCost, opCost, closed, unreached, heap, readers, firstReach, minPre, reachedBy,
  phase, current, pending, subgoals, visited, relaxed, value,
  condition, sums, estimate, state, steps,
  operators, assignments, oldSizes, known, applied, changes, collected, turn, depth, tried,
  repeated, reachable,
  maxPartition, psiSeen, best, pairSeen, bestWith, cache, snapshot, parent, generated,
  expected, log, evals, starts

ofRelaxation == <<kind, ops, condCost, opCost, closed, unreached, heap, readers, firstReach, minPre,
                  reachedBy, phase, current, pending, subgoals, visited, relaxed, value>>
ofConditions == <<condition, sums, estimate, state, steps>>
ofExplicit == <<operators, assignments, oldSizes, known, applied, changes, collected, turn, depth,
                tried, repeated, reachable>>
ofNovelty == <<maxPartition, psiSeen, best, pairSeen, bestWith, cache, snapshot, parent, generated,
               expected, log, evals, starts>>
vars == <<part, task, answer, ofRelaxation, ofConditions, ofExplicit, ofNovelty>>

Relaxation == INSTANCE DeleteRelaxation WITH Tasks <- RelaxationTasks
Conditions == INSTANCE HeuristicConditions WITH Tasks <- ConditionTasks
Explicit == INSTANCE ExplicitHMax WITH Tasks <- ExplicitTasks
Novelty == INSTANCE Novelty WITH Leaves <- Subgoals, States <- Valuations

(* What they require of their inputs.                                        *)
ASSUME HeuristicsAssumption == Novelty!NoveltyAssumption /\ Explicit!TasksAssumption

Unused == <<>>
NoRelaxation ==
  /\ kind = Unused /\ ops = Unused /\ condCost = Unused /\ opCost = Unused /\ closed = Unused
  /\ unreached = Unused /\ heap = Unused /\ readers = Unused /\ firstReach = Unused
  /\ minPre = Unused /\ reachedBy = Unused /\ phase = Unused /\ current = Unused
  /\ pending = Unused /\ subgoals = Unused /\ visited = Unused /\ relaxed = Unused /\ value = Unused
NoConditions ==
  /\ condition = Unused /\ sums = Unused /\ estimate = Unused /\ state = Unused /\ steps = Unused
NoExplicit ==
  /\ operators = Unused /\ assignments = Unused /\ oldSizes = Unused /\ known = Unused
  /\ applied = Unused /\ changes = Unused /\ collected = Unused /\ turn = Unused
  /\ depth = Unused /\ tried = Unused /\ repeated = Unused /\ reachable = Unused
NoNovelty ==
  /\ maxPartition = Unused /\ psiSeen = Unused /\ best = Unused /\ pairSeen = Unused
  /\ bestWith = Unused /\ cache = Unused /\ snapshot = Unused /\ parent = Unused
  /\ generated = Unused /\ expected = Unused /\ log = Unused /\ evals = Unused /\ starts = Unused

Init ==
  \/ /\ part = "relaxation" /\ Relaxation!Init
     /\ answer = Unused /\ NoConditions /\ NoExplicit /\ NoNovelty
  \/ /\ part = "conditions" /\ Conditions!Init
     /\ answer = Unused /\ NoRelaxation /\ NoExplicit /\ NoNovelty
  \/ /\ part = "explicit" /\ Explicit!Init
     /\ NoRelaxation /\ NoConditions /\ NoNovelty
  \/ /\ part = "novelty" /\ Novelty!Init
     /\ task = Unused /\ NoRelaxation /\ NoConditions /\ NoExplicit

RelaxationStep ==
  /\ part = "relaxation" /\ Relaxation!Next
  /\ UNCHANGED <<part, answer, ofConditions, ofExplicit, ofNovelty>>
ConditionsStep ==
  /\ part = "conditions" /\ Conditions!Next
  /\ UNCHANGED <<part, answer, ofRelaxation, ofExplicit, ofNovelty>>
ExplicitStep ==
  /\ part = "explicit" /\ Explicit!Next
  /\ UNCHANGED <<part, ofRelaxation, ofConditions, ofNovelty>>
NoveltyStep ==
  /\ part = "novelty" /\ Novelty!Next
  /\ UNCHANGED <<part, task, ofRelaxation, ofConditions, ofExplicit>>
Next == RelaxationStep \/ ConditionsStep \/ ExplicitStep \/ NoveltyStep

(* An evaluation runs to its end.                                            *)
Spec == Init /\ [][Next]_vars /\ WF_vars(RelaxationStep \/ ExplicitStep)

-----------------------------------------------------------------------------
(* hmax and hadd are the fixpoint of the relaxation, and the reachability    *)
(* analysis keeps what it reaches, although the search stops at the goal and *)
(* skips closed operators: what is read is kept up to date for every         *)
(* operator that may still be expanded, and what was expanded is settled.    *)
ValueIsFixpoint ==
  part = "relaxation" =>
    /\ Relaxation!TypeOK /\ Relaxation!OpenAreQueued /\ Relaxation!ClosedAreSettled
    /\ Relaxation!ValueIsFixpoint /\ Relaxation!ReachIsRight

(* What hff counts is a plan of the relaxation: its actions alone reach the  *)
(* goal.                                                                     *)
RelaxedPlanWorks == part = "relaxation" => Relaxation!RelaxedPlanWorks

(* An answer rules out no plan: a condition that can be made true is never   *)
(* taken for unreachable, and if no strict comparison is involved not for    *)
(* farther away than it is, since rewriting it keeps its meaning.            *)
Admissible ==
  part = "conditions" =>
    /\ Conditions!TypeOK /\ Conditions!MeansTheSame /\ Conditions!TableIsRight /\ Conditions!SumsAreExact
    /\ Conditions!NeverPrunes /\ Conditions!LooseIsAdmissible

(* The explicit hmax computes the layers of the abstract specification,      *)
(* although it skips operators and evaluates nothing twice; so its answer is *)
(* a lower bound.                                                            *)
KeepsLayers ==
  /\ part = "explicit" => Explicit!Layers!Init
  /\ [](part = "explicit" => Explicit!TypeOK /\ Explicit!NeverTwice /\ Explicit!Admissible)
  /\ [][ExplicitStep => [Explicit!Layers!Next]_(Explicit!Layers!vars)]_vars

(* However little of a state is evaluated, and however much comes from the   *)
(* caches of the expanded state, its novelty is that of its features against *)
(* all states evaluated before in its partition and in this search.          *)
NoveltyIsExact ==
  part = "novelty" =>
    /\ Novelty!TypeOK /\ Novelty!NoveltyIsExact
    /\ Novelty!CachesAreTheParents /\ Novelty!TablesAreTheLog /\ Novelty!PartitionsStayLow

(* Every evaluation ends; that of the explicit hmax where the values stay in *)
(* some range or a plan exists. The rounds of any other may go on for ever.  *)
Ends ==
  <>(/\ part = "relaxation" => phase = "done"
     /\ part = "explicit" => answer # Explicit!Undecided \/ Explicit!Endless)
=============================================================================
