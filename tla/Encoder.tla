------------------------------ MODULE Encoder ------------------------------
(* The analyses of the encoder: an analysis works on the problem it is given *)
(* and shares no state with another, so a behaviour is about one of them.    *)
(* The variables of the others are Unused.                                   *)
EXTENDS Naturals, Sequences

CONSTANTS
  Items, Epsilon, ItemStates, MaxFlips,   \* of the splitting into events
  Fluents, RelevanceProblems,             \* of the relevance analyses
  SymmetryProblems, MaxPath,              \* of symmetry breaking
  CompressionProblems,                    \* of compression safety
  Sources, Assignments                    \* of the simplification

VARIABLES
  analysis,     \* "events", "relevance", "symmetry", "compression", "expressions"
  problem, state, full, todo,
  item, events, refusal, apart, duration, clock, due, active, verdict, truth, flips,
  options, begins, considered, slots, durationSlot, slim, kept,
  index, groups, world, renaming, mirror, path, allowed, happened,
  safe, short, works, covered, disturbed,
  source, known, calls, exp

ofEvents == <<item, events, refusal, apart, duration, clock, due, active, verdict, truth, flips>>
ofRelevance == <<options, begins, considered, slots, durationSlot, slim, kept>>
ofSymmetry == <<index, groups, world, renaming, mirror, path, allowed, happened>>
ofCompression == <<safe, short, works, covered, disturbed>>
ofExpressions == <<source, known, calls, exp>>
vars == <<analysis, problem, state, full, todo,
          ofEvents, ofRelevance, ofSymmetry, ofCompression, ofExpressions>>

Events == INSTANCE EventEncoding WITH InitialStates <- ItemStates
Relevance == INSTANCE Relevance WITH Problems <- RelevanceProblems
Symmetry == INSTANCE ObjectSymmetry WITH Problems <- SymmetryProblems
Compression == INSTANCE CompressionSafety WITH Problems <- CompressionProblems
Expressions == INSTANCE Simplification WITH States <- Assignments

(* What the analyses require of their inputs. *)
ASSUME EncoderAssumption ==
  /\ Events!EncodingAssumption
  /\ Relevance!RelevanceAssumption
  /\ Symmetry!SymmetryAssumption
  /\ Compression!CompressionAssumption

Unused == <<>>
NoEvents ==
  /\ item = Unused /\ events = Unused /\ refusal = Unused /\ apart = Unused
  /\ duration = Unused /\ clock = Unused /\ due = Unused /\ active = Unused
  /\ verdict = Unused /\ truth = Unused /\ flips = Unused
NoRelevance ==
  /\ options = Unused /\ begins = Unused /\ considered = Unused /\ slots = Unused
  /\ durationSlot = Unused /\ slim = Unused /\ kept = Unused
NoSymmetry ==
  /\ index = Unused /\ groups = Unused /\ world = Unused /\ renaming = Unused
  /\ mirror = Unused /\ path = Unused /\ allowed = Unused /\ happened = Unused
NoCompression ==
  /\ safe = Unused /\ short = Unused /\ works = Unused /\ covered = Unused /\ disturbed = Unused
NoExpressions == source = Unused /\ known = Unused /\ calls = Unused /\ exp = Unused

Init ==
  \/ /\ analysis = "events" /\ Events!Init
     /\ problem = Unused /\ full = Unused /\ todo = Unused
     /\ NoRelevance /\ NoSymmetry /\ NoCompression /\ NoExpressions
  \/ /\ analysis = "relevance" /\ Relevance!Init
     /\ state = Unused /\ NoEvents /\ NoSymmetry /\ NoCompression /\ NoExpressions
  \/ /\ analysis = "symmetry" /\ Symmetry!Init
     /\ state = Unused /\ full = Unused /\ todo = Unused
     /\ NoEvents /\ NoRelevance /\ NoCompression /\ NoExpressions
  \/ /\ analysis = "compression" /\ Compression!Init
     /\ state = Unused /\ NoEvents /\ NoRelevance /\ NoSymmetry /\ NoExpressions
  \/ /\ analysis = "expressions" /\ Expressions!Init
     /\ problem = Unused /\ full = Unused /\ todo = Unused
     /\ NoEvents /\ NoRelevance /\ NoSymmetry /\ NoCompression

EventsStep ==
  /\ analysis = "events" /\ Events!Next
  /\ UNCHANGED <<analysis, problem, full, todo, ofRelevance, ofSymmetry, ofCompression, ofExpressions>>
RelevanceStep ==
  /\ analysis = "relevance" /\ Relevance!Next
  /\ UNCHANGED <<analysis, state, ofEvents, ofSymmetry, ofCompression, ofExpressions>>
SymmetryStep ==
  /\ analysis = "symmetry" /\ Symmetry!Next
  /\ UNCHANGED <<analysis, state, full, todo, ofEvents, ofRelevance, ofCompression, ofExpressions>>
CompressionStep ==
  /\ analysis = "compression" /\ Compression!Next
  /\ UNCHANGED <<analysis, state, ofEvents, ofRelevance, ofSymmetry, ofExpressions>>
ExpressionsStep ==
  /\ analysis = "expressions" /\ Expressions!Next
  /\ UNCHANGED <<analysis, problem, full, todo, ofEvents, ofRelevance, ofSymmetry, ofCompression>>
Next == EventsStep \/ RelevanceStep \/ SymmetryStep \/ CompressionStep \/ ExpressionsStep

Spec == Init /\ [][Next]_vars

-----------------------------------------------------------------------------
(* What the analyses keep in order on the way: types, the numbering of       *)
(* events and fluents, the classes of objects, the place of operands.        *)
TypeOK ==
  CASE analysis = "events" -> Events!TypeOK /\ Events!FirstIsStart
    [] analysis = "relevance" -> Relevance!TypeOK /\ Relevance!ReadsResolve /\ Relevance!StateOfIsRight
    [] analysis = "symmetry" -> Symmetry!TypeOK
    [] analysis = "compression" -> Compression!TypeOK
    [] OTHER -> Expressions!TypeOK /\ Expressions!KnownAreGone /\ Expressions!Settled

(* Splitting intervals over events loses nothing and adds nothing: when the  *)
(* plan ends the events' checks have succeeded exactly when every interval   *)
(* was respected, and nothing is maintained that should have been released   *)
(* (_build_events, _group_timed_events).                                     *)
SameVerdict == analysis = "events" => Events!SameVerdict /\ Events!AllReleased

(* Effects that meet in one instant are merged: what an instant does to a    *)
(* fluent is what the effects at that instant add up to, wherever they were  *)
(* written (_convert_effects).                                               *)
EffectsAddUp == [][EventsStep => Events!AddsUp]_vars

(* An action is left out for events too close to each other exactly when no  *)
(* duration keeps them apart, as far as its duration is known and its        *)
(* timings are not folded (_event_separation_problem).                       *)
Separation == analysis = "events" => Events!SeparationIsRight /\ Events!SeparationIsFound

(* Whatever the whole problem carries out to the end, the encoded problem    *)
(* carries out without the pruned actions and fluents, and it reaches the    *)
(* goal if the plan does (_relevant_actions, _relevant_fluents).             *)
PlanSurvives == analysis = "relevance" => Relevance!PlanSurvives /\ Relevance!GoalSurvives

(* The classes are exactly those of interchangeable objects, and symmetry    *)
(* breaking loses no plan: the search lets the renamed plan open every       *)
(* action, and it reaches the goal when the plan does.                       *)
RenamedPlanReaches ==
  analysis = "symmetry" =>
    Symmetry!ClassesAreExact /\ Symmetry!RenamedPlanAllowed /\ Symmetry!RenamedPlanReaches

(* A chain of a safe action finds the conditions of its later events true,   *)
(* and as long as no event came in the way of an end that was moved, the     *)
(* compressed plan carries out what the plan does and meets its states.      *)
CompressedPlanWorks ==
  analysis = "compression" =>
    Compression!EndsAreCovered /\ Compression!CompressedPlanWorks /\ Compression!StatesMeet

(* However often it is simplified, and with whichever fluents known, an      *)
(* expression keeps its value, and each of its parts has on its own the      *)
(* value it has inside.                                                      *)
ValueKept == analysis = "expressions" => Expressions!ValueKept /\ Expressions!PartsStandAlone
=============================================================================
