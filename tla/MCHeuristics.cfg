SPECIFICATION Spec
CONSTANTS
  RelaxationTasks <- MCRelaxationTasks
  Kinds <- MCKinds
  ConditionTasks <- MCConditionTasks
  Objects <- MCObjects
  Booleans <- MCBooleans
  MaxSteps = 3
  ExplicitTasks <- MCExplicitTasks
  MaxRounds = 14
  Subgoals <- MCLeaves
  Valuations <- MCStates
  MaxH = 1
  MaxEvals = 2
  MaxStarts = 1
INVARIANTS
  ValueIsFixpoint
  RelaxedPlanWorks
  Admissible
  NoveltyIsExact
PROPERTIES
  KeepsLayers
  Ends
CHECK_DEADLOCK FALSE
