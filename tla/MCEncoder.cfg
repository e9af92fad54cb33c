SPECIFICATION Spec
CONSTANTS
  Items <- MCItems
  Epsilon = 1
  ItemStates <- MCItemStates
  MaxFlips = 2
  Fluents <- MCFluents
  RelevanceProblems <- MCRelevanceProblems
  SymmetryProblems <- MCSymmetryProblems
  MaxPath = 4
  CompressionProblems <- MCCompressionProblems
  Sources <- MCSources
  Assignments <- MCAssignments
INVARIANTS
  TypeOK
  SameVerdict
  Separation
  PlanSurvives
  RenamedPlanReaches
  CompressedPlanWorks
  ValueKept
PROPERTY EffectsAddUp
CHECK_DEADLOCK FALSE
