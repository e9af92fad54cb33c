SPECIFICATION Spec
CONSTANTS
  Fluent = {"f", "g", "h"}
  Value = {0, 1}
  Action <- MCActions
  Problems <- MCProblems
  MaxPath = 8
INVARIANTS
  ActiveConditionsHold
  PathEdgesSuffice
  PlanValid
  NoLaterThanBranch
PROPERTIES
  DatesOnlyGrow
CHECK_DEADLOCK FALSE
