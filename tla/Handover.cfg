SPECIFICATION Spec
CONSTANTS
  Fluent = {"f", "g", "h"}
  Value = {0, 1}
  Action <- MCActions
  Problems <- MCHandover
  MaxPath = 6
INVARIANTS
  PlanValid
CHECK_DEADLOCK FALSE
