SPECIFICATION Spec
CONSTANTS
  Fluent = {"f", "g", "h", "m"}
  Value = {0, 1}
  Action <- MCActions
  Problems <- MCShortLight
  MaxPath = 6
INVARIANTS
  CompressionKeepsAPlan
CHECK_DEADLOCK FALSE
