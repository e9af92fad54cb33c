CONSTANTS
  Fluent = {"f", "g", "h", "k"}
  Value = {0, 1}
  Action = {"fast", "slow", "job", "til", "main", "short", "long", "use"}
  MaxPath = 9
  Spaces <- MCSearchSpaces
  Configs <- MCConfigs
SPECIFICATION Spec
CHECK_DEADLOCK FALSE
INVARIANTS
  NoPlanMeansNone
  Accounted
  DedupLosesNoPlan
  LimitIsExact
PROPERTIES
  KeepsTheSmallest
  Ends
