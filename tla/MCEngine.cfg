CONSTANTS
  Problems <- MCProblems
  Configs <- MCConfigs
  NoPlan = NoPlan
  NoQuality = NoQuality
  MaxWork = 2
  MaxIdle = 1
SPECIFICATION Spec
INVARIANTS StatusesClaimNoMore TimeoutIsShared
PROPERTY KeepsContract
CHECK_DEADLOCK FALSE
