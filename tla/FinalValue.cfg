CONSTANTS
  Problems <- FinalValueProblems
  Configs <- MCConfigs
  NoPlan = NoPlan
  NoQuality = NoQuality
  MaxWork = 2
  MaxIdle = 1
SPECIFICATION Spec
INVARIANT OptimalMeansBest
CHECK_DEADLOCK FALSE
