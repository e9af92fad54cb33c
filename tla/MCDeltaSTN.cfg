SPECIFICATION FairSpec
CONSTANTS
  Point = {p1, p2, p3}
  Bound <- MCBound
  Grain = 2
  Tolerance = 1
  Dates <- MCDates
  MaxConstraints = 4
INVARIANTS
  ModelSatisfiesAsserted
PROPERTIES
  TargetImprovedOnce
  AddReturns
  ImplementsSTN
CHECK_DEADLOCK FALSE
