CONSTANTS
  Items <- CollapsingItems
  Epsilon = 1
  InitialStates <- MCInitialStates
  MaxFlips = 1
SPECIFICATION Spec
INVARIANT EmptyConstrainsNothing
CHECK_DEADLOCK FALSE
