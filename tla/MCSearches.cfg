CONSTANTS
  Spaces <- MCSearchSpaces
  QueueSpaces <- MCSpaces
  QueueConfigs <- MCQueueConfigs
  DequeSpaces <- MCDequeSpaces
  DequeConfigs <- MCDequeConfigs
SPECIFICATION Spec
CHECK_DEADLOCK FALSE
INVARIANTS
  NoPlanMeansNone
  WaysStayOpen
  BreadthFirst
  LimitIsExact
PROPERTIES
  Ends
