CONSTANTS
  Runs = {r1, r2, r3}
  Functions = {f1, f2}
  Addresses = {a1, a2}
  None = None
  Capacity = 1
SPECIFICATION Spec
INVARIANTS AnswersAreOwn NothingKept
PROPERTY Reclaimed
CHECK_DEADLOCK FALSE
