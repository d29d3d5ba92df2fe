\* Is the work finished when thread_pool_destroy returns?
SPECIFICATION Spec
CONSTANTS
  Workers = {w1, w2}
  Callers = {c1}
  Bits = {}
  NoBit = NoBit
  Temporary = TRUE
  MaxTasks = 3
INVARIANTS FinishedAtDestroy
CHECK_DEADLOCK FALSE
