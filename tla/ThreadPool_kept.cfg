\* The pool of add_async_task, which is never destroyed: two callers, a masked
\* bit, every interleaving of the loads and stores; every task added is run.
SPECIFICATION FairSpec
CONSTANTS
  Workers = {w1, w2}
  Callers = {c1, c2}
  Bits = {b1}
  NoBit = NoBit
  Temporary = FALSE
  MaxTasks = 3
INVARIANTS TokenBacked FifoOnce
PROPERTIES EveryTaskRuns
CHECK_DEADLOCK FALSE
