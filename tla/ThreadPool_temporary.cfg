\* The pools of mux.c: one thread fills the pool, then destroys it.
SPECIFICATION Spec
CONSTANTS
  Workers = {w1, w2}
  Callers = {c1}
  Bits = {b1}
  NoBit = NoBit
  Temporary = TRUE
  MaxTasks = 3
PROPERTIES ImplementsTaskQueue
CHECK_DEADLOCK FALSE
