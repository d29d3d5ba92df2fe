\* One thread that calls (and can alias its own stale tasks), two that pause,
\* resume and end the slot at any time; the process may abort, the slot stop.
SPECIFICATION FairSpec
CONSTANTS
  Callers = {c1}
  Inserters = {c1}
  Controllers = {k1, k2}
  Cells = {x1, x2}
  Null = Null
  Commands = {"pause", "end"}
  MaxQueue = 2
INVARIANTS NoTaskLeaks
PROPERTIES PauseReleases PauseDrains WorkerEnds
CHECK_DEADLOCK FALSE
