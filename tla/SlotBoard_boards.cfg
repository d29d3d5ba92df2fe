\* Everything that can happen to one board: plugged in, rebooting, hot, reset by
\* an operator, pulled out, one of its transfers failing for no reason.  The slot
\* was last described with no board, or with another of its sort.
SPECIFICATION FairSpec
CONSTANTS
  Boards = {a, b}
  Gone = {b}
  Sort <- OneSort
  None = None
  Tasks = {t1}
  MaxPlugs = 1
  MaxReports = 1
  MaxFaults = 1
CONSTRAINT Replaced
INVARIANTS FourIsConfigured
PROPERTIES BoardComesUp EmptyIsQuiet
