\* The board stays in its slot and nobody uses insert_spi_transfer_task.
SPECIFICATION FairSpec
CONSTANTS
  Callers = {c1, c2, c3}
  Inserters = {}
  Controllers = {k1}
  Cells = {x1, x2, x3}
  Null = Null
  Commands = {}
  MaxQueue = 3
INVARIANTS TypeOK TaskOwned ReturnsOwnOutcome
PROPERTIES ImplementsCalls
