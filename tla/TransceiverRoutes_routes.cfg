\* The board of slot 1, with both channels and a stored route, comes up beside
\* the running board of slot 2, whose route can take either channel.
SPECIFICATION Spec
CONSTANTS
  c1 = c1
  c2 = c2
  r1 = r1
  r2 = r2
  Slots = {1, 2}
  Channels = {c1, c2}
  Routes = {r1, r2}
  None = None
  SlotOf <- TwoSlots
  Rows <- Shared
  Webs = {w1}
  Tasks = {t1}
  Byte = 4
  MaxEvents = 2
  Early = {2}
CHECK_DEADLOCK FALSE
INVARIANTS CountsExact StoredIsUsed BoardsTold LocksHeld SyncPending
