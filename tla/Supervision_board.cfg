\* Seconds scaled down, in the order of the real 40 and 60; the device stops
\* with the board, so the end of a behaviour is a reset.
SPECIFICATION FairSpec
CONSTANTS
  SwTimeout = 3
  HwTimeout = 9
  MaxTurn = 1
  MaxDeaths = 1
  MaxSwitches = 2
INVARIANTS TypeOK HealthyIsNotReset SoftwareFirst WorkOnce
PROPERTIES LevelGrows HungIsReset Settles
CHECK_DEADLOCK FALSE
