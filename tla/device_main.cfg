SPECIFICATION Spec
CONSTANTS
  WIDTH = 8
  PIECE = 4
  TICK = 2
  Timers = {0}
  Ms = {3}
  BUF_LEN = 4
  MaxTransfers = 3
CHECK_DEADLOCK FALSE
INVARIANTS
  MainTypeOK
  LinesAreTransfers
  SecondIsThere
PROPERTY
  CheckedInTime
