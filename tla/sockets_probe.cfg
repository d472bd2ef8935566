SPECIFICATION Spec
CONSTANTS
  Conn = {0}
  Fd = {3, 4}
  Sizes = {0}
  Lengths = {2}
  Faults = FALSE
CHECK_DEADLOCK FALSE
PROPERTY
  DisconnectIsReal
