SPECIFICATION FairSpec
CONSTANTS
  Conn = {0, 1}
  Fd = {3, 4, 5}
  Sizes = {1}
  Lengths = {2}
  Faults = TRUE
CHECK_DEADLOCK FALSE
INVARIANTS
  SocketTypeOK
  SocketsOwned
PROPERTIES
  ImplementsCalls
  ConnectIsTrue
  DisconnectIsReal
  ErrorReported
  CallReturns
