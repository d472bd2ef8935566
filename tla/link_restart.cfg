SPECIFICATION Spec
CONSTANTS
  Requests <- FewRequests
  DebugLines = {}
  MaxCalls = 2
  SocketLengths = {1}
  Noise = {}
  MaxFaults = 0
  MaxRestarts = 2
  MaxLate = 4
  Timely = FALSE
CHECK_DEADLOCK FALSE
INVARIANTS
  ArrivesIntact
  AtMostOnceInOrder
