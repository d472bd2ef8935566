SPECIFICATION Spec
CONSTANTS
  Requests <- FewRequests
  DebugLines = {}
  MaxCalls = 3
  SocketLengths = {1}
  Noise = {}
  MaxFaults = 0
  MaxRestarts = 1
  MaxLate = 0
  Timely = FALSE
CHECK_DEADLOCK FALSE
INVARIANT
  AssertsHold
