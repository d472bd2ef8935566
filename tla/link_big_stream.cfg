SPECIFICATION Spec
CONSTANTS
  Requests <- BigRequests
  DebugLines = {}
  MaxCalls = 2
  SocketLengths = {300}
  Noise = {}
  MaxFaults = 0
  MaxRestarts = 0
  MaxLate = 0
  Timely = TRUE
CHECK_DEADLOCK FALSE
INVARIANT
  Answered
