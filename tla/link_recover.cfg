SPECIFICATION LiveSpec
CONSTANTS
  Requests <- FewRequests
  DebugLines = {}
  MaxCalls = 1
  SocketLengths = {1}
  Noise = {66, 153}
  MaxFaults = 1
  MaxRestarts = 2
  MaxLate = 0
  Timely = TRUE
CHECK_DEADLOCK FALSE
PROPERTY
  Reconnects
