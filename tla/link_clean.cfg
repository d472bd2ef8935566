SPECIFICATION FairSpec
CONSTANTS
  Requests <- AllRequests
  DebugLines = {0, 2}
  MaxCalls = 3
  SocketLengths = {1, 2}
  Noise = {}
  MaxFaults = 0
  MaxRestarts = 0
  MaxLate = 0
  Timely = TRUE
INVARIANT
  Answered
PROPERTY
  CallReturns
