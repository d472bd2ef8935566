SPECIFICATION Spec
CONSTANTS
  Requests <- FewRequests
  DebugLines = {1}
  MaxCalls = 3
  SocketLengths = {1}
  Noise = {0, 1, 2, 74, 79, 138}
  MaxFaults = 1
  MaxRestarts = 0
  MaxLate = 0
  Timely = FALSE
CHECK_DEADLOCK FALSE
INVARIANTS
  LinkTypeOK
  SocketAgreement
  AssertsHold
  ArrivesIntact
PROPERTY
  ImplementsRpc
