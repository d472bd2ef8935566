SPECIFICATION FairSpec
CONSTANTS
  Requests <- MCRequests
  DebugLines = {1}
  MaxCalls = 2
  Inputs <- MCInputs
INVARIANTS
  DeviceTypeOK
  DisconnectedIsIdle
  OneWaiter
  StreamBufferOwned
  BuffersNotOverrun
  StillAllowed
PROPERTY
  WaitCmdReturns
