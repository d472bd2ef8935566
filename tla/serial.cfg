SPECIFICATION FairSpec
CONSTANTS
  SERIAL_BUFFER_SIZE = 3
  MaxLoad = 5
  Loads <- FewLoads
  ByteTime = 6
  MaxOthers = 1
INVARIANTS
  SerialTypeOK
  InterruptHasWork
  NothingStranded
  AnnouncedIsThere
PROPERTIES
  ReceiverIsFifo
  TransmitterIsFifo
  CallReturns
