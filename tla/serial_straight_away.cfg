SPECIFICATION Spec
CONSTANTS
  SERIAL_BUFFER_SIZE = 3
  MaxLoad = 5
  Loads <- Sending
  ByteTime = 6
  MaxOthers = 0
PROPERTY
  StraightAway
