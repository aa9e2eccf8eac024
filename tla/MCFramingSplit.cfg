SPECIFICATION Spec
CONSTANTS
  HANDSHAKE_SIZE = 8
  BUFFER_SIZE = 12
  Streams <- SomeStreams
  MaxStream = 1
CHECK_DEADLOCK FALSE
INVARIANTS
  CorrectPeerKept
