SPECIFICATION FairSpec
CONSTANTS
  HANDSHAKE_SIZE = 8
  BUFFER_SIZE = 12
  Streams <- SomeStreams
  MaxStream = 3
CHECK_DEADLOCK FALSE
INVARIANTS
  TypeOK
  DispatchedInOrder
  NoMessageWaits
  ClosedOnlyFor
PROPERTIES
  ImplementsMessageStream
  AllDispatched
