SPECIFICATION Spec
CONSTANTS
  c1 = c1
  c2 = c2
  Connections <- TwoConnections
  MAX_PIECE_NUM = 1
  PIECE_SIZE = 3
  LAST_PIECE_SIZE = 1
  ATTEMPTS = 2
  BLOCK_SIZE = 2
  BITS_PER_BYTE = 8
  NUMBER_OF_WORKERS = 1
  Bitfields <- PartialBitfields
  Haves = {}
  Faults = {"choke", "unchoke again", "answer again", "close", "write error"}
  MaxReturned = 1
  MaxMessages = 1
CHECK_DEADLOCK FALSE
SYMMETRY ConnectionSymmetry
VIEW LiveView
INVARIANTS
  TypeOK
  PieceExclusive
  BufferMatchesIndex
  WaitsToWriteIffQueued
  AnswersFit
  MissingBytesRequested
PROPERTIES
  ImplementsAllocation
