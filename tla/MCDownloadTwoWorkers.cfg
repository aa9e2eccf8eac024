SPECIFICATION HandlerSpec
CONSTANTS
  c1 = c1
  c2 = c2
  Connections <- TwoConnections
  MAX_PIECE_NUM = 2
  PIECE_SIZE = 2
  LAST_PIECE_SIZE = 1
  ATTEMPTS = 2
  BLOCK_SIZE = 2
  BITS_PER_BYTE = 2
  NUMBER_OF_WORKERS = 2
  Bitfields <- NoBitfields
  Haves = {0, 2}
  Faults = {"no bit field", "choke", "close", "short write"}
  MaxReturned = 0
  MaxMessages = 0
CHECK_DEADLOCK FALSE
INVARIANTS
  PieceExclusive
  NoPieceLost
  AsksOnlyForAnnounced
PROPERTIES
  ImplementsAllocation
  SearchEnds
