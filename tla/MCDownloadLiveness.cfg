SPECIFICATION FairSpec
CONSTANTS
  c1 = c1
  c2 = c2
  Connections <- TwoConnections
  MAX_PIECE_NUM = 2
  PIECE_SIZE = 2
  LAST_PIECE_SIZE = 1
  ATTEMPTS = 2
  BLOCK_SIZE = 2
  BITS_PER_BYTE = 8
  NUMBER_OF_WORKERS = 1
  Bitfields <- LackOneAtMost
  Haves = {}
  Faults = {}
  MaxReturned = 0
  MaxMessages = 1
CHECK_DEADLOCK FALSE
PROPERTIES
  DownloadCompletes
