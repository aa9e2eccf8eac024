SPECIFICATION FairSpec
CONSTANTS
  HEADER_SIZE = 5
  PREFIX_SIZE = 2
  PEER_SIZE = 2
  BUFFER_SIZE = 13
  LOST_SIZE = 1
  NumbersOfPeers = {0, 1, 2, 3}
CHECK_DEADLOCK FALSE
INVARIANTS
  TypeOK
  ConnectedOnce
  WholeAnswerUsed
PROPERTIES
  AnswerComes
