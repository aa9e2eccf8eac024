SPECIFICATION StartupFairSpec
CONSTANTS
  m_piece_size = 3
  MaxFiles = 4
  MaxFileSize = 4
  MaxFullSize = 10
  Layouts <- UnalignedLayouts
  Sources <- TheSources
  Local = {"http://local"}
  Invalid = {"", "bad"}
  NotHttp = {"udp://two"}
INVARIANTS
  TypeOK
  OnlyOwnBytes
  FinishedWhole
  InBounds
  LoadedAsNamed
  HashOfInfo
  TrackerNamed
PROPERTIES
  WritingEnds
  WritesTheTorrent
  WholeIsLoaded
CHECK_DEADLOCK FALSE
