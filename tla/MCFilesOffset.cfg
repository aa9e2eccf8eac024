SPECIFICATION Spec
CONSTANTS
  m_piece_size = 3
  MaxFiles = 4
  MaxFileSize = 4
  MaxFullSize = 10
  Layouts <- UnalignedLayouts
INVARIANTS
  WrittenInPlace
