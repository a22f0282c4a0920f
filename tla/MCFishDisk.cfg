CONSTANTS
  a = a
  b = b
  x = x
  NUL = NUL
  MAX_NODES = 3
  FILE_MAX = 1
  SECTOR_CELLS = 2
  MaxEdits = 4
  ReadOutcomes = {"ok", "error"}
  WriteOutcomes = {"ok", "error"}
  ValidNames <- MCValidNames
  BadNames <- MCBadNames
  Byte <- MCByte
  Texts <- MCTexts
SYMMETRY Symmetry
SPECIFICATION DiskSpec
INVARIANTS
  DiskTypeOK
  RootExists
  SoundTree
PROPERTIES
  SaveStoresTree
  LoadRestoresTree
