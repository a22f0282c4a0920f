CONSTANTS
  a = a
  b = b
  p = p
  q = q
  x = x
  NUL = NUL
  MAX_NODES = 3
  FILE_MAX = 2
  ValidNames <- MCValidNames
  BadNames <- NoNames
  Byte <- MCByte
  Texts <- MCTexts
  PATH_MAX = 6
  Letter <- MCLetter
  Slash = Slash
  Spelling <- MCSpelling
SPECIFICATION Spec
INVARIANTS
  TypeOK
  TreeInv
  LsListsEachChildOnce
  PathLeadsBack
PROPERTIES
  ImplementsFishAbs
  EveryCallAsPromised
