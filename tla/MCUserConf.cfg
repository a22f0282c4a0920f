CONSTANTS
  conf = conf
  dir = dir
  u = u
  v = v
  nl = nl
  sp = sp
  NUL = NUL
  NEWLINE = nl
  CONFIG_FILE = conf
  MAX_NODES = 3
  FILE_MAX = 6
  USER_NAME_MAX = 3
  MaxEdits = 3
  ValidNames <- MCValidNames
  BadNames <- MCBadNames
  Byte <- MCByte
  Blank <- MCBlank
  DefaultName <- MCDefaultName
  DefaultHost <- MCDefaultHost
  Typed <- MCTyped
  Texts <- MCTexts
SPECIFICATION ConfSpec
INVARIANTS
  ConfTypeOK
  NamesReadable
  UserSaveTouchesOnlyConf
PROPERTY WrittenNamesComeBack
