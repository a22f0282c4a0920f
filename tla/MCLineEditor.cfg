CONSTANTS
  p = p
  q = q
  x = x
  o = o
  arrow = arrow
  Blank = Blank
  NL = NL
  CR = CR
  BS = BS
  TAB = TAB
  NUL = NUL
  Space = Space
  VGA_WIDTH = 4
  VGA_HEIGHT = 3
  TAB_STOP = 2
  LINE_MAX = 7
  FISH_NAME_MAX = 3
  WORD = 128
  SLEEP_LIMIT = 20
  COLOR_LIMIT = 10
  HELP_PER_PAGE = 2
  Prompt <- MCPrompt
  Printable <- MCPrintable
  Ignored <- MCIgnored
  Outputs <- MCOutputs
  Commands <- MCCommands
SPECIFICATION Spec
INVARIANTS
  TypeOK
  ScreenShowsLine
  CommandAndArgument
  WriteSplitsNameAndText
  NumberAsTyped
PROPERTY BackspaceErasesOnlyTyped
