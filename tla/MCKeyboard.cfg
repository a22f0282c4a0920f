CONSTANTS
  BUFFER_SIZE = 4
  Keys <- MCKeys
  Empty = Empty
SPECIFICATION Spec
INVARIANTS
  TypeOK
  ShiftNeverSticks
PROPERTIES
  ImplementsKeyQueue
  WaitingKeyIsRead
