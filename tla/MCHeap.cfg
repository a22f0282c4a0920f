CONSTANTS
  HEAP_SIZE = 24
  HEADER = 3
  ALIGNMENT = 2
  WORD = 32
  Requests <- MCRequests
  Counts <- MCCounts
SPECIFICATION Spec
INVARIANTS
  TypeOK
  BlocksTileTheArena
  ClientsOwnTheirBlocks
  FullyMerged
\* a kcalloc that wipes the memory does not return
CHECK_DEADLOCK FALSE
