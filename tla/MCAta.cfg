CONSTANTS
  a = a
  b = b
  NoData = NoData
  Blank = a
  SECTORS = 2
  POLLS = 2
  MaxBoots = 2
  Value <- MCValue
  Counts <- MCCounts
SPECIFICATION Spec
INVARIANTS
  TypeOK
  ReadReturnsSector
  WriteStoresItsSectors
PROPERTY EveryCallReturns
