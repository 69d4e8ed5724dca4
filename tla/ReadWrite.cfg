SPECIFICATION FairSpec
CONSTANTS
  a = a
  b = b
  c = c
  None = None
  Threads <- MCThreads
  MaxWrites = 4
INVARIANTS
  TypeOK
  OnTimeReadersSafe
  ReadsFresh
  EveryOtherChange
  CountsMatchGuards
PROPERTIES
  ReleaseReturns
