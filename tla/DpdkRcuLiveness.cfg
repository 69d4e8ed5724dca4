SPECIFICATION FairSpec
CONSTANTS
  w = w
  NumThreads = 2
  Updaters <- MCReaders
  SyncCallers <- MCNone
  MaxToken = 3
PROPERTIES
  WaitReturns
