SPECIFICATION FairSpec
CONSTANTS
  w = w
  x = x
  NumThreads = 2
  Updaters <- MCReaderAndWriter
  Buffered = {1}
  MaxNest = 2
  MaxVersion = 3
INVARIANTS
  TypeOK
  LoneCallGrace
  CurrentPhaseDrained
  SectionSpan
PROPERTIES
  EverySynchronizeReturns
