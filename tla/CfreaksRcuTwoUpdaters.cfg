SPECIFICATION Spec
CONSTANTS
  w = w
  x = x
  NumThreads = 1
  Updaters <- MCWriters
  Buffered = {}
  MaxNest = 1
  MaxVersion = 2
INVARIANT
  GracePeriodHolds
