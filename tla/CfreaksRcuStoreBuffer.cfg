SPECIFICATION Spec
CONSTANTS
  w = w
  x = x
  NumThreads = 1
  Updaters <- MCWriter
  Buffered = {0}
  MaxNest = 1
  MaxVersion = 1
INVARIANT
  GracePeriodHolds
