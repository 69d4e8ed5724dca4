SPECIFICATION Spec
CONSTANTS
  x = x
  y = y
  None = None
  Size = 2
  Wrap = 4
  Values <- MCValues
  DrainBatch = 2
  ThrowsIn = {"first"}
  CountCallers <- MCOther
INVARIANT
  CountInRange
