SPECIFICATION FairSpec
CONSTANTS
  x = x
  y = y
  None = None
  Size = 4
  Wrap = 8
  Values <- MCValues
  DrainBatch = 2
  ThrowsIn = {"first"}
  CountCallers <- MCOwners
INVARIANTS
  TypeOK
  ElementLifetime
  CachesConservative
  CountInRange
PROPERTIES
  Contract
  DestructorEmpties
