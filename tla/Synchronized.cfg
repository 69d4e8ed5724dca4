SPECIFICATION Spec
CONSTANTS
  ta = ta
  tb = tb
  tc = tc
  x = x
  y = y
  None = None
  Threads <- MCThreads
  Objects <- MCObjects
  Values <- MCValues
  GuardHolders <- MCHolders
SYMMETRY MCSymmetry
INVARIANTS
  TypeOK
  NoWaitCycle
  LocksMatchGuards
PROPERTIES
  Contract
