SPECIFICATION Spec
CONSTANTS
  a = a
  b = b
  c = c
  None = None
  Threads <- MCThreads
  MaxWrites = 4
SYMMETRY MCSymmetry
INVARIANT
  NoReaderWriterOverlap
