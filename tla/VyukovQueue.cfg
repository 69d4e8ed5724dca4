SPECIFICATION Spec
CONSTANTS
  a = a
  b = b
  c = c
  d = d
  x = x
  y = y
  None = None
  Size = 2
  Producers <- MCProducers
  Consumers <- MCConsumers
  Values <- MCValues
  MaxPos = 4
INVARIANTS
  TypeOK
  ElementLifetime
  RetryMeansProgress
  DestructorAssertion
PROPERTIES
  Contract
  FullVerdict
  EmptyVerdict
