SPECIFICATION Spec
CONSTANTS
  w = w
  NumThreads = 2
  Updaters <- MCEveryone
  SyncCallers <- MCWriterOnly
  MaxToken = 3
INVARIANTS
  TypeOK
  AckedSound
  GrantCoversOlder
PROPERTIES
  Contract
