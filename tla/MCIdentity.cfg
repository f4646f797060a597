CONSTANTS
  c1 = c1
  c2 = c2
  broken = broken
  NumEvents = 2
  Broken = {broken}
  Consumer <- const_Consumers
  BatchSize = 2
  MaxRetries = 2
  NumEntries = 2
SPECIFICATION Spec
SYMMETRY const_Symmetry
INVARIANTS
  TypeOK
  NothingLost
  OrderlyConverges
