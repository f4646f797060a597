CONSTANTS
  NumEvents = 2
  SlaEvent = {2}
  w1 = w1
  w2 = w2
  Worker <- const_Workers
  Batch = 2
  PruneBatch = 1
  PowLimit = 2
  CopyCap = 2
  NoToken = NoToken
  Orphan = Orphan
SPECIFICATION SpecH
SYMMETRY const_Symmetry
INVARIANTS
  MutationHasRow
