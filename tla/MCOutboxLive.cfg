CONSTANTS
  NumEvents = 2
  SlaEvent = {2}
  w1 = w1
  w2 = w2
  Worker <- const_Workers
  Batch = 1
  PruneBatch = 1
  PowLimit = 1
  CopyCap = 1
  NoToken = NoToken
  Orphan = Orphan
SPECIFICATION FairSpec
PROPERTIES
  ImplementsAtLeastOnce
