CONSTANTS
  c1 = c1
  c2 = c2
  event = event
  poison = poison
  Event = {poison, event}
  Poison = {poison}
  Junk = {}
  Consumer <- const_Consumers
  BatchSize = 1
  MaxRetries = 2
  MaxLen = 2
  NumEntries = 2
SPECIFICATION FairSpec
PROPERTIES
  ImplementsGroup
