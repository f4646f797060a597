CONSTANTS
  c1 = c1
  c2 = c2
  event = event
  junk = junk
  Event = {event}
  Poison = {}
  Junk = {junk}
  Consumer <- const_Consumers
  BatchSize = 2
  MaxRetries = 2
  MaxLen = 2
  NumEntries = 3
SPECIFICATION SpecH
SYMMETRY const_Symmetry
INVARIANTS
  TypeOK
  NoSilentDrop
  DlqAfterRetries
PROPERTIES
  NoNeedlessRetry
