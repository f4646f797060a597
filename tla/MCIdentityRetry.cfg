CONSTANTS
  c1 = c1
  c2 = c2
  broken = broken
  NumEvents = 2
  Broken = {}
  Consumer = {c1}
  BatchSize = 2
  MaxRetries = 2
  NumEntries = 3
SPECIFICATION Spec
INVARIANTS
  ReprocessedHarmless
