CONSTANTS
  h1 = h1
  h2 = h2
  j1 = j1
  w1 = w1
  w2 = w2
  None = None
  Hooks = {h1, h2}
  Jobs = {j1}
  Workers = {w1, w2}
  MaxAttempts = 2
  MaxStalls = 1
  MaxFaults = 2
SPECIFICATION FairSpec
INVARIANTS
  DeliveriesBounded
  RecordedTruly
  CompletedIsAttempted
PROPERTIES
  JobEnds
CHECK_DEADLOCK FALSE
