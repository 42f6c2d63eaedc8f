CONSTANTS
  c1 = c1
  c2 = c2
  r1 = r1
  r2 = r2
  r3 = r3
  None = None
  Contracts = {c1, c2}
  Requests = {r1, r2, r3}
  MaxFaults = 2
SPECIFICATION FairSpec
INVARIANTS
  NumbersGapless
  CurrentIsLatest
PROPERTIES
  VersionsAreLog
  EveryRequestEnds
CHECK_DEADLOCK FALSE
