CONSTANTS
  p1 = p1
  p2 = p2
  r1 = r1
  r2 = r2
  h1 = h1
  h2 = h2
  None = None
  Intents = {p1}
  Requests = {r1}
  Hooks = {h1}
  MaxAttempts = 2
  MaxFaults = 0
SPECIFICATION FairSpec
PROPERTIES
  SuccessIsPaid
CHECK_DEADLOCK FALSE
