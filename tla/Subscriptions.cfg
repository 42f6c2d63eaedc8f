CONSTANTS
  s1 = s1
  s2 = s2
  r1 = r1
  r2 = r2
  None = None
  Subs = {s1}
  Requests = {r1, r2}
  InOrder = TRUE
  MaxChanges = 4
  MaxAttempts = 3
  MaxFaults = 2
SPECIFICATION FairSpec
INVARIANTS
  EventsFindRow
  StatusHasCause
  MirrorsStripe
PROPERTIES
  CancellationReachesRow
CHECK_DEADLOCK FALSE
