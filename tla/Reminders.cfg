CONSTANTS
  m1 = m1
  m2 = m2
  u1 = u1
  u2 = u2
  t1 = t1
  t2 = t2
  Reminders = {m1}
  Users = {u1, u2}
  Movers = {u2}
  Ticks = {t1, t2}
  MaxEditions = 3
  MaxFaults = 2
SPECIFICATION FairSpec
INVARIANTS
  DuplicatesBounded
  SentIsTold
PROPERTIES
  DueIsTold
CHECK_DEADLOCK FALSE
