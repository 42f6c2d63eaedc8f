CONSTANTS
  m1 = m1
  m2 = m2
  d1 = d1
  d2 = d2
  r1 = r1
  r2 = r2
  k1 = k1
  Matters = {m1, m2}
  Docs = {d1, d2}
  Callers = {r1, r2}
  Runs = {k1}
  MatterLimit = 1
  Attempts = 2
  MaxFailures = 1
SPECIFICATION DocumentsSpec
SYMMETRY Symmetry
INVARIANTS
  ObjectsAccounted
  RetiredHadCause
CHECK_DEADLOCK FALSE
