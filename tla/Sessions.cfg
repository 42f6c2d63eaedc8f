CONSTANTS
  r1 = r1
  r2 = r2
  Requests = {r1, r2}
  Cap = 1
  MaxAttempts = 2
  MaxSessions = 4
  MaxGuesses = 7
  MaxRevocations = 1
  MaxFaults = 1
SPECIFICATION Spec
SYMMETRY Symmetry
INVARIANTS
  RotationNeverForks
  SurvivorsBounded
  SessionsBounded
  GuessesBounded
CHECK_DEADLOCK FALSE
