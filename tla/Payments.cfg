CONSTANTS
  p1 = p1
  p2 = p2
  r1 = r1
  r2 = r2
  h1 = h1
  h2 = h2
  None = None
  Intents = {p1, p2}
  Requests = {r1, r2}
  Hooks = {h1, h2}
  MaxAttempts = 3
  MaxFaults = 2
SPECIFICATION FairSpec
INVARIANTS
  BooksAgree
  NoPaymentForgotten
PROPERTIES
  BooksAreLedger
  SuccessIsEntered
CHECK_DEADLOCK FALSE
