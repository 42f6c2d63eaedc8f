CONSTANTS
  c1 = c1
  e1 = e1
  p1 = p1
  p2 = p2
  r1 = r1
  r2 = r2
  r3 = r3
  r4 = r4
  h1 = h1
  r5 = r5
  None = None
  Contracts = {c1}
  Envelopes = {e1}
  ProviderIds = {p1, p2}
  SignRequests = {r1, r2, r5}
  ContractRequests = {r3, r4}
  Hooks = {h1}
  InitialStatus = {"NEGOTIATION"}
  SignerEvents = {"completed"}
  CancelEvents = {"canceled"}
  MaxAttempts = 1
  MaxFaults = 1
SPECIFICATION Spec
INVARIANTS
  KnowledgeSound
  TerminalRowHasCause
  ExecutedIsEarned
  AnnouncedHappened
  OrphansAccounted
SYMMETRY Symmetry
CHECK_DEADLOCK FALSE
