CONSTANTS
  c1 = c1
  e1 = e1
  p1 = p1
  p2 = p2
  r1 = r1
  r2 = r2
  r3 = r3
  r4 = r4
  h1 = h1
  r5 = r5
  None = None
  Contracts = {c1}
  Envelopes = {e1}
  ProviderIds = {p1, p2}
  SignRequests = {r1, r2}
  ContractRequests = {r3}
  Hooks = {h1}
  InitialStatus = {"PENDING_SIGNATURE"}
  SignerEvents = {"viewed", "completed", "all_signed", "declined"}
  CancelEvents = {"voided", "canceled"}
  MaxAttempts = 2
  MaxFaults = 1
SPECIFICATION SerialFairSpec
INVARIANTS
  MirrorsProvider
PROPERTIES
  ReceivedCompletionIsSaved
CHECK_DEADLOCK FALSE
