SPECIFICATION FairWorkerSpec
CONSTANTS
  Jobs = {j1}
  Repos = {r1}
  p1 = p1
  p2 = p2
  w1 = w1
  w2 = w2
  Procs = {p1, p2}
  Workers = {w1}
  IdOf <- SharedId
  OfflineAfterLease = TRUE
  SessionsDrop = TRUE
  Keys = {}
  None = None
  MaxRetries = 2
  CleanupLimit = 32
  LegacyAttempts = {}
INVARIANTS
  OneLateWrite
PROPERTIES
  OldProcessFenced
  LostWorkerLetsGo
