SPECIFICATION FairSpec
CONSTANTS
  Jobs = {j1, j2}
  Repos = {r1}
  Workers = {w1}
  Keys = {k1}
  None = None
  MaxRetries = 2
  CleanupLimit = 1
  LegacyAttempts = {2}
INVARIANTS
  BudgetRespected
PROPERTIES
  EveryJobSettles
  CancelIsHonoured
