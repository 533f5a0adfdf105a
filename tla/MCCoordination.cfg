SPECIFICATION Spec
CONSTANTS
  Jobs = {j1, j2}
  Repos = {r1}
  Workers = {w1, w2}
  Keys = {}
  None = None
  MaxRetries = 2
  CleanupLimit = 32
  LegacyAttempts = {}
INVARIANTS
  TypeOK
  ReservationMatchesRunning
  GuardHolderOwns
  BudgetRespected
  HistoryExplainsStatus
  ReclaimedAfterExpiry
  CountersBacked
PROPERTIES
  TerminalIsFinal
  LeaseStaysExpired
  CancelWins
  LifecycleSpec
SYMMETRY Interchangeable
