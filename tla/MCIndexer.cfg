SPECIFICATION FairSpec
CONSTANTS
  Paths = {p1}
  Contents = {c1, c2, c3}
  None = None
INVARIANTS
  IndexerTypeOK
  SyncedMeansSynced
PROPERTIES
  NothingForgotten
  QuietPassIndexes
  QuietPassSyncs
  FullPassRepairs
  SteadyIndex
  Converges
