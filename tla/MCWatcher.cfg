SPECIFICATION FairSpec
CONSTANTS
  Contents = {c1, c2}
  None = None
  Scanners = {s1}
  Debounce = TRUE
  DefaultEnabled = TRUE
  Misordered = {}
INVARIANTS
  WatcherTypeOK
PROPERTIES
  IndexCatchesUp
  SubmissionsCease
  PendingIsSubmitted
  PauseHolds
  OneAutomaticJob
