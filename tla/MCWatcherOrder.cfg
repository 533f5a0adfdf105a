SPECIFICATION FairSpec
CONSTANTS
  Contents = {c1, c2}
  None = None
  Scanners = {s1}
  Debounce = TRUE
  DefaultEnabled = TRUE
  Misordered = {c1}
PROPERTIES
  SubmissionsCease
