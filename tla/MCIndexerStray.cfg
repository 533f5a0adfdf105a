SPECIFICATION Spec
CONSTANTS
  Paths = {p1}
  Contents = {c1}
  None = None
PROPERTIES
  QuietPassSweeps
