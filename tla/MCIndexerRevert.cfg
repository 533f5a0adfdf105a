SPECIFICATION Spec
CONSTANTS
  Paths = {p1}
  Contents = {c1, c2}
  None = None
PROPERTIES
  QuietPassRepairs
