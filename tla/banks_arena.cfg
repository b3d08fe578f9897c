SPECIFICATION Spec
CONSTANTS
  a = a
  b = b
  Keys = {a, b}
  Shapes <- OneShape
  NCh = 2
  NRows = 9
  Shared = TRUE
  ArenaSize = 9
  MaxRegions = 8
  MaxVersion = 1
  MaxRow = 12
  MaxModeCalls = 0
INVARIANT Placed
CHECK_DEADLOCK FALSE
