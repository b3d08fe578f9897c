SPECIFICATION Spec
CONSTANTS
  a = a
  b = b
  Keys = {a, b}
  Shapes <- TwoFactorings
  NCh = 2
  NRows = 6
  Shared = TRUE
  ArenaSize = 40
  MaxRegions = 6
  MaxVersion = 2
  MaxRow = 9
  MaxModeCalls = 1
SYMMETRY Sym
INVARIANTS TypeOK RowsDisjoint ClientReads WorkerReads
CHECK_DEADLOCK FALSE
