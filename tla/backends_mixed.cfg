SPECIFICATION GpuOnly
CONSTANTS
  Lanes = 2
  Banks = 2
  Confs <- MCConfs
  Mats <- MCMats
  Info <- MCInfo
  W <- MCW
  X <- MCX
  Hw <- MCHw
  NRows = 5
  XMax = 6
  YMax = 8
  Tokens = {1, 5}
  MaxCalls = 2
  YCells = 46
  Cap = 120
  MaxSets = 5
  Align = 1
  Models <- MCMixedModels
  Plans <- MCPlans
  Policies = {"fifo"}
INVARIANTS KernelsReadRight
