\* Every backend but one, with small matrices; the Vulkan backend with small models.
SPECIFICATION BuiltSpec
CONSTANTS
  Lanes = 2
  Banks = 2
  Confs <- MCConfs
  Mats <- MCMats
  Info <- MCInfo
  W <- MCW
  X <- MCX
  Hw <- MCHw
  NRows = 5
  XMax = 6
  YMax = 8
  Tokens = {1, 5}
  MaxCalls = 2
  YCells = 46
  Cap = 120
  MaxSets = 5
  Align = 1
  Models <- MCModels
  Plans <- MCPlans
  Policies = {"fifo", "lifo", "fresh"}
INVARIANTS BuiltTypeOK ProductRight OneWriter FastIsScalar KernelsReadRight LogitsRight
