SPECIFICATION FairSpec
CONSTANTS
  SeqMod = 3
  CmdCounts = {0}
  MaxCmds = 2
  WithGuest = FALSE
  OneProcess = TRUE
  MaxJobs = 2
  MaxRegions = 1
  MaxStarts = 1
PROPERTY StopReturns
CHECK_DEADLOCK FALSE
