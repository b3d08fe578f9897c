SPECIFICATION FairSpec
CONSTANTS
  SeqMod = 3
  CmdCounts = {1, 3}
  MaxCmds = 2
  WithGuest = TRUE
  OneProcess = FALSE
  MaxJobs = 3
  MaxRegions = 1
  MaxStarts = 2
INVARIANTS TypeOK WorkerInWindow GuestInWindow
PROPERTIES ImplementsRemoteGemv MacAnswers GuestAnswers GuestStops
CHECK_DEADLOCK FALSE
