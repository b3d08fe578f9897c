SPECIFICATION FairSpec
CONSTANTS
  MaxThreads = 3
  EnvThreads = 2
  Restartable = TRUE
  MaxInits = 2
  FailInits = {2}
  MaxRuns = 2
INVARIANTS TypeOK CtxAlive RemainingExact NoLostWakeup ExactlyOnce
PROPERTIES ImplementsForkJoin RunReturns ShutdownReturns
