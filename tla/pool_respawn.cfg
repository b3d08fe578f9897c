SPECIFICATION Spec
CONSTANTS
  MaxThreads = 3
  EnvThreads = 0
  Restartable = TRUE
  MaxInits = 2
  FailInits = {1}
  MaxRuns = 2
INVARIANT ExactlyOnce
