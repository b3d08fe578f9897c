SPECIFICATION Spec
CONSTANTS
  MaxThreads = 4
  EnvThreads = 0
  Restartable = FALSE
  MaxInits = 1
  FailInits = {1}
  MaxRuns = 3
INVARIANT ExactlyOnce
