SPECIFICATION FairSpec
CONSTANTS
  NoTask = NoTask
  Execs = {1, 2}
  Tasks = {t1}
  MaxActive = 1
  MaxPending = 1
  MaxRetained = 1
  MaxCrashes = 1
  ResumeMayRaise = TRUE
  MayRepause = TRUE
INVARIANTS
  RetentionBound
PROPERTIES
  
  
  EveryExecutionSettles
CHECK_DEADLOCK FALSE
