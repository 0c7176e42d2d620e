SPECIFICATION Spec
CONSTANTS
  NoTask = NoTask
  Execs = {1}
  Tasks = {t1}
  MaxActive = 1
  MaxPending = 0
  MaxRetained = 1
  MaxCrashes = 1
  ResumeMayRaise = FALSE
  MayRepause = FALSE
INVARIANT AwaitingIsAnswerable
CHECK_DEADLOCK FALSE
