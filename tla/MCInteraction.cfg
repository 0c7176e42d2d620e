SPECIFICATION InteractionSpec
CONSTANTS
  Tasks <- Tasks4
  Deps <- Chain4
  Class <- ChainClass
  NeedsApproval = {2}
  Unroutable = {}
  MayMatchMany = TRUE
  MayAbort = FALSE
  MaxAttempts = 2
  MaxCrashes = 2
  s1 = s1
  s2 = s2
  s3 = s3
  Sessions = {s1, s2, s3}
  Nobody = Nobody
  Initial = s1
  Earlier = {s2}
  MaxInputs = 4
  MaxItems = 2
  MaxTasks = 2
  Limit = 2
  PipeRoom = 2
  MaxOutput = 6
  MaxCommands = 2
INVARIANTS
  ChainSafe
  
PROPERTIES
  TerminalSafe
  InputComesBack
  EveryCommandAnswered
CHECK_DEADLOCK FALSE
