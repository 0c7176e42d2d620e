SPECIFICATION FairSpec
CONSTANTS
  Tasks <- Tasks5
  Deps <- Join5
  Class <- BranchClass
  NeedsApproval = {1}
  Unroutable = {2}
  MayMatchMany = TRUE
  MayAbort = TRUE
  MaxAttempts = 2
  MaxCrashes = 2

  
PROPERTIES
  ComesToRest
CHECK_DEADLOCK FALSE
