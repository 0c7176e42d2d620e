SPECIFICATION FairSpec
CONSTANTS
  t1 = t1
  Tasks = {t1}
  Scopes = {"read", "write"}
  Plans <- MCPlans
  Arguments = {1, 2}
  Grants <- MCGrants
  Lifetime = 1
  MaxRetries = 1
  Horizon = 2
  MaxRuns = 2
PROPERTIES
  AuthoritySafe
  EveryTaskRests
CHECK_DEADLOCK FALSE
