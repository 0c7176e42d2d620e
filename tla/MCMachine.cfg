SPECIFICATION MachineSpec
CONSTANTS
  e1 = e1
  e2 = e2
  p1 = p1
  p2 = p2
  k1 = k1
  k2 = k2
  Ids = {e1, e2}
  MaxGen = 2
  MaxRuns = 2
  MaxCached = 1
  MaxCrashes = 1
  MayFail = TRUE
  MayRollBack = TRUE
  Procs = {p1, p2}
  Profiles = {"jarvis"}
  DefaultProfile = "jarvis"
  MaxStarts = 2
  NoSecret = NoSecret
  Hosted = {"groq", "openai"}
  Servers = {"custom"}
  Preset = "gmail"
  Secrets = {k1, k2}
  MaxEdits = 4
  Tree <- MCTree
  Root <- MCRoot
  Protected <- MCProtected
  LinkTargets <- MCLinkTargets
  Texts = {"t1", "t2"}
  Big = "big"
  OutsideText = "o"
  Torn = "torn"
  MaxFiles = 1
  MaxLines = 5
  MaxVersions = 2
INVARIANTS
  SetupSafe
  
  DocumentsSafe
PROPERTIES
  
  StartSafe
SYMMETRY Symmetry
CHECK_DEADLOCK FALSE
