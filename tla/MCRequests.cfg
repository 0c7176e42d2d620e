SPECIFICATION RequestsSpec
CONSTANTS
  r1 = r1
  r2 = r2
  r3 = r3
  s1 = s1
  s2 = s2
  p1 = p1
  p2 = p2
  Requests = {r1, r2, r3}
  Talks = {s1, s2}
  Principals = {p1, p2}
  Phrases = {"literal", "save"}
  Resources = {"code"}
  NoRequest = NoRequest
  MaxTalks = 1
  c1 = c1
  c2 = c2
  x1 = x1
  k1 = k1
  Processes = {c1, c2}
  Executions = {x1}
  PluginKeys = {k1}
  RunBy <- MCRunBy
  NoProcess = NoProcess
  MaxEvents = 3
  MaxAudit = 4
  MaxClock = 2
SYMMETRY Symmetry
INVARIANTS
  PipelineSafe
  ChainVerifies
PROPERTIES
  TrailSafe
CHECK_DEADLOCK FALSE
