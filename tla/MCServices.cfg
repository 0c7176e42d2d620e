SPECIFICATION ServicesSpec
CONSTANTS
  base = base
  addon = addon
  rival = rival
  t1 = t1
  t2 = t2
  op1 = op1
  NoOne = NoOne
  Plugins = {base, addon, rival}
  Tools = {t1, t2}
  Operators = {op1}
  ToolsOf <- MCToolsOf
  DependsOn <- MCDependsOn
  MaxCalls = 1
  a1 = a1
  a2 = a2
  PausedTasks = {a1, a2}
  NoTask = NoTask
  MaxManagers = 2
  MaxAnswers = 2
  s1 = s1
  s2 = s2
  Searches = {s1, s2}
  Categories = {"web", "news"}
  Keys = {"q"}
  RawAnswers <- MCRawAnswers
  Adapters = {"searxng", "brave", "ddgs"}
  Authoritative = {"x.org"}
  MaxResults = 2
  Most = 2
  MaxRetries = 1
  Ttl <- MCTtl
  MaxDay = 2
  Hosts = {"a", "b"}
  Addresses <- MCAddresses
  AllowLocalhost = FALSE
  AllowPrivate = FALSE
  MaxRedirects = 2
  MaxBody = 1
  NoHost = NoHost
  l1 = l1
  l2 = l2
  p1 = p1
  p2 = p2
  Letters = {l1, l2}
  People = {p1, p2}
  MaxAttempts = 2
  MaxEntries = 1
  MaxStarts = 1
INVARIANTS
  
  
  OutboxSafe

  
CHECK_DEADLOCK FALSE
