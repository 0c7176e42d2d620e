SPECIFICATION StoresSpec
CONSTANTS
  s1 = s1
  s2 = s2
  user = user
  guest = guest
  e1 = e1
  e2 = e2
  w1 = w1
  query = query
  Sessions = {s1, s2}
  Principals = {user, guest}
  Default = user
  None = None
  Events = {e1, e2}
  Keep = 1
  CacheBound = 1
  MaxTurn = 3
  MaxMishaps = 1
  NoId = NoId
  Readers <- MCReaders
  Queries = {query}
  MaxMemories = 2
  MaxRecent = 1
  MaxRetrievals = 1
  TopRecent = 1

  
PROPERTIES
  SessionSafe
CHECK_DEADLOCK FALSE
