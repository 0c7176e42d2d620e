SPECIFICATION ServingSpec
CONSTANTS
  r1 = r1
  r2 = r2
  c1 = c1
  c2 = c2
  Requests = {r1, r2}
  Providers = {1, 2, 3}
  Local = {2, 3}
  Usable = {1, 2}
  Fallback = TRUE
  Cooldown = 1
  MaxAttempts = 2
  Horizon = 1
  MaxChunks = 3
  QueueLimit = 2
  MaxSpoils = 1
  Calls = {c1, c2}
  Streams = {c2}
  Limit = 1
  Window = 3
  Second = 2
  MaxTime = 3
  MaxPublished = 1
PROPERTIES
  ProviderSafe
  ApiSafe
  SilentAfterBargeIn
  EveryRequestEnds
  EveryAnswerEnds
  EveryCallAnswered
CHECK_DEADLOCK FALSE
