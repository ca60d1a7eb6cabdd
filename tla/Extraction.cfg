CONSTANTS
  Callers = {1, 2, 3}
  Scenarios <- Mixed
  Links = {"direct", "shared", "other"}
  DirectLinks = {"direct"}
  VideoOf <- Video
  Posts = {"photo", "video"}
  Fallback = TRUE
  Capacity = 1
  MaxFlights = 2
  Concurrency = 1
  MaxQueue = 1
  MaxRetries = 2
  Allowance = 1
  CacheTTL = 1
  MetadataTTL = 2
  ResolutionTTL = 1
SPECIFICATION FairSpec
INVARIANTS CancelIsOwn WorkIsBounded MusicKeepsPromise
PROPERTIES EveryCallReturns
