CONSTANTS
  a1 = a1
  a2 = a2
  Accounts = {a1}
  Seeded <- One
  Logins = {a1}
  Details = {d1, d2}
  Media = {}
  ActiveAccounts = 1
  Concurrency = 2
  DownloadConcurrency = 1
  MaxQueued = 1
  MaxAttempts = 2
  MaxDelay = 2
  MaxClock = 1
  MaxUntil = 3
  MaxRestarts = 1
  Offers <- Few
  MaxSession = 3
  MaxFaults = 1
SYMMETRY Sym
SPECIFICATION Spec
CHECK_DEADLOCK FALSE
INVARIANTS CountersExact SessionIsSaved HealthIsDurable
PROPERTIES DeathIsDeserved RenewalIsNeeded
