CONSTANTS
  a1 = a1
  a2 = a2
  Accounts = {a1}
  Seeded <- One
  Logins = {a1}
  Details = {d1, d2}
  Media = {m1, m2}
  ActiveAccounts = 1
  Concurrency = 1
  DownloadConcurrency = 1
  MaxQueued = 1
  MaxAttempts = 2
  MaxDelay = 1
  MaxClock = 0
  MaxUntil = 1
  MaxRestarts = 0
  Offers = {}
  MaxSession = 2
  MaxFaults = 1
SPECIFICATION FairSpec
CHECK_DEADLOCK FALSE
PROPERTIES EveryCallEnds
