CONSTANTS
  a1 = a1
  a2 = a2
  Accounts = {a1, a2}
  Seeded <- One
  Logins = {}
  Offers = {}
  Details = {d1}
  Media = {}
  ActiveAccounts = 1
  Concurrency = 1
  DownloadConcurrency = 1
  MaxQueued = 1
  MaxAttempts = 2
  MaxDelay = 1
  MaxClock = 0
  MaxUntil = 1
  MaxRestarts = 1
  MaxSession = 2
  MaxFaults = 1
  MaxImports = 2
  Batches <- Small
SPECIFICATION FairImportSpec
CHECK_DEADLOCK FALSE
INVARIANTS EveryRowReported ReportIsTrue
PROPERTIES EveryImportEnds
