CONSTANTS
  Urls = {"cdn", "mirror"}
  Total = 4
  MinPart = 2
  Connections = 2
  Retries = 2
  Allowance = 1
  Slots = 1
  MaxVersion = 1
SPECIFICATION FairSpec
CHECK_DEADLOCK FALSE
INVARIANTS OneRepresentation SuccessIsWhole NothingLeftRunning
PROPERTIES EveryDownloadEnds
