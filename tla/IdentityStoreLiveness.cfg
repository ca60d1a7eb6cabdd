CONSTANTS
  Procs = {A, B}
  Items = {x}
  MaxBackends = 4
  MaxTokens = 2
  MaxStamp = 1
  MaxFaults = 1
SPECIFICATION FairSpec
CHECK_DEADLOCK FALSE
PROPERTIES EventuallySaved EventuallyWritable
