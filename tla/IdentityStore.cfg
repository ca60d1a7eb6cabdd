CONSTANTS
  Procs = {A, B}
  Items = {x}
  MaxBackends = 4
  MaxTokens = 2
  MaxStamp = 2
  MaxFaults = 2
SPECIFICATION Spec
SYMMETRY Symmetry
CHECK_DEADLOCK FALSE
INVARIANTS ConnectedIsOwner SavedIsDurable FailedIsExplained
PROPERTIES ImplementsOwnedRows CloseMeansSaved
