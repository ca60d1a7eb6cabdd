CONSTANTS
  Buffers <- TwoBuffers
  SizeOf <- Sizes
  Split = 1
  FileLimit = 3
  Budget = 3
  MinGrowth = 1
SPECIFICATION FairSpec
CHECK_DEADLOCK FALSE
INVARIANTS BudgetHolds PinnedIsReserved ReadersSeeData
PROPERTIES ReadersEnd
