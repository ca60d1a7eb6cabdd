CONSTANTS
  NumBatches = 2
SPECIFICATION FairSpec
CHECK_DEADLOCK FALSE
INVARIANTS SafeUnlessSuperseded DeliveredOnce SucceededMeansAll EventOrder
PROPERTIES EveryOperationEnds
