CONSTANTS
  NumBatches = 1
SPECIFICATION Spec
CHECK_DEADLOCK FALSE
INVARIANTS SafeMeansNotDelivered
