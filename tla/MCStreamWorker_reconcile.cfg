CONSTANTS
  None = None
  MaxSubscriptions = 1
  MaxSequence = 2
  Capacity = 1
SPECIFICATION FairSpec
CHECK_DEADLOCK FALSE
PROPERTIES
  ClientReconciles
