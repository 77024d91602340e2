CONSTANTS
  None = None
  MaxSubscriptions = 2
  MaxSequence = 1
  Capacity = 1
SPECIFICATION Spec
CHECK_DEADLOCK FALSE
PROPERTIES
  CleanReplacement
