CONSTANTS
  Calls = {c1}
  MaxLosses = 0
  None = None
SPECIFICATION Spec
CHECK_DEADLOCK FALSE
INVARIANTS
  CancelNamesAnOpen
