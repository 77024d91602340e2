CONSTANTS
  Connections = {c1, c2, c3}
  MaxConnections = 1
  None = None
SPECIFICATION Spec
CHECK_DEADLOCK FALSE
INVARIANTS
  AcceptLoopIsFree
