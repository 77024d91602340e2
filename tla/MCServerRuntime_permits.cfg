CONSTANTS
  Connections = {c1, c2, c3}
  MaxConnections = 2
  None = None
SPECIFICATION FairSpec
CHECK_DEADLOCK FALSE
INVARIANTS
  TypeOK
  PermitsMatchThreads
PROPERTIES
  PermitsComeBack
  RequestsAreAnswered
