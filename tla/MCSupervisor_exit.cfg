CONSTANTS
  None = None
SPECIFICATION Spec
CHECK_DEADLOCK FALSE
INVARIANTS
  ExitShutsDaemonDown
