CONSTANTS
  None = None
  MaxSubscriptions = 2
  MaxSequence = 3
  Capacity = 2
SPECIFICATION FairSpec
CHECK_DEADLOCK FALSE
INVARIANTS
  TypeOK
  HostHoldsDaemon
  LiveMeansConnected
  InboxContinuesView
PROPERTIES
  UpdatesAreConsecutive
  SupersededWorkerStops
  FedWorkerCatchesUp
  ReconnectingEnds
