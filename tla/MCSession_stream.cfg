CONSTANTS
  w1 = w1  w2 = w2  s1 = s1  s2 = s2
  r1 = r1  r2 = r2  r3 = r3
  k1 = k1  k2 = k2  k3 = k3
  p1 = p1  p2 = p2  d1 = d1
  None = None
  Workers = {w1, w2}
  Subscribers = {s1, s2}
  RequestIds = {r1, r2, r3}
  Keys = {k1, k2, k3}
  Paths = {p1}
  Roots = {d1}
  Persistent = TRUE
  CanonicalRoot <- MCCanonicalRoot
  Requests <- StreamRequests
  LedgerLimit = 1
  SubscriberCapacity = 2
  MaxSequence = 4
SPECIFICATION Spec
SYMMETRY SymmetricThreads
INVARIANTS
  StreamIsContiguous
  StreamIsWellFormed
  ReplicaConverges
PROPERTIES
  ImplementsFeed
