SPECIFICATION Spec
CONSTANTS
  A = A
  B = B
  ab = ab
  ba = ba
  None = None
  Hosts = {A, B}
  Conns = {ab, ba}
  From <- MCFrom
  To <- MCTo
  Requests <- MCRequests
  NumThreads = 2
  MaxPeers = 2
  RecvTimeout = TRUE
  MaxFault = 1
INVARIANTS
  FinMeansStored
  NoTaskAfterFree
PROPERTIES
  UsesPool
CHECK_DEADLOCK FALSE
