SPECIFICATION FairSpec
CONSTANTS
  A = A
  B = B
  ab = ab
  ba = ba
  None = None
  Hosts = {A, B}
  Conns = {ab, ba}
  From <- MCFrom
  To <- MCTo
  Requests <- MCRequests
  NumThreads = 2
  MaxPeers = 2
  RecvTimeout = TRUE
  MaxFault = 0
PROPERTIES
  HelloCompletes
  ShutdownCompletes
CHECK_DEADLOCK FALSE
