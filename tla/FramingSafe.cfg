SPECIFICATION FairSpec
CONSTANTS
  Junk = Junk
  IntBytes = 4
  MaxSize = 13
  Sent <- MCSent
  Hellos <- MCHellos
  Pipelined = FALSE
  RecvTimeout = TRUE
INVARIANTS
  InOrder
  HelloDelivered
PROPERTIES
  ReceiveEnds
