SPECIFICATION SharedFairSpec
CONSTANTS
  None = None
  Threads = {t1, t2}
  Clients = {c1}
  Jobs = {j1}
  MaxAllocFail = 1
  MaxPause = 1
  MaxWait = 0
  MaxOther = 1
PROPERTIES
  CallsReturn
CHECK_DEADLOCK FALSE
