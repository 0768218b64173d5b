SPECIFICATION FairSpec
CONSTANTS
  None = None
  Threads = {t1, t2}
  Clients = {c1, c2}
  Jobs = {j1, j2}
  MaxAllocFail = 0
  MaxPause = 0
  MaxWait = 1
  MaxOther = 0
INVARIANTS
  TypeOK
  WorkConserving
  WaitReturnsAfterDueJobs
  FreedOnlyWhenIdle
PROPERTIES
  KeepsFairPromise
  AcceptedJobsFinish
  
