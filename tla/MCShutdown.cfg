SPECIFICATION ShutdownFairSpec
CONSTANTS
  NumThreads = 2
  StopTimeout = 2
  j1 = j1
  j2 = j2
  Jobs <- TwoJobs
  Poison = none
  MaxRequests = 2
  Patience = 1
  CacheMayHang = FALSE
INVARIANTS FirstAskedDecides OneSocketRestart ModulesStopFirst GracefulExit
PROPERTIES AskedEnds
