SPECIFICATION FairSpec
CONSTANTS
  NumThreads = 2
  StopTimeout = 2
  j1 = j1
  j2 = j2
  j3 = j3
  Jobs <- MCJobs
  Poison = none
INVARIANTS CleanStop EachReadOnce Accounting
PROPERTIES NoThreadLost AcceptedIsHandled StopReturns
