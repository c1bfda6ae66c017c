SPECIFICATION FairSpec
CONSTANTS
  w1 = w1
  w2 = w2
  MaxRequests = 3
  Workers <- TwoWorkers
  Eager = FALSE
  KeepAlive = TRUE
INVARIANTS InOrder AnswersInOrder Watched
PROPERTIES TakenIsAnswered ConnectionEnds
CHECK_DEADLOCK FALSE
