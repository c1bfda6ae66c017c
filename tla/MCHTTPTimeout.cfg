SPECIFICATION Spec
CONSTANTS
  w1 = w1
  w2 = w2
  MaxRequests = 2
  Workers <- TwoWorkers
  Eager = FALSE
  KeepAlive = TRUE
PROPERTIES NotKilledPrematurely
CHECK_DEADLOCK FALSE
