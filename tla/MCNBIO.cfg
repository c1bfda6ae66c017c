SPECIFICATION FairSpec
CONSTANTS
  Offers <- AllOffers
  MaxInputs = 3
  ReadBuffer = 2
  MaxMmap = 2
  MaxChunk = 2
  RemapMayFail = TRUE
  AnyOrder = FALSE
CHECK_DEADLOCK FALSE
INVARIANTS NoSleepOnData DoneOnce

PROPERTIES Finishes
