SPECIFICATION Spec
CONSTANTS
  Offers <- ObjOffers
  MaxInputs = 2
  ReadBuffer = 2
  MaxMmap = 2
  MaxChunk = 2
  RemapMayFail = FALSE
  AnyOrder = TRUE
CHECK_DEADLOCK FALSE
INVARIANTS NoSleepOnData
