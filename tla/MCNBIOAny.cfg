SPECIFICATION Spec
CONSTANTS
  Offers <- AllOffers
  MaxInputs = 3
  ReadBuffer = 2
  MaxMmap = 2
  MaxChunk = 2
  RemapMayFail = FALSE
  AnyOrder = TRUE
CHECK_DEADLOCK FALSE
INVARIANTS Conserved BufferBounded
PROPERTIES Delivers

