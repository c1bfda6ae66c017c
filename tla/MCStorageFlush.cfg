SPECIFICATION Spec
CONSTANTS
  Entries <- Pair
  MaxStores = 1
  MaxCrashes = 0
INVARIANTS FlushedIsGone
