SPECIFICATION Spec
CONSTANTS
  Entries <- Pair
  MaxStores = 2
  MaxCrashes = 1
INVARIANTS FreshRead NothingForgotten UnlinkedIsGone
PROPERTIES StopSaves
