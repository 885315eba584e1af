SPECIFICATION FairSpec
CONSTANTS
  MaxSequence = 4
  MaxFailures = 2
  WholeMayFail = FALSE
INVARIANTS
  PromiseKept
PROPERTIES
  StoreIsDurable
  ChangesAreSaved
