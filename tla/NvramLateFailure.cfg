SPECIFICATION FairSpec
CONSTANTS
  MaxSequence = 3
  MaxFailures = 1
  WholeMayFail = TRUE
PROPERTIES
  StoreIsDurable
