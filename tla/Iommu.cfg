SPECIFICATION Spec
CONSTANTS
  Files = {f1, f2}
  NoFile = NoFile
  NumSlots = 2
  Root = Root
  MarkerFailures = 1
INVARIANTS
  NothingDangles
  DmaKeepsTranslation
PROPERTIES
  BlocksReuseUntilReboot
CHECK_DEADLOCK FALSE
