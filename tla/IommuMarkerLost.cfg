SPECIFICATION Spec
CONSTANTS
  Files = {f1, f2}
  NoFile = NoFile
  NumSlots = 1
  Root = Root
  MarkerFailures = 2
PROPERTIES
  BlocksReuseUntilReboot
CHECK_DEADLOCK FALSE
