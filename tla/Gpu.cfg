SPECIFICATION AllSpec
CONSTANTS
  NumSlots = 3
  Base = 1
  Limit = 12
  Sizes = {1, 2}
  MaxOwn = 4
  MaxImported = 3
  MaxSerial = 5
  f1 = f1
  f2 = f2
  Files = {f1, f2}
  NoFile = NoFile
  Buffers = 2
  Root = Root
  MaxJobs = 2
  MarkerFailures = 1
  u1 = u1
  u2 = u2
  Units = {u1, u2}
  MaxRequests = 3
  MaxForeign = 1
INVARIANTS
  Apart
  BudgetsAreExact
  GpuKeepsWhatItUses
PROPERTIES
  RefusedRightly
  NobodyIsMisled
  WaitEnds
CHECK_DEADLOCK FALSE
