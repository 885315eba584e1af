SPECIFICATION AllSpec
CONSTANTS
  Plans <- MCPlans
  Depth = 2
  MaxRequests = 2
  Cpus = {c1, c2}
  Cpu = c1
  Ring = 2
  Fifo = 2
  High = 2
  Low = 1
INVARIANTS
  HandoffIsExact
  EngineIsClocked
  TransferIsWhole
  WokenWithoutTimer
  AnsweredOnce
  FlowControlHolds
PROPERTIES
  WaitEnds
CHECK_DEADLOCK FALSE
