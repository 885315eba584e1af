SPECIFICATION Spec
CONSTANTS
  Dma = dma
  Clients = {dma, uart}
  DmaSource = IrqDma
  Sources = {IrqDma, IrqUart, IrqUsb}
  Leasable = {IrqDma, IrqUart}
  BufIds = {b1, b2}
  NoBuf = NoBuf
  BootClocks <- MCBootClocks
INVARIANTS
  RoutesFollowLeases
  ClocksAsFound
  EngineKeepsBuffer
  CopyIsHonest
