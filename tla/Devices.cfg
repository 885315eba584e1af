SPECIFICATION AllSpec
CONSTANTS
  f1 = f1
  f2 = f2
  Files = {f1, f2}
  NoFile = NoFile
  MaxDrift = 2
  AlwaysOn = {w}
  Leds = {l}
  Drivers = {d}
  KernelFiles = {k}
  UserFiles = {u}
  Users = {u}
  Asks = {0}
  Temps = {50, 73, 80}
  MaxLease = 2
  Spinup = 1
  RpmPeriod = 1
  MaxAge = 1
  Header = {h}
  Board = {b}
  Found <- MCFound
  BcmPins = {p1, p2}
  Brokered = {p1}
  BcmFound <- MCBcmFound
  Nbls = {n1, n2}
  Cpus = {cpu1, cpu2}
  Ring = 3
  Batch = 1
  Threads = {pnp, c1}
  Pnp = pnp
  Readers = {r1}
  Waiting = 2
  Limit = 1
INVARIANTS
  GateRestored
  LeasesHold
  LowDutyIsJustified
  PinsAsFound
  SendsAreReturned
  MemoryIsQuiet
  NoFrameForgotten
  ControllerIsReady
  NoneStranded
PROPERTIES
  HandsOffAfterFault
  SuppliesHold
SYMMETRY Symmetry
CHECK_DEADLOCK FALSE
