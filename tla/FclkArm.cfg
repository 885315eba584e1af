SPECIFICATION FairFclkSpec
CONSTANTS
  Controllers = {fclk}
  NoFile = NoFile
  Clocks = {V3D, ARM}
  Gated = {V3D}
  Rates = {1, 2}
  MaxDrift = 1
  Fclk = fclk
  V3D = V3D
  ARM = ARM
  ReadIds = {}
  Clients = {}
  Attempts = 3
INVARIANTS
  OrderlyStopIsClean
PROPERTIES
  ArmSettles
