SPECIFICATION FclkSpec
SYMMETRY Symmetry
CONSTANTS
  Controllers = {fclk, other}
  NoFile = NoFile
  Clocks = {V3D, ARM}
  Gated = {V3D}
  Rates = {1}
  MaxDrift = 0
  Fclk = fclk
  V3D = V3D
  ARM = ARM
  ReadIds = {CORE}
  Clients = {a, b}
  Attempts = 1
INVARIANTS
  Agreement
PROPERTIES
  LeaseIsKept
  UncertainHandsOff
  ProviderKeepsItsWord
