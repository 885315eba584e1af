SPECIFICATION FairSpec
CONSTANTS
  Cpus = {c1}
  Ring = 2
  Fifo = 2
PROPERTIES
  ReadyArrives
CHECK_DEADLOCK FALSE
