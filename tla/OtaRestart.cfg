CONSTANTS
  n1 = n1
  n2 = n2
  Node = {n1, n2}
  ChunkCount = 3
  LastRepeats = 2
  MaxFlight = 1
  MaxLosses = 1
  FlashErrors = FALSE
  Settled = FALSE
SPECIFICATION Spec
PROPERTIES RestartHonoured
CHECK_DEADLOCK FALSE
