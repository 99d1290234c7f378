CONSTANTS
  n1 = n1
  n2 = n2
  Node = {n1, n2}
  ChunkCount = 4
  LastRepeats = 3
  MaxFlight = 1
  MaxLosses = 2
  FlashErrors = FALSE
  Settled = TRUE
SPECIFICATION FairSpec
INVARIANTS UpdateSucceeds
PROPERTIES RestartHonoured EveryNodeCompletes GatewayFinishes
CHECK_DEADLOCK FALSE
