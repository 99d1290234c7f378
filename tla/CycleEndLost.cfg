CONSTANTS
  n1 = n1
  n2 = n2
  Node = {n1, n2}
  Channel = {1, 6}
  Advertisements = 1
  MaxVersion = 1
  MaxFaults = 1
  Faults = {"end"}
SPECIFICATION FairSpec
PROPERTIES AwakeNodeSleeps
