CONSTANTS
  KeyLength = 2
  Form <- OneForm
  Garbage = {"?"}
  MaxRequests = 1
  MaxPieces = 2
  Faults = {}
  MaxFaults = 0
SPECIFICATION Spec
PROPERTIES ValidFormIsSaved
CHECK_DEADLOCK FALSE
