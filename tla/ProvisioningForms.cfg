CONSTANTS
  KeyLength = 2
  Form <- ManyForms
  Garbage = {"?"}
  MaxRequests = 2
  MaxPieces = 2
  Faults = {"receive", "set", "commit", "read", "power"}
  MaxFaults = 2
SPECIFICATION FairSpec
INVARIANTS TypeOK AcknowledgedIsKept
PROPERTIES SavedAsSubmitted AcknowledgedBoardRuns
CHECK_DEADLOCK FALSE
