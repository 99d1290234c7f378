CONSTANTS
  BufferWords = 6
  ChunkSize = 2
  MinRuns = 3
  MaxRuns = 4
  SizeMax = 1000
  Service = {"gateway", "ota", "telemetry"}
  Zero = "zero"
  Garbage = "garbage"
  Linked = "linked"
  Retries = 2
  DriverErrors = TRUE
  Roles = {"node", "gateway"}
  GatewayReadings = 2
  NtpBoots = 1
  BootsMax = 3
  MaxResets = 1
SPECIFICATION FairSpec
INVARIANTS TypeOK CapacityIsHalf OneRunPerReading BatchIsWhole
  RegisteredIsServed AstrayOnlyWhileAdding HandlersHaveGroup VerdictRight AnswerIsComing
PROPERTIES SamplingSpec GatewaySleeps
