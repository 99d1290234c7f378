CONSTANTS
  BufferWords = 6
  ChunkSize = 2
  MinRuns = 3
  MaxRuns = 4
  SizeMax = 1000
  Service = {"gateway", "ota", "telemetry"}
  Zero = "zero"
  Garbage = "garbage"
  Linked = "linked"
  Retries = 2
  DriverErrors = FALSE
  Roles = {"node"}
  GatewayReadings = 2
  NtpBoots = 1
  BootsMax = 3
  MaxResets = 0
SPECIFICATION Spec
INVARIANTS ReadingIsStored
