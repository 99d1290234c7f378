CONSTANTS
  n1 = n1
  n2 = n2
  Node = {n1, n2}
  Channel = {1, 6}
  Advertisements = 1
  MaxVersion = 2
  MaxFaults = 2
  Faults = {"channel", "advertisement", "request", "telemetry", "begin", "end", "sleep",
            "node_restart", "gateway_restart", "network", "connect", "chunk", "late"}
SPECIFICATION FairSpec
INVARIANTS TypeOK NobodyLeftBehind NoneStranded
PROPERTIES DeploymentSpec NoDowngrade TelemetryIsHeard SleepsUpToDate SleepsUnlessStranded FirmwareSpreads
