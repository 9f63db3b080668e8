SPECIFICATION HFairSpec
CONSTANTS
  MaxSessions = 3
  Faults = {"call", "udp", "tunnel", "raw"}
INVARIANTS
  TypeOK
  OneRule
  PlaneComplete
  DescriptorsOpen
  NothingRuns
PROPERTIES
  HostGivenBack
  CleanupEnds
CHECK_DEADLOCK FALSE
