SPECIFICATION HFairSpec
CONSTANTS
  MaxRuns = 2
  Faults = {"call", "undo", "udp", "tunnel", "raw", "kill"}
INVARIANTS
  TypeOK
  ProxyReachable
  DescriptorsOpen
  LeftoversKept
PROPERTIES
  HostGivenBack
  CleanupEnds
CHECK_DEADLOCK FALSE
