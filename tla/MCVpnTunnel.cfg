CONSTANTS
  Supply <- MCSupply
  Header = 1
  Window = 2
  Rules = 2
SPECIFICATION FairSpec
INVARIANTS TypeOK ProxyReachable
PROPERTIES PacketsInOrder HostGivenBack ProxyFollows ClientEnds Delivered
CHECK_DEADLOCK FALSE
