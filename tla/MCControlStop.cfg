\* Users, timeouts, failing calls and the failing raw threads end the two sides
\* at every point.
CONSTANTS
  Clients = {c1}
  NoClient = NoClient
  MaxSessions = 1
  Faults = {"local", "clientTimeout", "proxyTimeout", "user", "raw"}
SPECIFICATION FairSpec
PROPERTIES ClientStopped SessionStopped SessionErrorEnds
CHECK_DEADLOCK FALSE
