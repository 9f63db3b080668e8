\* A network that loses the datagrams that are sent again, but not the same one
\* for ever.
CONSTANTS
  Clients = {c1}
  NoClient = NoClient
  MaxSessions = 1
  Faults = {"register", "registerAck", "ready", "readyAck"}
SPECIFICATION LossySpec
PROPERTIES ReadyAnswered DataPlanesOpen
CHECK_DEADLOCK FALSE
