\* One client run and one session under every fault of the two hosts; a copy
\* of every datagram stays in flight, so each may be late, repeated or lost.
\* The threads go on, for what Ctrl+C brings about.
CONSTANTS
  Clients = {c1}
  NoClient = NoClient
  MaxSessions = 1
  Faults = {"local", "clientTimeout", "proxyTimeout", "signal", "user", "raw", "crash", "duplicate"}
SPECIFICATION FairSpec
INVARIANTS TypeOK ReadyAgreement
PROPERTIES EndedIsUntouched SignalEnds
CHECK_DEADLOCK FALSE
