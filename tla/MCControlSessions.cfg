\* Two client runs, which time out or are ended by their users, and two
\* sessions: late, repeated and misdelivered datagrams of one pairing meet
\* another.
CONSTANTS
  Clients = {c1, c2}
  NoClient = NoClient
  MaxSessions = 2
  Faults = {"clientTimeout", "user", "duplicate", "rebind"}
SPECIFICATION HSpec
SYMMETRY ClientSymmetry
INVARIANTS RegistrationAgreement MarkerNotMissed StopJustified
PROPERTY SetUpInOrder
CHECK_DEADLOCK FALSE
