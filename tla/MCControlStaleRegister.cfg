\* Two client runs: a session takes the REGISTER of the wrong one.
CONSTANTS
  Clients = {c1, c2}
  NoClient = NoClient
  MaxSessions = 1
  Faults = {}
SPECIFICATION Spec
SYMMETRY ClientSymmetry
INVARIANTS RegisteredIsAccepted
CHECK_DEADLOCK FALSE
