SPECIFICATION HSpec
CONSTANTS
  MaxSessions = 1
  Faults = {"call"}
INVARIANTS
  TransitionCovered
CHECK_DEADLOCK FALSE
