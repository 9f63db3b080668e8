SPECIFICATION HSpec
CONSTANTS
  MaxSessions = 1
  Faults = {"udp"}
INVARIANTS
  LearningRuleGone
CHECK_DEADLOCK FALSE
