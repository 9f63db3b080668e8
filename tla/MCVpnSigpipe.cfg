CONSTANTS
  Supply <- MCSupply
  Header = 1
  Window = 2
  Rules = 2
SPECIFICATION Spec
INVARIANT RestoredWhileTunExists
CHECK_DEADLOCK FALSE
