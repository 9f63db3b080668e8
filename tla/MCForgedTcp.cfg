CONSTANTS
  Word = 16
  Starts = {15}
  Header = 10
  MTU = 11
  Packets <- MCPackets
  InFlight = 2
SPECIFICATION FairSpec
INVARIANTS TypeOK BasesAgree StreamIntact NothingInvented
PROPERTIES NoHole ProbeAnswered
CHECK_DEADLOCK FALSE
