SPECIFICATION FairTickSpec
CONSTANTS
  LoMax = 1
  HiMax = 1
  TopMax = 2
INVARIANTS
  NoTickLost
PROPERTIES
  ReadsTheClock
  TickGetReturns
