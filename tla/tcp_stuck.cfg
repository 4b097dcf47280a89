SPECIFICATION FairSpec
CONSTANTS
  Cells = 3
  Total = 3
  MSS = 1
  Windows = {0, 3}
  Word = 8
  MaxRetries = 1
  MaxAlive = 1
  Commands = 1
PROPERTIES
  ClosesItself
CHECK_DEADLOCK FALSE
