SPECIFICATION FairSpec
CONSTANTS
  Cells = 6
  StreamLen = 9
  Half = 6
INVARIANTS
  FutureHeld
  AckedArrived
PROPERTIES
  IsByteStream
  AllArrives
CHECK_DEADLOCK FALSE
