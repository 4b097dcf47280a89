SPECIFICATION FairSpec
CONSTANTS
  NumSockets = 1
  IdleTO = 2
  GoneTO = 1
  MaxLag = 2
PROPERTIES
  NotDroppedEarly
  NotDroppedLate
  KeepsToSockets
  SilenceFrees
  DataIsTaken
