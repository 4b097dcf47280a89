SPECIFICATION Spec
CONSTANTS
  NumSockets = 1
  IdleTO = 2
  GoneTO = 1
  MaxLag = 1
PROPERTIES
  ReplyToAsker
