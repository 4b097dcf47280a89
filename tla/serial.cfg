SPECIFICATION FairSpec
CONSTANTS
  Size = 4
  MaxLen = 4
  NumReqs = 3
INVARIANTS
  BufferSafe
  NoStaleCharacters
  CopyFaithful
  ExactAnswer
PROPERTIES
  FalseMeansNoAnswer
  CallReturns
CHECK_DEADLOCK FALSE
