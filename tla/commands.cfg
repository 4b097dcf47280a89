SPECIFICATION Spec
CONSTANTS
  Clients = {"a", "b"}
  Careful = {"a"}
  Orders <- MCOrders
  MaxLine = 8
  RxSize = 9
  NumParam = 3
  LenParam = 8
  MaskWidth = 2
  RxFifo = 9
  MaxOwed = 2
INVARIANTS
  NoLeftovers
  AtMostOneAnswer
  CarefulAnswered
PROPERTIES
  MeansWhatItSays
