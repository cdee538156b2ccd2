\* A few orders, at any distance the line allows.
SPECIFICATION Spec
CONSTANTS
  FifoDepth = 16
  SyncDelays = {2, 4}
  PauseSequence = 12
  OrderWireBytes = 98
  OrderLimit = 3
INVARIANTS
  TypeOK
  PayloadIsOwnDecision
  AnswersInOrder
PROPERTIES LineWellFormed EveryOrderAnswered
