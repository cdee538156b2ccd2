SPECIFICATION Spec
CONSTANTS
  Files <- MCFiles
  MaxTime = 1
  Capacity = 2
  IndexModulus = 8
  MaxMessageCount = 3
  MaxTobBatchDelay = 1
  PendingIntentCapacity = 2
  SequenceModulus = 13
  StartupCommands = 6
INVARIANTS CleanExitIsComplete StreamIsSequenced DecisionsExpected
PROPERTY RunEnds
