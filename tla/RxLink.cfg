\* Short windows and waits, three boundaries.
SPECIFICATION Spec
CONSTANTS
  AcquireLast = 3
  MonitorLast = 5
  InvalidLimit = 3
  SlipWaitLast = 2
  Boundaries = 3
  SlipDelay = 2
  MaxLegalRun = 3
  ErrorLimit = 6
  ResetLimit = 1
INVARIANTS
  ForwardedPayloadIsRight
  BadLineLosesLock
PROPERTIES
  FewErrorsKeepLock
  LockIsFound
