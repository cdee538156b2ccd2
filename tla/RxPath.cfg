\* Three frames: one is damaged, one refused or the recovery, one follows.
SPECIFICATION Spec
CONSTANTS
  SeqModulus = 16
  MaxMessages = 2
  FrameLimit = 3
  MaxGaps = 1
INVARIANTS
  FrontEndContract
  CommitMeansIntactFrame
  AcceptedOrderIsCommitted
  CommittedOrderIsNotStomped
  CleanLineDelivers
  OneResponseWrite
