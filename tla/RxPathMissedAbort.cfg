\* Two frames suffice for a packet merged with the next one.
SPECIFICATION Spec
CONSTANTS
  SeqModulus = 16
  MaxMessages = 2
  FrameLimit = 2
  MaxGaps = 1
INVARIANT PacketStartIsAccepted
