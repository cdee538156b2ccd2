\* Numbers wrap inside a packet; a packet has a first and a last message.
SPECIFICATION Spec
CONSTANTS
  SeqModulus = 3
  MaxMessages = 2
INVARIANTS
  TypeOK
  VerdictMatchesPacket
  SpeculationMatchesPacket
PROPERTIES
  FaultClearsOnlyByRecovery
  ImplementsStreamGuard
