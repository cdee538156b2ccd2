\* Three runs: one finds a fresh FPGA, the others what is left.
SPECIFICATION Spec
CONSTANTS
  SeqModulus = 6
  MaxMessages = 2
  RunLimit = 3
  DisturbanceLimit = 2
INVARIANTS OrdersSeeWhatWasSent StartupSynchronises
CHECK_DEADLOCK FALSE
