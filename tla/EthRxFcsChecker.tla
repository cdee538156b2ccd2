-------------------------- MODULE EthRxFcsChecker --------------------------
(***************************************************************************)
(* src/fpga/rtl/eth/eth_rx_fcs_checker.sv: one register stage, then the    *)
(* running CRC.  The CRC value is left out: residue_ok, an input, says     *)
(* whether the bytes of the whole frame leave the right residue.  What     *)
(* stays is the timing and the count of the preamble bytes to skip.        *)
(***************************************************************************)
EXTENDS Integers

VARIABLES frame_pipe, skip_remaining, fcs_result_valid, fcs_ok

vars == << frame_pipe, skip_remaining, fcs_result_valid, fcs_ok >>

NoBeat == [valid |-> FALSE, start |-> FALSE, end |-> FALSE, keep |-> 0]

Init ==
  /\ frame_pipe = NoBeat
  /\ skip_remaining = 0
  /\ fcs_result_valid = FALSE
  /\ fcs_ok = FALSE

-----------------------------------------------------------------------------
SkipBefore == IF frame_pipe.start THEN 7 ELSE skip_remaining

SkipAfterWord ==
  IF frame_pipe.keep >= SkipBefore THEN 0 ELSE SkipBefore - frame_pipe.keep

(* fcs_ok is only read under fcs_result_valid; the model forgets it else.  *)
Clock(f, residue_ok) ==
  /\ frame_pipe' = [valid |-> f.valid, start |-> f.start, end |-> f.end, keep |-> f.keep]
  /\ skip_remaining' = IF frame_pipe.valid THEN SkipAfterWord ELSE skip_remaining
  /\ fcs_result_valid' = (frame_pipe.valid /\ frame_pipe.end)
  /\ fcs_ok' = (fcs_result_valid' /\ SkipAfterWord = 0 /\ residue_ok)

=============================================================================
