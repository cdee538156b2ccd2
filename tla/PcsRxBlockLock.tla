--------------------------- MODULE PcsRxBlockLock ---------------------------
(***************************************************************************)
(* src/fpga/rtl/pcs/pcs_rx_block_lock.sv: finds the block boundary by      *)
(* slipping the gearbox until the sync headers are legal, and watches them *)
(* afterwards.  The input of a cycle is "legal" or "illegal", the header   *)
(* of a valid sample, or "none".                                           *)
(***************************************************************************)
EXTENDS Naturals

CONSTANTS
  AcquireLast,     \* 63 in the RTL
  MonitorLast,     \* 63
  InvalidLimit,    \* 16
  SlipWaitLast     \* 31

VARIABLES
  state, acquire_count, monitor_count, invalid_count, slip_wait_count,
  rx_gearbox_slip, block_lock

vars == << state, acquire_count, monitor_count, invalid_count,
           slip_wait_count, rx_gearbox_slip, block_lock >>

Init ==
  /\ state = "ACQUIRE"
  /\ acquire_count = 0 /\ monitor_count = 0
  /\ invalid_count = 0 /\ slip_wait_count = 0
  /\ rx_gearbox_slip = FALSE
  /\ block_lock = FALSE

-----------------------------------------------------------------------------
BlockValid(s) == block_lock /\ s # "none"

ClearCounts ==
  /\ acquire_count' = 0 /\ monitor_count' = 0
  /\ invalid_count' = 0 /\ slip_wait_count' = 0

RequestSlip ==
  /\ state' = "SLIP_WAIT"
  /\ rx_gearbox_slip' = TRUE
  /\ block_lock' = FALSE
  /\ ClearCounts

-----------------------------------------------------------------------------
WaitForSample(s) ==
  /\ state \in {"ACQUIRE", "LOCKED"} /\ s = "none"
  /\ rx_gearbox_slip' = FALSE
  /\ UNCHANGED << state, acquire_count, monitor_count, invalid_count,
                  slip_wait_count, block_lock >>

CountLegal(s) ==
  /\ state = "ACQUIRE" /\ s = "legal" /\ acquire_count # AcquireLast
  /\ acquire_count' = acquire_count + 1
  /\ rx_gearbox_slip' = FALSE
  /\ UNCHANGED << state, monitor_count, invalid_count, slip_wait_count, block_lock >>

Lock(s) ==
  /\ state = "ACQUIRE" /\ s = "legal" /\ acquire_count = AcquireLast
  /\ state' = "LOCKED"
  /\ block_lock' = TRUE
  /\ monitor_count' = 0 /\ invalid_count' = 0
  /\ rx_gearbox_slip' = FALSE
  /\ UNCHANGED << acquire_count, slip_wait_count >>

(* Mutant: a wrong boundary is left without a slip. *)
MisalignedNoSlip(s) ==
  /\ state = "ACQUIRE" /\ s = "illegal"
  /\ rx_gearbox_slip' = FALSE
  /\ ClearCounts
  /\ UNCHANGED << state, block_lock >>

Misaligned(s) == state = "ACQUIRE" /\ s = "illegal" /\ RequestSlip

SlipWait ==
  /\ state = "SLIP_WAIT"
  /\ rx_gearbox_slip' = FALSE
  /\ UNCHANGED block_lock
  /\ IF slip_wait_count = SlipWaitLast
       THEN state' = "ACQUIRE" /\ ClearCounts
       ELSE /\ slip_wait_count' = slip_wait_count + 1
            /\ UNCHANGED << state, acquire_count, monitor_count, invalid_count >>

(* Mutant: one illegal header too many is tolerated. *)
LastInvalidLate(s) == s = "illegal" /\ invalid_count = InvalidLimit

LastInvalid(s) == s = "illegal" /\ invalid_count = InvalidLimit - 1

LoseLock(s) == state = "LOCKED" /\ LastInvalid(s) /\ RequestSlip

(* Mutant: a new window keeps the old count. *)
MonitorKeepsCount(s) ==
  /\ state = "LOCKED" /\ s # "none" /\ ~LastInvalid(s)
  /\ monitor_count' = IF monitor_count = MonitorLast THEN 0 ELSE monitor_count + 1
  /\ invalid_count' = invalid_count + (IF s = "illegal" THEN 1 ELSE 0)
  /\ rx_gearbox_slip' = FALSE
  /\ UNCHANGED << state, acquire_count, slip_wait_count, block_lock >>

(* The header that closes a window is judged above but never counted.      *)
Monitor(s) ==
  /\ state = "LOCKED" /\ s # "none" /\ ~LastInvalid(s)
  /\ IF monitor_count = MonitorLast
       THEN monitor_count' = 0 /\ invalid_count' = 0
       ELSE /\ monitor_count' = monitor_count + 1
            /\ invalid_count' = invalid_count + (IF s = "illegal" THEN 1 ELSE 0)
  /\ rx_gearbox_slip' = FALSE
  /\ UNCHANGED << state, acquire_count, slip_wait_count, block_lock >>

Clock(s) ==
  \/ WaitForSample(s)
  \/ CountLegal(s)
  \/ Lock(s)
  \/ Misaligned(s)
  \/ SlipWait
  \/ LoseLock(s)
  \/ Monitor(s)

Reset ==
  /\ state' = "ACQUIRE"
  /\ ClearCounts
  /\ rx_gearbox_slip' = FALSE
  /\ block_lock' = FALSE

=============================================================================
