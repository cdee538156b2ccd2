---------------------- MODULE DownstreamSequenceTracker ----------------------
(***************************************************************************)
(* src/fpga/rtl/protocol/downstream_sequence_tracker.sv: tracks the        *)
(* sequence number expected next, speculatively while a packet is decoded, *)
(* and latches STREAM_FAULT.  One Clock step is one rising edge of the RX  *)
(* clock; every right-hand side reads the registers before the edge.       *)
(***************************************************************************)
EXTENDS Integers

CONSTANT SeqModulus   \* 2^32 in the RTL; the modules that use this one assume > 1

SequenceNumber == 0 .. SeqModulus - 1

(* Mutant: the increment does not wrap. *)
AfterWithoutWrap(n) == n + 1

(* The 32-bit increment, which wraps to 0.                                 *)
After(n) == IF n = SeqModulus - 1 THEN 0 ELSE n + 1

(* A decoded message as this component sees it; "valid" is its strobe.     *)
Message == [valid: {TRUE}, seq: SequenceNumber, packet_start: BOOLEAN,
            packet_end: BOOLEAN, full_reset: BOOLEAN]

NoMessage == [valid |-> FALSE, seq |-> 0, packet_start |-> FALSE,
              packet_end |-> FALSE, full_reset |-> FALSE]

VARIABLES
  verified_next_sequence_number,
  current_packet_next_sequence_number,
  full_reset_recovery_pending,
  stream_fault

vars == << verified_next_sequence_number, current_packet_next_sequence_number,
           full_reset_recovery_pending, stream_fault >>

TypeOK ==
  /\ verified_next_sequence_number \in SequenceNumber
  /\ current_packet_next_sequence_number \in SequenceNumber
  /\ full_reset_recovery_pending \in BOOLEAN
  /\ stream_fault \in BOOLEAN

Init ==
  /\ verified_next_sequence_number = 1
  /\ current_packet_next_sequence_number = 1
  /\ full_reset_recovery_pending = FALSE
  /\ stream_fault = FALSE

-----------------------------------------------------------------------------
(* Combinational outputs.                                                  *)

Mismatch(m) ==
  m.valid /\ ~stream_fault /\ m.seq # current_packet_next_sequence_number

IsolatedFullReset(m) ==
  m.valid /\ m.packet_start /\ m.packet_end /\ m.full_reset

(* Mutant: a mismatch is not seen in its own cycle. *)
RegisteredStreamFault(m, integrity_failure) == stream_fault \/ integrity_failure

EffectiveStreamFault(m, integrity_failure) ==
  stream_fault \/ Mismatch(m) \/ integrity_failure

-----------------------------------------------------------------------------
(* Mutant: any commit clears the fault. *)
FaultLatchAnyCommit(m, commit, discard, integrity_failure) ==
  stream_fault' = \/ integrity_failure \/ Mismatch(m) \/ discard
                  \/ stream_fault /\ ~commit

(* The fault latch: setting it has priority over recovery.                 *)
FaultLatch(m, commit, discard, integrity_failure) ==
  stream_fault' = \/ integrity_failure \/ Mismatch(m) \/ discard
                  \/ stream_fault /\ ~(commit /\ full_reset_recovery_pending)

(* The four branches of the sequence registers, in priority order.         *)
RollBack(discard) ==
  /\ discard
  /\ current_packet_next_sequence_number' = verified_next_sequence_number
  /\ full_reset_recovery_pending' = FALSE
  /\ UNCHANGED verified_next_sequence_number

(* Mutant: the recovery packet does not move the verified number. *)
VerifyHealthyOnly(commit, discard) ==
  /\ commit /\ ~discard
  /\ verified_next_sequence_number' =
       IF ~stream_fault THEN current_packet_next_sequence_number
                        ELSE verified_next_sequence_number
  /\ full_reset_recovery_pending' = FALSE
  /\ UNCHANGED current_packet_next_sequence_number

Verify(commit, discard) ==
  /\ commit /\ ~discard
  /\ verified_next_sequence_number' =
       IF ~stream_fault \/ full_reset_recovery_pending
         THEN current_packet_next_sequence_number
         ELSE verified_next_sequence_number
  /\ full_reset_recovery_pending' = FALSE
  /\ UNCHANGED current_packet_next_sequence_number

(* Mutant: a full reset among other messages arms the recovery.            *)
AdvanceAnyReset(m, commit, discard) ==
  /\ m.valid /\ ~commit /\ ~discard
  /\ ~Mismatch(m) /\ (stream_fault => m.full_reset)
  /\ current_packet_next_sequence_number' = After(m.seq)
  /\ full_reset_recovery_pending' = (full_reset_recovery_pending \/ stream_fault)
  /\ UNCHANGED verified_next_sequence_number

Advance(m, commit, discard) ==
  /\ m.valid /\ ~commit /\ ~discard
  /\ \/ ~stream_fault /\ ~Mismatch(m)
     \/ stream_fault /\ IsolatedFullReset(m)
  /\ current_packet_next_sequence_number' = After(m.seq)
  /\ full_reset_recovery_pending' = (full_reset_recovery_pending \/ stream_fault)
  /\ UNCHANGED verified_next_sequence_number

Hold(m, commit, discard) ==
  /\ ~commit /\ ~discard
  /\ m.valid => /\ ~stream_fault => Mismatch(m)
                /\ stream_fault => ~IsolatedFullReset(m)
  /\ UNCHANGED << verified_next_sequence_number,
                  current_packet_next_sequence_number,
                  full_reset_recovery_pending >>

Clock(m, commit, discard, integrity_failure) ==
  /\ FaultLatch(m, commit, discard, integrity_failure)
  /\ \/ RollBack(discard)
     \/ Verify(commit, discard)
     \/ Advance(m, commit, discard)
     \/ Hold(m, commit, discard)

=============================================================================
