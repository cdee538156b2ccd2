------------------------- MODULE RxPacketController -------------------------
(***************************************************************************)
(* src/fpga/rtl/protocol/rx_packet_controller.sv: joins the end of logical *)
(* decoding with the physical integrity verdict of the frame and resolves  *)
(* the packet as committed or discarded.  The inputs of one clock edge are *)
(* a record e of strobes.  The output integrity_result_valid has no reader *)
(* in the design and is left out.                                          *)
(***************************************************************************)

VARIABLES
  packet_pending,     \* an accepted packet awaits commit or discard
  decode_done,        \* its logical decoding has ended
  fcs_seen,           \* its integrity verdict has arrived ...
  fcs_passed,         \* ... and was good
  packet_failed,      \* a failure has been seen
  packet_commit,      \* registered output pulses
  packet_discard,
  integrity_failure

vars == << packet_pending, decode_done, fcs_seen, fcs_passed, packet_failed,
           packet_commit, packet_discard, integrity_failure >>

Inputs == [packet_start: BOOLEAN, decode_complete: BOOLEAN,
           frame_abort: BOOLEAN, decode_abort: BOOLEAN,
           fcs_result_valid: BOOLEAN, fcs_ok: BOOLEAN,
           packet_failure_event: BOOLEAN]

TypeOK ==
  /\ packet_pending \in BOOLEAN
  /\ decode_done \in BOOLEAN
  /\ fcs_seen \in BOOLEAN
  /\ fcs_passed \in BOOLEAN
  /\ packet_failed \in BOOLEAN
  /\ packet_commit \in BOOLEAN
  /\ packet_discard \in BOOLEAN
  /\ integrity_failure \in BOOLEAN

Init ==
  /\ packet_pending = FALSE
  /\ decode_done = FALSE
  /\ fcs_seen = FALSE
  /\ fcs_passed = FALSE
  /\ packet_failed = FALSE
  /\ packet_commit = FALSE
  /\ packet_discard = FALSE
  /\ integrity_failure = FALSE

-----------------------------------------------------------------------------
(* Combinational events.                                                   *)

FcsEvent(e) == packet_pending /\ ~fcs_seen /\ (e.frame_abort \/ e.fcs_result_valid)

(* Mutant: a result counts as good whatever it says. *)
FcsEventArrived(e) == e.fcs_result_valid /\ ~e.frame_abort

FcsEventPassed(e) == e.fcs_result_valid /\ e.fcs_ok /\ ~e.frame_abort

(* Mutant: a logical abort does not fail the packet. *)
FailureEventPhysical(e) ==
  /\ packet_pending
  /\ \/ e.frame_abort \/ e.packet_failure_event
     \/ FcsEvent(e) /\ ~FcsEventPassed(e)

FailureEvent(e) ==
  /\ packet_pending
  /\ \/ e.decode_abort \/ e.frame_abort \/ e.packet_failure_event
     \/ FcsEvent(e) /\ ~FcsEventPassed(e)

DecodeReady(e) == decode_done \/ e.decode_complete \/ e.decode_abort

ResolveEvent(e) == packet_pending /\ DecodeReady(e) /\ (fcs_seen \/ FcsEvent(e))

FailureReady(e) == packet_failed \/ FailureEvent(e)

(* The verdict as the response path samples it: current or captured.       *)
IntegrityKnown(e) == fcs_seen \/ FcsEvent(e)

(* Mutant: the verdict is read from the registers only. *)
IntegrityOkCaptured(e) == fcs_seen /\ fcs_passed

IntegrityOk(e) == \/ fcs_seen /\ fcs_passed
                  \/ FcsEvent(e) /\ FcsEventPassed(e)

-----------------------------------------------------------------------------
Pulses(e) ==
  /\ packet_commit' = (ResolveEvent(e) /\ ~FailureReady(e))
  /\ packet_discard' = (ResolveEvent(e) /\ FailureReady(e))
  /\ integrity_failure' = (FcsEvent(e) /\ ~FcsEventPassed(e))

(* A new packet is accepted only when none is pending.                     *)
Open(e) ==
  /\ e.packet_start /\ ~packet_pending
  /\ packet_pending' = TRUE
  /\ decode_done' = FALSE
  /\ fcs_seen' = FALSE
  /\ fcs_passed' = FALSE
  /\ packet_failed' = FALSE

CaptureVerdict(e) ==
  /\ fcs_seen' = (fcs_seen \/ FcsEvent(e))
  /\ fcs_passed' = IF FcsEvent(e) THEN FcsEventPassed(e) ELSE fcs_passed

Collect(e) ==
  /\ packet_pending /\ ~ResolveEvent(e)
  /\ CaptureVerdict(e)
  /\ decode_done' = DecodeReady(e)
  /\ packet_failed' = FailureReady(e)
  /\ UNCHANGED packet_pending

Resolve(e) ==
  /\ ResolveEvent(e)
  /\ CaptureVerdict(e)
  /\ packet_pending' = FALSE
  /\ decode_done' = FALSE
  /\ packet_failed' = FALSE

Idle(e) ==
  /\ ~packet_pending /\ ~e.packet_start
  /\ UNCHANGED << packet_pending, decode_done, fcs_seen, fcs_passed, packet_failed >>

Clock(e) == Pulses(e) /\ (Open(e) \/ Collect(e) \/ Resolve(e) \/ Idle(e))

=============================================================================
