---------------------------- MODULE PacketGuard ----------------------------
(***************************************************************************)
(* rx_packet_controller and downstream_sequence_tracker wired as in        *)
(* src/fpga/rtl/xem8320_top.sv, driven by any receive front end that obeys *)
(* FrontEndContract.  RxPath composes the same two components with the     *)
(* real front end and checks that it does obey it.                         *)
(***************************************************************************)
EXTENDS Integers, Sequences

CONSTANTS
  SeqModulus,    \* 2^32 in the RTL
  MaxMessages    \* messages in one UDP payload, 46 in the RTL

ASSUME ConstantsAssumption ==
  /\ SeqModulus \in Nat /\ SeqModulus > 1
  /\ MaxMessages \in Nat \ {0}

VARIABLES
  (* rx_packet_controller *)
  packet_pending, decode_done, fcs_seen, fcs_passed, packet_failed,
  packet_commit, packet_discard, integrity_failure,
  (* downstream_sequence_tracker *)
  verified_next_sequence_number, current_packet_next_sequence_number,
  full_reset_recovery_pending, stream_fault,
  (* history: the packet being received, as the front end delivered it *)
  packet_log, packet_invalid

Controller == INSTANCE RxPacketController
Tracker == INSTANCE DownstreamSequenceTracker

history == << packet_log, packet_invalid >>
vars == << Controller!vars, Tracker!vars, history >>

Message == Tracker!Message
NoMessage == Tracker!NoMessage

(* Strobes of the front end in one clock cycle.                            *)
Strobes == [packet_start: BOOLEAN, frame_abort: BOOLEAN, decode_abort: BOOLEAN,
            fcs_result_valid: BOOLEAN, fcs_ok: BOOLEAN]

(* Inputs of the controller: the strobes, with the end of decoding and the *)
(* sequence mismatch taken from the decoded message.                       *)
ControllerInputs(s, m) ==
  [packet_start |-> s.packet_start, frame_abort |-> s.frame_abort,
   decode_abort |-> s.decode_abort, fcs_result_valid |-> s.fcs_result_valid,
   fcs_ok |-> s.fcs_ok,
   decode_complete |-> m.valid /\ m.packet_end,
   packet_failure_event |-> Tracker!Mismatch(m)]

(***************************************************************************)
(* What the two components need from the front end: messages are decoded   *)
(* only inside a packet the controller has opened (or in the very cycle it *)
(* reports a discard), the packet-start mark is on the first message, and  *)
(* nothing follows the message marked as the last.                         *)
(***************************************************************************)
FrontEndContract(m) ==
  m.valid => /\ packet_pending \/ packet_discard
             /\ m.packet_start => packet_log = << >>
             /\ packet_log # << >> => ~packet_log[Len(packet_log)].packet_end
             /\ Len(packet_log) < MaxMessages

(* Anything in this cycle that makes the open packet unusable.             *)
Spoiled(s, m) ==
  /\ packet_pending
  /\ \/ s.decode_abort \/ s.frame_abort
     \/ Tracker!Mismatch(m)
     \/ s.fcs_result_valid /\ ~s.fcs_ok /\ ~fcs_seen

RecordHistory(s, m) ==
  IF packet_commit \/ packet_discard
    THEN packet_log' = << >> /\ packet_invalid' = FALSE
    ELSE /\ packet_log' = IF m.valid THEN Append(packet_log, m) ELSE packet_log
         /\ packet_invalid' = (packet_invalid \/ Spoiled(s, m))

Clock(s, m) ==
  /\ Controller!Clock(ControllerInputs(s, m))
  /\ Tracker!Clock(m, packet_commit, packet_discard, integrity_failure)
  /\ RecordHistory(s, m)

Init ==
  /\ Controller!Init
  /\ Tracker!Init
  /\ packet_log = << >>
  /\ packet_invalid = FALSE

Next ==
  \E s \in Strobes, m \in Message \cup {NoMessage} :
    FrontEndContract(m) /\ Clock(s, m)

Spec == Init /\ [][Next]_vars

-----------------------------------------------------------------------------
TypeOK ==
  /\ Controller!TypeOK
  /\ Tracker!TypeOK
  /\ packet_log \in Seq(Message)
  /\ packet_invalid \in BOOLEAN

IsRecoveryPacket ==
  /\ Len(packet_log) = 1
  /\ Tracker!IsolatedFullReset(packet_log[1])

NextExpected ==
  IF packet_log = << >> THEN verified_next_sequence_number
  ELSE Tracker!After(packet_log[Len(packet_log)].seq)

(***************************************************************************)
(* The controller's view of the open packet agrees with what the front end *)
(* delivered: a commit or discard is reported once, after the packet is    *)
(* closed, and it is a discard exactly when something spoiled the packet.  *)
(* Guards the collection of late verdicts in rx_packet_controller.sv.      *)
(***************************************************************************)
VerdictMatchesPacket ==
  /\ packet_commit \/ packet_discard => ~packet_pending
  /\ ~(packet_commit /\ packet_discard)
  /\ packet_pending => (packet_failed <=> packet_invalid)
  /\ packet_commit => ~packet_invalid
  /\ packet_discard => packet_invalid
  /\ integrity_failure => packet_invalid /\ (packet_pending \/ packet_discard)
  /\ ~packet_pending /\ ~packet_commit /\ ~packet_discard =>
       packet_log = << >> /\ ~packet_invalid

(***************************************************************************)
(* The speculative sequence register of a healthy stream always continues  *)
(* the messages decoded so far, and the recovery flag is up exactly for an *)
(* intact lone full RESET_ALL received while the stream was faulted.       *)
(* Guards the speculative advance in downstream_sequence_tracker.sv.       *)
(***************************************************************************)
SpeculationMatchesPacket ==
  /\ ~stream_fault => current_packet_next_sequence_number = NextExpected
  /\ full_reset_recovery_pending =>
       /\ stream_fault /\ IsRecoveryPacket
       /\ current_packet_next_sequence_number = NextExpected
  /\ stream_fault /\ ~packet_invalid /\ IsRecoveryPacket =>
       full_reset_recovery_pending

(***************************************************************************)
(* STREAM_FAULT falls only when an intact packet holding one full          *)
(* RESET_ALL and nothing else commits, and the stream then resumes at the  *)
(* number after that message (internal_protocol_v0.md, RESET_ALL).         *)
(***************************************************************************)
FaultClearsOnlyByRecovery ==
  [][stream_fault /\ ~stream_fault' =>
       /\ packet_commit /\ ~packet_invalid /\ IsRecoveryPacket
       /\ verified_next_sequence_number' = Tracker!After(packet_log[1].seq)]_vars

(* The clocked pair implements the packet-by-packet promise.               *)
Abstract == INSTANCE StreamGuard
              WITH fault <- stream_fault,
                   expected <- verified_next_sequence_number,
                   packet <- packet_log,
                   invalid <- packet_invalid

ImplementsStreamGuard == Abstract!Spec

=============================================================================
