------------------------ MODULE PacketGuard_proofs ------------------------
(***************************************************************************)
(* Proofs about PacketGuard for every sequence width and packet size.      *)
(***************************************************************************)
EXTENDS PacketGuard, SequenceTheorems, TLAPS

(* The sequence increment stays in range.                                  *)
LEMMA AfterType == ASSUME NEW n \in Tracker!SequenceNumber
                   PROVE  Tracker!After(n) \in Tracker!SequenceNumber
BY ConstantsAssumption DEF Tracker!After, Tracker!SequenceNumber

(* Only a real message carries the strobe.                                 *)
LEMMA MessageShape ==
  ASSUME NEW m \in Message \cup {NoMessage}
  PROVE  /\ m.valid \in BOOLEAN
         /\ m.valid => m \in Message /\ m.seq \in Tracker!SequenceNumber
         /\ m.packet_start \in BOOLEAN
         /\ m.packet_end \in BOOLEAN
         /\ m.full_reset \in BOOLEAN
<1>1. CASE m \in Message
  BY <1>1 DEF Message, Tracker!Message
<1>2. CASE m = NoMessage
  BY <1>2 DEF NoMessage, Tracker!NoMessage
<1>3. QED
  BY <1>1, <1>2

(* A packet log grown by one message: its length, and its last message.    *)
LEMMA AppendLast ==
  ASSUME NEW s \in Seq(Message), NEW m \in Message
  PROVE  /\ Append(s, m) \in Seq(Message)
         /\ Append(s, m) # << >>
         /\ Len(Append(s, m)) = Len(s) + 1
         /\ Append(s, m)[Len(Append(s, m))] = m
         /\ s = << >> => Len(s) = 0
         /\ Len(s) = 0 => s = << >>
OBVIOUS

(* A step keeps every register in its type.                                *)
LEMMA TypeStep == TypeOK /\ [Next]_vars => TypeOK'
<1> SUFFICES ASSUME TypeOK, [Next]_vars PROVE TypeOK'
  OBVIOUS
<1>1. CASE UNCHANGED vars
  BY <1>1 DEF vars, history, Controller!vars, Tracker!vars, TypeOK,
              Controller!TypeOK, Tracker!TypeOK
<1>2. ASSUME NEW s \in Strobes, NEW m \in Message \cup {NoMessage},
             FrontEndContract(m), Clock(s, m)
      PROVE  TypeOK'
  <2>1. Controller!TypeOK'
    BY <1>2
       DEF TypeOK, Clock, Controller!TypeOK, Controller!Clock,
           Controller!Pulses, Controller!Open, Controller!Collect,
           Controller!Resolve, Controller!Idle, Controller!CaptureVerdict,
           Controller!ResolveEvent, Controller!FailureReady,
           Controller!FailureEvent, Controller!FcsEvent,
           Controller!FcsEventPassed, Controller!DecodeReady,
           ControllerInputs, Strobes, Message, NoMessage, Tracker!Message,
           Tracker!NoMessage, Tracker!Mismatch
  <2>2. Tracker!TypeOK'
    <3>1. /\ verified_next_sequence_number' \in Tracker!SequenceNumber
          /\ current_packet_next_sequence_number' \in Tracker!SequenceNumber
          /\ full_reset_recovery_pending' \in BOOLEAN
      BY <1>2, AfterType, MessageShape
         DEF TypeOK, Clock, Tracker!TypeOK, Tracker!Clock, Tracker!RollBack,
             Tracker!Verify, Tracker!Advance, Tracker!Hold
    <3>2. stream_fault' \in BOOLEAN
      BY <1>2, Zenon DEF Clock, Tracker!Clock, Tracker!FaultLatch
    <3>3. QED
      BY <3>1, <3>2 DEF Tracker!TypeOK
  <2>3. packet_log' \in Seq(Message)
    <3>1. CASE packet_commit \/ packet_discard
      <4>1. packet_log' = << >>
        BY <1>2, <3>1 DEF Clock, RecordHistory
      <4>2. QED
        BY <4>1
    <3>2. CASE ~(packet_commit \/ packet_discard)
      BY <1>2, <3>2, MessageShape, AppendLast DEF TypeOK, Clock, RecordHistory
    <3>3. QED
      BY <3>1, <3>2
  <2>4. packet_invalid' \in BOOLEAN
    BY <1>2 DEF TypeOK, Clock, RecordHistory
  <2>5. QED
    BY <2>1, <2>2, <2>3, <2>4 DEF TypeOK
<1>3. QED
  BY <1>1, <1>2 DEF Next

(* The one element of a one-element sequence.                              *)
LEMMA OnlyElement == ASSUME NEW S, NEW s \in Seq(S), Len(s) = 1
                     PROVE  s[1] \in S
<1>1. 1 \in 1 .. Len(s)
  OBVIOUS
<1>2. QED
  BY <1>1, ElementOfSeq

(* Every register keeps its type, for every sequence width and packet size. *)
THEOREM TypeCorrect == Spec => []TypeOK
<1>1. Init => TypeOK
  <2>1. << >> \in Seq(Message)
    OBVIOUS
  <2>2. 1 \in Tracker!SequenceNumber
    BY ConstantsAssumption DEF Tracker!SequenceNumber
  <2>3. QED
    BY <2>1, <2>2 DEF Init, TypeOK, Controller!Init, Controller!TypeOK,
                      Tracker!Init, Tracker!TypeOK
<1>2. TypeOK /\ [Next]_vars => TypeOK'
  BY TypeStep
<1>3. QED
  BY <1>1, <1>2, PTL DEF Spec

(***************************************************************************)
(* What a clock edge does to the flags of the open packet, from the four   *)
(* alternatives of the controller.                                         *)
(***************************************************************************)
LEMMA ControllerStep ==
  ASSUME TypeOK, NEW s \in Strobes, NEW m \in Message \cup {NoMessage},
         Clock(s, m)
  PROVE  LET e == ControllerInputs(s, m)
         IN  /\ Controller!FailureEvent(e) <=> Spoiled(s, m)
             /\ packet_commit' <=> /\ Controller!ResolveEvent(e)
                                   /\ ~(packet_failed \/ Spoiled(s, m))
             /\ packet_discard' <=> /\ Controller!ResolveEvent(e)
                                    /\ packet_failed \/ Spoiled(s, m)
             /\ integrity_failure' =>
                  packet_pending /\ Spoiled(s, m)
             /\ packet_pending' <=> \/ packet_pending /\ ~Controller!ResolveEvent(e)
                                    \/ ~packet_pending /\ s.packet_start
             /\ packet_pending' =>
                  (packet_failed' <=> packet_pending /\ (packet_failed \/ Spoiled(s, m)))
             /\ Controller!ResolveEvent(e) => packet_pending
<1> DEFINE e == ControllerInputs(s, m)
<1>1. Controller!FailureEvent(e) <=> Spoiled(s, m)
  BY DEF Controller!FailureEvent, Controller!FcsEvent,
         Controller!FcsEventPassed, Spoiled, ControllerInputs
<1>2. Controller!Clock(e)
  BY DEF Clock
<1>3. Controller!ResolveEvent(e) => packet_pending
  BY DEF Controller!ResolveEvent
<1>4. integrity_failure' => Controller!FailureEvent(e) /\ packet_pending
  BY <1>2 DEF Controller!Clock, Controller!Pulses, Controller!FailureEvent,
              Controller!FcsEvent
<1>5. /\ packet_commit' <=> Controller!ResolveEvent(e) /\ ~Controller!FailureReady(e)
      /\ packet_discard' <=> Controller!ResolveEvent(e) /\ Controller!FailureReady(e)
  BY <1>2 DEF Controller!Clock, Controller!Pulses
<1>6. /\ packet_pending' <=> \/ packet_pending /\ ~Controller!ResolveEvent(e)
                             \/ ~packet_pending /\ e.packet_start
      /\ packet_pending' =>
           (packet_failed' <=> packet_pending /\ Controller!FailureReady(e))
  BY <1>2, <1>3 DEF TypeOK, Controller!TypeOK, Controller!Clock,
     Controller!Open, Controller!Collect, Controller!Resolve, Controller!Idle
<1>7. e.packet_start = s.packet_start
  BY DEF ControllerInputs
<1>8. QED
  BY <1>1, <1>3, <1>4, <1>5, <1>6, <1>7 DEF Controller!FailureReady

(***************************************************************************)
(* Every packet is reported once, as a commit or a discard, after it was   *)
(* closed, and as a discard exactly when something spoiled it: the verdict *)
(* rx_packet_controller gives agrees with what the front end delivered.    *)
(***************************************************************************)
THEOREM VerdictCorrect == Spec => []VerdictMatchesPacket
<1>1. Init => VerdictMatchesPacket
  BY DEF Init, VerdictMatchesPacket, Controller!Init
<1>2. TypeOK /\ VerdictMatchesPacket /\ [Next]_vars => VerdictMatchesPacket'
  <2> SUFFICES ASSUME TypeOK, VerdictMatchesPacket, [Next]_vars
               PROVE  VerdictMatchesPacket'
    OBVIOUS
  <2>1. CASE UNCHANGED vars
    BY <2>1 DEF vars, history, Controller!vars, Tracker!vars, VerdictMatchesPacket
  <2>2. ASSUME NEW s \in Strobes, NEW m \in Message \cup {NoMessage},
               FrontEndContract(m), Clock(s, m)
        PROVE  VerdictMatchesPacket'
    <3> DEFINE e == ControllerInputs(s, m)
    <3>1. CASE packet_pending
      <4>1. ~packet_commit /\ ~packet_discard
        BY <3>1 DEF VerdictMatchesPacket
      <4>2. packet_invalid' <=> packet_failed \/ Spoiled(s, m)
        BY <2>2, <3>1, <4>1 DEF VerdictMatchesPacket, Clock, RecordHistory
      <4>3. QED
        BY <2>2, <3>1, <4>2, ControllerStep DEF VerdictMatchesPacket
    <3>2. CASE ~packet_pending
      <4>1. ~packet_commit' /\ ~packet_discard' /\ ~integrity_failure'
        BY <2>2, <3>2, ControllerStep
      <4>2. packet_pending' => ~packet_failed'
        BY <2>2, <3>2, ControllerStep
      <4>3. packet_log' = << >> /\ ~packet_invalid'
        <5>1. CASE packet_commit \/ packet_discard
          BY <2>2, <5>1 DEF Clock, RecordHistory
        <5>2. CASE ~(packet_commit \/ packet_discard)
          BY <2>2, <3>2, <5>2
             DEF Clock, RecordHistory, VerdictMatchesPacket, FrontEndContract, Spoiled
        <5>3. QED
          BY <5>1, <5>2
      <4>4. QED
        BY <4>1, <4>2, <4>3 DEF VerdictMatchesPacket
    <3>3. QED
      BY <3>1, <3>2
  <2>3. QED
    BY <2>1, <2>2 DEF Next
<1>3. QED
  BY <1>1, <1>2, TypeCorrect, PTL DEF Spec

(***************************************************************************)
(* In the cycle after a packet closed nothing else can touch the stream    *)
(* registers when the packet committed.                                    *)
(***************************************************************************)
LEMMA CommitIsAlone ==
  ASSUME TypeOK, VerdictMatchesPacket, NEW m \in Message \cup {NoMessage},
         FrontEndContract(m), packet_commit
  PROVE  ~m.valid /\ ~packet_discard /\ ~integrity_failure /\ ~Tracker!Mismatch(m)
BY DEF VerdictMatchesPacket, FrontEndContract, Tracker!Mismatch

(***************************************************************************)
(* The speculative sequence register of downstream_sequence_tracker always *)
(* continues the messages of the open packet, and the recovery flag is up  *)
(* exactly for an intact lone full RESET_ALL in a faulted stream.          *)
(***************************************************************************)
THEOREM SpeculationCorrect == Spec => []SpeculationMatchesPacket
<1>1. Init => SpeculationMatchesPacket
  BY DEF Init, SpeculationMatchesPacket, NextExpected, Tracker!Init
<1>2. /\ TypeOK /\ VerdictMatchesPacket /\ SpeculationMatchesPacket
      /\ [Next]_vars
      => SpeculationMatchesPacket'
  <2> SUFFICES ASSUME TypeOK, VerdictMatchesPacket, SpeculationMatchesPacket,
                      [Next]_vars
               PROVE  SpeculationMatchesPacket'
    OBVIOUS
  <2>1. CASE UNCHANGED vars
    BY <2>1 DEF vars, history, Controller!vars, Tracker!vars, NextExpected,
                SpeculationMatchesPacket, IsRecoveryPacket
  <2>2. ASSUME NEW s \in Strobes, NEW m \in Message \cup {NoMessage},
               FrontEndContract(m), Clock(s, m)
        PROVE  SpeculationMatchesPacket'
    <3>1. Tracker!Clock(m, packet_commit, packet_discard, integrity_failure)
      BY <2>2 DEF Clock
    <3>2. packet_log \in Seq(Message) /\ packet_log' \in Seq(Message)
      BY TypeStep DEF TypeOK
    <3>3. CASE packet_discard
      <4>1. packet_log' = << >> /\ stream_fault' /\ ~full_reset_recovery_pending'
        BY <2>2, <3>1, <3>3 DEF Clock, RecordHistory, Tracker!Clock,
           Tracker!FaultLatch, Tracker!RollBack, Tracker!Verify,
           Tracker!Advance, Tracker!Hold
      <4>2. QED
        BY <4>1 DEF SpeculationMatchesPacket, IsRecoveryPacket
    <3>4. CASE packet_commit
      <4>1. ~m.valid /\ ~packet_discard /\ ~integrity_failure /\ ~Tracker!Mismatch(m)
        BY <2>2, <3>4, CommitIsAlone
      <4>2. packet_log' = << >> /\ ~packet_invalid'
        BY <2>2, <3>4 DEF Clock, RecordHistory
      <4>3. stream_fault' <=> stream_fault /\ ~full_reset_recovery_pending
        BY <3>1, <3>4, <4>1 DEF Tracker!Clock, Tracker!FaultLatch
      <4>4. Tracker!Verify(packet_commit, packet_discard)
        BY <3>1, <3>4, <4>1 DEF Tracker!Clock, Tracker!RollBack,
           Tracker!Verify, Tracker!Advance, Tracker!Hold
      <4>5. ~stream_fault' => verified_next_sequence_number' =
                                current_packet_next_sequence_number'
        BY <4>3, <4>4 DEF Tracker!Verify
      <4>6. QED
        BY <4>2, <4>4, <4>5 DEF SpeculationMatchesPacket, NextExpected,
           IsRecoveryPacket, Tracker!Verify
    <3>5. CASE ~packet_commit /\ ~packet_discard /\ m.valid
      <4>1. /\ m \in Message /\ packet_pending
            /\ m.packet_start => packet_log = << >>
            /\ packet_log # << >> => ~packet_log[Len(packet_log)].packet_end
        BY <2>2, <3>5, MessageShape DEF FrontEndContract
      <4>2. /\ packet_log' = Append(packet_log, m)
            /\ packet_invalid' <=> packet_invalid \/ Spoiled(s, m)
        BY <2>2, <3>5 DEF Clock, RecordHistory
      <4>3. /\ Len(packet_log') = Len(packet_log) + 1
            /\ packet_log' # << >>
            /\ packet_log'[Len(packet_log')] = m
            /\ Len(packet_log) = 0 <=> packet_log = << >>
        BY <3>2, <4>1, <4>2, AppendLast
      <4>4. NextExpected' = Tracker!After(m.seq)
        BY <4>3 DEF NextExpected
      <4>5. IsRecoveryPacket' =>
              packet_log = << >> /\ Tracker!IsolatedFullReset(m)
        BY <3>2, <4>3 DEF IsRecoveryPacket, Tracker!IsolatedFullReset
      <4>6. ~full_reset_recovery_pending
        BY <3>2, <4>1 DEF SpeculationMatchesPacket, IsRecoveryPacket,
           Tracker!IsolatedFullReset
      <4>7. stream_fault' <=> integrity_failure \/ Tracker!Mismatch(m) \/ stream_fault
        BY <3>1, <3>5 DEF Tracker!Clock, Tracker!FaultLatch
      <4>8. integrity_failure \/ Tracker!Mismatch(m) => packet_invalid'
        BY <4>1, <4>2 DEF VerdictMatchesPacket, Spoiled
      <4>9. CASE ~stream_fault /\ ~Tracker!Mismatch(m)
        <5>1. /\ current_packet_next_sequence_number' = Tracker!After(m.seq)
              /\ ~full_reset_recovery_pending'
          BY <3>1, <3>5, <4>6, <4>9 DEF Tracker!Clock, Tracker!RollBack,
             Tracker!Verify, Tracker!Advance, Tracker!Hold
        <5>2. QED
          BY <4>4, <4>7, <4>8, <4>9, <5>1 DEF SpeculationMatchesPacket
      <4>10. CASE ~stream_fault /\ Tracker!Mismatch(m)
        <5>1. ~full_reset_recovery_pending'
          BY <3>1, <3>5, <4>6, <4>10 DEF Tracker!Clock, Tracker!RollBack,
             Tracker!Verify, Tracker!Advance, Tracker!Hold
        <5>2. QED
          BY <4>7, <4>8, <4>10, <5>1 DEF SpeculationMatchesPacket
      <4>11. CASE stream_fault /\ Tracker!IsolatedFullReset(m)
        <5>1. /\ current_packet_next_sequence_number' = Tracker!After(m.seq)
              /\ full_reset_recovery_pending'
          BY <3>1, <3>5, <4>11 DEF Tracker!Clock, Tracker!RollBack,
             Tracker!Verify, Tracker!Advance, Tracker!Hold
        <5>2. IsRecoveryPacket'
          BY <4>1, <4>3, <4>11 DEF IsRecoveryPacket, Tracker!IsolatedFullReset
        <5>3. QED
          BY <4>4, <4>7, <4>11, <5>1, <5>2 DEF SpeculationMatchesPacket
      <4>12. CASE stream_fault /\ ~Tracker!IsolatedFullReset(m)
        <5>1. ~full_reset_recovery_pending'
          BY <3>1, <3>5, <4>6, <4>12 DEF Tracker!Clock, Tracker!RollBack,
             Tracker!Verify, Tracker!Advance, Tracker!Hold
        <5>2. QED
          BY <4>5, <4>7, <4>12, <5>1 DEF SpeculationMatchesPacket
      <4>13. QED
        BY <4>9, <4>10, <4>11, <4>12
    <3>6. CASE ~packet_commit /\ ~packet_discard /\ ~m.valid
      <4>1. packet_log' = packet_log /\ (packet_invalid => packet_invalid')
        BY <2>2, <3>6 DEF Clock, RecordHistory
      <4>2. /\ UNCHANGED << verified_next_sequence_number,
                            current_packet_next_sequence_number,
                            full_reset_recovery_pending >>
        BY <3>1, <3>6 DEF Tracker!Clock, Tracker!RollBack,
           Tracker!Verify, Tracker!Advance, Tracker!Hold
      <4>3. stream_fault' <=> stream_fault \/ integrity_failure
        BY <3>1, <3>6 DEF Tracker!Clock, Tracker!FaultLatch, Tracker!Mismatch
      <4>4. integrity_failure => packet_invalid
        BY DEF VerdictMatchesPacket
      <4>5. NextExpected' = NextExpected /\ (IsRecoveryPacket' <=> IsRecoveryPacket)
        BY <4>1, <4>2 DEF NextExpected, IsRecoveryPacket
      <4>6. QED
        BY <4>1, <4>2, <4>3, <4>4, <4>5 DEF SpeculationMatchesPacket
    <3>7. QED
      BY <3>3, <3>4, <3>5, <3>6
  <2>3. QED
    BY <2>1, <2>2 DEF Next
<1>3. QED
  BY <1>1, <1>2, TypeCorrect, VerdictCorrect, PTL DEF Spec

(***************************************************************************)
(* The only step that lowers STREAM_FAULT commits an intact packet made of *)
(* one full RESET_ALL, and the stream resumes after that message.          *)
(***************************************************************************)
LEMMA FaultClears ==
  ASSUME TypeOK, VerdictMatchesPacket, SpeculationMatchesPacket, Next,
         stream_fault, ~stream_fault'
  PROVE  /\ packet_commit /\ ~packet_invalid /\ IsRecoveryPacket
         /\ verified_next_sequence_number' = Tracker!After(packet_log[1].seq)
<1>1. PICK s \in Strobes, m \in Message \cup {NoMessage} :
        FrontEndContract(m) /\ Clock(s, m)
  BY DEF Next
<1>2. Tracker!Clock(m, packet_commit, packet_discard, integrity_failure)
  BY <1>1 DEF Clock
<1>3. packet_commit /\ full_reset_recovery_pending
  BY <1>2 DEF Tracker!Clock, Tracker!FaultLatch
<1>4. ~m.valid /\ ~packet_discard
  BY <1>1, <1>3, CommitIsAlone
<1>5. verified_next_sequence_number' = current_packet_next_sequence_number
  BY <1>2, <1>3, <1>4 DEF Tracker!Clock, Tracker!RollBack, Tracker!Verify,
     Tracker!Advance, Tracker!Hold
<1>6. IsRecoveryPacket /\ current_packet_next_sequence_number = NextExpected
  BY <1>3 DEF SpeculationMatchesPacket
<1>7. NextExpected = Tracker!After(packet_log[1].seq)
  <2>1. packet_log # << >> /\ Len(packet_log) = 1
    BY <1>6 DEF TypeOK, IsRecoveryPacket
  <2>2. QED
    BY <2>1 DEF NextExpected
<1>8. QED
  BY <1>3, <1>5, <1>6, <1>7 DEF VerdictMatchesPacket

(***************************************************************************)
(* FaultClearsOnlyByRecovery holds of every behaviour of the clocked pair. *)
(***************************************************************************)
THEOREM RecoveryOnly == Spec => FaultClearsOnlyByRecovery
<1>1. /\ TypeOK /\ VerdictMatchesPacket /\ SpeculationMatchesPacket
      /\ [Next]_vars
      => [stream_fault /\ ~stream_fault' =>
            /\ packet_commit /\ ~packet_invalid /\ IsRecoveryPacket
            /\ verified_next_sequence_number' =
                 Tracker!After(packet_log[1].seq)]_vars
  BY FaultClears
<1>2. QED
  BY <1>1, TypeCorrect, VerdictCorrect, SpeculationCorrect, PTL
     DEF Spec, FaultClearsOnlyByRecovery

(***************************************************************************)
(* Every clock edge is a step of the packet-by-packet promise, or leaves   *)
(* its variables alone.                                                    *)
(***************************************************************************)
LEMMA StepRefines ==
  TypeOK /\ VerdictMatchesPacket /\ SpeculationMatchesPacket /\ [Next]_vars
    => [Abstract!Next]_(Abstract!vars)
<1> SUFFICES ASSUME TypeOK, VerdictMatchesPacket, SpeculationMatchesPacket,
                    [Next]_vars
             PROVE  [Abstract!Next]_(Abstract!vars)
  OBVIOUS
<1> USE DEF TypeOK
<1>1. CASE UNCHANGED vars
  BY <1>1 DEF vars, Tracker!vars, history, Abstract!vars
<1>2. ASSUME NEW s \in Strobes, NEW m \in Message \cup {NoMessage},
             FrontEndContract(m), Clock(s, m)
      PROVE  [Abstract!Next]_(Abstract!vars)
  <2>1. Tracker!Clock(m, packet_commit, packet_discard, integrity_failure)
    BY <1>2 DEF Clock
  <2>2. Abstract!NextExpected = NextExpected /\ Abstract!Message = Message
    BY DEF Abstract!NextExpected, NextExpected, Abstract!After,
       Tracker!After, Abstract!Message, Message, Tracker!Message,
       Abstract!SequenceNumber, Tracker!SequenceNumber
  <2>3. Abstract!IsRecovery <=> IsRecoveryPacket
    <3>1. ASSUME Len(packet_log) = 1 PROVE packet_log[1].valid
      <4>1. packet_log[1] \in Message
        BY <3>1, OnlyElement
      <4>2. QED
        BY <4>1 DEF Message, Tracker!Message
    <3>2. QED
      BY <3>1 DEF Abstract!IsRecovery, IsRecoveryPacket, Tracker!IsolatedFullReset
  <2>4. CASE packet_discard
    <3>1. /\ packet_log' = << >> /\ ~packet_invalid'
          /\ stream_fault'
          /\ UNCHANGED verified_next_sequence_number
      BY <1>2, <2>1, <2>4 DEF Clock, RecordHistory, Tracker!Clock,
         Tracker!FaultLatch, Tracker!RollBack, Tracker!Verify,
         Tracker!Advance, Tracker!Hold
    <3>2. packet_invalid
      BY <2>4 DEF VerdictMatchesPacket
    <3>3. Abstract!Discard
      BY <3>1, <3>2 DEF Abstract!Discard, Abstract!Close
    <3>4. QED
      BY <3>3 DEF Abstract!Next
  <2>5. CASE packet_commit
    <3>1. ~m.valid /\ ~packet_discard /\ ~integrity_failure /\ ~Tracker!Mismatch(m)
      BY <1>2, <2>5, CommitIsAlone
    <3>2. packet_log' = << >> /\ ~packet_invalid' /\ ~packet_invalid
      BY <1>2, <2>5 DEF Clock, RecordHistory, VerdictMatchesPacket
    <3>3. stream_fault' <=> stream_fault /\ ~full_reset_recovery_pending
      BY <2>1, <2>5, <3>1 DEF Tracker!Clock, Tracker!FaultLatch
    <3>4. verified_next_sequence_number' =
            IF ~stream_fault \/ full_reset_recovery_pending
              THEN current_packet_next_sequence_number
              ELSE verified_next_sequence_number
      BY <2>1, <2>5, <3>1 DEF Tracker!Clock, Tracker!RollBack,
         Tracker!Verify, Tracker!Advance, Tracker!Hold
    <3>5. CASE ~stream_fault
      <4>1. verified_next_sequence_number' = NextExpected
        BY <3>4, <3>5 DEF SpeculationMatchesPacket
      <4>2. stream_fault' = stream_fault
        BY <3>3, <3>5 DEF Tracker!TypeOK
      <4>3. Abstract!Commit
        BY <2>2, <3>2, <3>5, <4>1, <4>2 DEF Abstract!Commit, Abstract!Close
      <4>4. QED
        BY <4>3 DEF Abstract!Next
    <3>6. CASE stream_fault /\ IsRecoveryPacket
      <4>1. full_reset_recovery_pending
        BY <3>2, <3>6 DEF SpeculationMatchesPacket
      <4>2. verified_next_sequence_number' = NextExpected /\ ~stream_fault'
        BY <3>3, <3>4, <4>1 DEF SpeculationMatchesPacket
      <4>3. Abstract!Recover
        BY <2>2, <2>3, <3>2, <3>6, <4>2 DEF Abstract!Recover, Abstract!Close
      <4>4. QED
        BY <4>3 DEF Abstract!Next
    <3>7. CASE stream_fault /\ ~IsRecoveryPacket
      <4>1. ~full_reset_recovery_pending
        BY <3>7 DEF SpeculationMatchesPacket
      <4>2. /\ UNCHANGED verified_next_sequence_number
            /\ stream_fault' = stream_fault
        BY <3>3, <3>4, <3>7, <4>1 DEF Tracker!TypeOK
      <4>3. Abstract!Ignore
        BY <2>3, <3>2, <3>7, <4>2 DEF Abstract!Ignore, Abstract!Close
      <4>4. QED
        BY <4>3 DEF Abstract!Next
    <3>8. QED
      BY <3>5, <3>6, <3>7
  <2>6. CASE ~packet_commit /\ ~packet_discard
    <3>1. UNCHANGED verified_next_sequence_number
      BY <2>1, <2>6 DEF Tracker!Clock, Tracker!RollBack, Tracker!Verify,
         Tracker!Advance, Tracker!Hold
    <3>2. packet_invalid' = (packet_invalid \/ Spoiled(s, m))
      BY <1>2, <2>6 DEF Clock, RecordHistory
    <3>3. stream_fault' = (stream_fault \/ Tracker!Mismatch(m) \/ integrity_failure)
      BY <2>1, <2>6 DEF Tracker!Clock, Tracker!FaultLatch, Tracker!TypeOK
    <3>4. integrity_failure => packet_invalid
      BY DEF VerdictMatchesPacket
    <3>5. CASE m.valid
      <4>1. packet_log' = Append(packet_log, m) /\ m \in Abstract!Message
        BY <1>2, <2>2, <2>6, <3>5, MessageShape DEF Clock, RecordHistory
      <4>2. Tracker!Mismatch(m) <=> Abstract!OutOfSequence(m)
        BY <2>2, <3>5 DEF Tracker!Mismatch, Abstract!OutOfSequence,
           SpeculationMatchesPacket
      <4>3. Tracker!Mismatch(m) => Spoiled(s, m)
        BY <1>2, <2>6, <3>5 DEF FrontEndContract, Spoiled
      <4>4. packet_invalid' \in {packet_invalid \/ Abstract!OutOfSequence(m), TRUE}
        BY <3>2, <4>2, <4>3
      <4>5. stream_fault' \in {stream_fault \/ Abstract!OutOfSequence(m),
                               stream_fault \/ Abstract!OutOfSequence(m)
                                 \/ packet_invalid}
        BY <3>3, <3>4, <4>2
      <4>6. Abstract!Deliver(m)
        BY <3>1, <4>1, <4>4, <4>5 DEF Abstract!Deliver
      <4>7. QED
        BY <4>1, <4>6 DEF Abstract!Next
    <3>6. CASE ~m.valid
      <4>1. packet_log' = packet_log /\ ~Tracker!Mismatch(m)
        BY <1>2, <2>6, <3>6 DEF Clock, RecordHistory, Tracker!Mismatch
      <4>2. stream_fault' \in {stream_fault, stream_fault \/ packet_invalid}
        BY <3>3, <3>4, <4>1 DEF Tracker!TypeOK
      <4>3. CASE packet_invalid'
        <5>1. Abstract!Spoil
          BY <3>1, <4>1, <4>2, <4>3, <3>2 DEF Abstract!Spoil
        <5>2. QED
          BY <5>1 DEF Abstract!Next
      <4>4. CASE ~packet_invalid'
        <5>1. packet_invalid' = packet_invalid /\ stream_fault' = stream_fault
          BY <3>2, <3>3, <3>4, <4>1, <4>4 DEF Tracker!TypeOK
        <5>2. QED
          BY <3>1, <4>1, <5>1 DEF Abstract!vars
      <4>5. QED
        BY <4>3, <4>4
    <3>7. QED
      BY <3>5, <3>6
  <2>7. QED
    BY <2>4, <2>5, <2>6
<1>3. QED
  BY <1>1, <1>2 DEF Next

(***************************************************************************)
(* The controller and the tracker, clocked together, implement the         *)
(* packet-by-packet promise of StreamGuard.                                *)
(***************************************************************************)
THEOREM Refinement == Spec => ImplementsStreamGuard
<1>1. Init => Abstract!Init
  BY DEF Init, Abstract!Init, Tracker!Init
<1>2. QED
  BY <1>1, StepRefines, TypeCorrect, VerdictCorrect, SpeculationCorrect, PTL
     DEF Spec, ImplementsStreamGuard, Abstract!Spec

=============================================================================
