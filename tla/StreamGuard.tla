---------------------------- MODULE StreamGuard ----------------------------
(***************************************************************************)
(* What the receive side promises about the downstream stream, packet by   *)
(* packet and without clock cycles.  A packet is judged as a whole when it *)
(* is resolved: an intact packet in a healthy stream moves the expected    *)
(* sequence number past its last message, a spoiled one leaves it alone    *)
(* and faults the stream, and a faulted stream ignores every packet except *)
(* an intact one that consists of a single full RESET_ALL.                 *)
(***************************************************************************)
EXTENDS Integers, Sequences

CONSTANT SeqModulus

SequenceNumber == 0 .. SeqModulus - 1

(* The number that follows n, which wraps to 0.                            *)
After(n) == IF n = SeqModulus - 1 THEN 0 ELSE n + 1

Message == [valid: {TRUE}, seq: SequenceNumber, packet_start: BOOLEAN,
            packet_end: BOOLEAN, full_reset: BOOLEAN]

VARIABLES
  fault,       \* the stream is not trusted
  expected,    \* sequence number that follows the last intact packet
  packet,      \* messages of the packet being received, in order
  invalid      \* something already happened that spoils this packet

vars == << fault, expected, packet, invalid >>

NextExpected ==
  IF packet = << >> THEN expected ELSE After(packet[Len(packet)].seq)

(* Mutant: numbers are compared within a packet only. *)
OutOfSequenceInside(m) == ~fault /\ packet # << >> /\ m.seq # NextExpected

OutOfSequence(m) == ~fault /\ m.seq # NextExpected

IsRecovery ==
  /\ Len(packet) = 1
  /\ packet[1].packet_start /\ packet[1].packet_end /\ packet[1].full_reset

Init == fault = FALSE /\ expected = 1 /\ packet = << >> /\ invalid = FALSE

(* The next message is decoded; a gap faults the stream at once, and the   *)
(* loss of an already spoiled packet may become known in the same step.    *)
Deliver(m) ==
  /\ packet' = Append(packet, m)
  /\ fault' \in {fault \/ OutOfSequence(m), fault \/ OutOfSequence(m) \/ invalid}
  /\ invalid' \in {invalid \/ OutOfSequence(m), TRUE}
  /\ UNCHANGED expected

(* A parser abort, a physical abort or a bad FCS.                          *)
Spoil ==
  /\ invalid' = TRUE
  /\ fault' \in {fault, fault \/ invalid}
  /\ UNCHANGED << expected, packet >>

Close == packet' = << >> /\ invalid' = FALSE

Commit ==
  /\ ~invalid /\ ~fault
  /\ Close
  /\ expected' = NextExpected
  /\ UNCHANGED fault

Recover ==
  /\ ~invalid /\ fault /\ IsRecovery
  /\ Close
  /\ fault' = FALSE
  /\ expected' = NextExpected

Ignore ==
  /\ ~invalid /\ fault /\ ~IsRecovery
  /\ Close
  /\ UNCHANGED << fault, expected >>

Discard ==
  /\ invalid
  /\ Close
  /\ fault' = TRUE
  /\ UNCHANGED expected

Next ==
  \/ \E m \in Message : Deliver(m)
  \/ Spoil
  \/ Commit
  \/ Recover
  \/ Ignore
  \/ Discard

Spec == Init /\ [][Next]_vars

=============================================================================
