------------------------------ MODULE Recovery ------------------------------
(***************************************************************************)
(* Runs of the host one after the other, a link that loses and damages     *)
(* datagrams, and the FPGA that counts them.  A run starts with two full   *)
(* RESET_ALL in datagrams of their own (sendStartupConfiguration) and goes *)
(* on with datagrams of messages about state, an ORDER_INTENT at the end   *)
(* of some.  The FPGA is StreamGuard, which PacketGuard is proved to       *)
(* implement, and a store that takes each message as it is decoded, also   *)
(* of a packet that is discarded later (xem8320_top.sv, rx0_decoded_valid).*)
(*                                                                         *)
(* Nothing that the FPGA sends makes the host go on here, so a datagram is *)
(* received before the next one is sent.  The sweep of a reset is one step,*)
(* because the host sleeps a millisecond after each.                       *)
(***************************************************************************)
EXTENDS Integers, Sequences

CONSTANTS
  SeqModulus,        \* 2^32
  MaxMessages,       \* messages in a datagram, 46 in the code
  RunLimit,          \* bound: runs of the host
  DisturbanceLimit   \* bound: datagrams lost or damaged, and resets of the FPGA

ASSUME RecoveryAssumption ==
  /\ SeqModulus \in Nat /\ SeqModulus > 3
  /\ MaxMessages \in Nat \ {0}
  /\ RunLimit \in Nat \ {0}
  /\ DisturbanceLimit \in Nat

VARIABLES
  fault, expected, packet, invalid,   \* the FPGA's stream, as in StreamGuard
  run, nextSequenceNumber,            \* the host
  datagram,                           \* being received
  damaged,                            \* the rest of it is not what was sent
  disturbances,
  held,        \* history: the run that last cleared the store; clean says that the
               \*   store holds what that run has sent up to a number, and no more
  intact       \* history: this run has not been disturbed yet

Guard == INSTANCE StreamGuard

stream == << fault, expected, packet, invalid >>
vars   == << stream, run, nextSequenceNumber, datagram, damaged, disturbances, held, intact >>

None == [size |-> 0]

(* size messages numbered from first; an order may be the last of them.    *)
Datagram == [first: 1 .. SeqModulus - 1, size: 1 .. MaxMessages, reset: BOOLEAN, order: BOOLEAN]

Receiving == datagram # None

Init ==
  /\ Guard!Init
  /\ run = 1 /\ nextSequenceNumber = 1
  /\ datagram = None /\ damaged = FALSE /\ disturbances = 0
  /\ held = [run |-> 0, upto |-> 0, clean |-> FALSE]
  /\ intact = TRUE

-----------------------------------------------------------------------------
(* The host                                                                *)
(* Mutant: the reset is sent once. *)
StartupResetsOne == 1

StartupResets == 2

(* The sequencer gives out no number twice: after the last it refuses.     *)
MayBeSent(d) ==
  /\ d.first = nextSequenceNumber /\ d.first + d.size <= SeqModulus
  /\ (d.reset <=> nextSequenceNumber <= StartupResets)
  /\ d.reset => d.size = 1 /\ ~d.order

(* A datagram leaves the host, and arrives or not.                         *)
Depart(d) ==
  /\ ~Receiving /\ MayBeSent(d)
  /\ nextSequenceNumber' = nextSequenceNumber + d.size
  /\ UNCHANGED << stream, run, damaged, held >>

Send(d) == Depart(d) /\ datagram' = d /\ UNCHANGED << disturbances, intact >>

Disturb ==
  /\ disturbances < DisturbanceLimit
  /\ disturbances' = disturbances + 1
  /\ intact' = FALSE

Lose(d) == Depart(d) /\ Disturb /\ UNCHANGED datagram

(* The host program ends, at any point, and is started again.              *)
Restart ==
  /\ ~Receiving /\ run < RunLimit
  /\ run' = run + 1 /\ nextSequenceNumber' = 1
  /\ intact' = TRUE
  /\ UNCHANGED << stream, datagram, damaged, disturbances, held >>

-----------------------------------------------------------------------------
(* The FPGA                                                                *)
MessageNumber == datagram.first + Len(packet)

MessageOf(d) ==
  [valid |-> TRUE, seq |-> MessageNumber, packet_start |-> packet = << >>,
   packet_end |-> Len(packet) + 1 = d.size, full_reset |-> d.reset]

(* The store after a message that is as it was sent.                       *)
Holding(n, reset) ==
  IF reset THEN [run |-> run, upto |-> n, clean |-> TRUE]
  ELSE [held EXCEPT !.upto = n, !.clean = @ /\ held.run = run /\ held.upto = n - 1]

TakeMessage ==
  /\ Receiving /\ ~damaged /\ Len(packet) < datagram.size
  /\ Guard!Deliver(MessageOf(datagram))
  /\ invalid' = (invalid \/ Guard!OutOfSequence(MessageOf(datagram)))
  /\ held' = Holding(MessageNumber, datagram.reset)
  /\ UNCHANGED << run, nextSequenceNumber, datagram, damaged, disturbances, intact >>

Damage ==
  /\ Receiving /\ ~damaged /\ Disturb
  /\ damaged' = TRUE
  /\ UNCHANGED << stream, run, nextSequenceNumber, datagram, held >>

(* What is decoded of the rest may look like anything, a reset included.   *)
TakeGarbled ==
  /\ Receiving /\ damaged /\ Len(packet) < MaxMessages
  /\ \E m \in Guard!Message : Guard!Deliver(m)
  /\ held' = [held EXCEPT !.clean = FALSE]
  /\ UNCHANGED << run, nextSequenceNumber, datagram, damaged, disturbances, intact >>

(* The parser aborts, or the FCS is bad.                                   *)
DetectDamage ==
  /\ Receiving /\ damaged /\ ~invalid
  /\ Guard!Spoil
  /\ UNCHANGED << run, nextSequenceNumber, datagram, damaged, disturbances, held, intact >>

Complete == Receiving /\ IF damaged THEN invalid ELSE Len(packet) = datagram.size

Resolve ==
  /\ Complete
  /\ Guard!Commit \/ Guard!Recover \/ Guard!Ignore \/ Guard!Discard
  /\ datagram' = None /\ damaged' = FALSE
  /\ UNCHANGED << run, nextSequenceNumber, disturbances, held, intact >>

(* rx_pcs_rst, or the FPGA starts anew; what was being received is gone.   *)
ResetFpga ==
  /\ Disturb
  /\ fault' = FALSE /\ expected' = 1 /\ packet' = << >> /\ invalid' = FALSE
  /\ datagram' = None /\ damaged' = FALSE
  /\ held' = [run |-> 0, upto |-> 0, clean |-> FALSE]
  /\ UNCHANGED << run, nextSequenceNumber >>

Next ==
  \/ \E d \in Datagram : Send(d) \/ Lose(d)
  \/ Restart
  \/ TakeMessage \/ Damage \/ TakeGarbled \/ DetectDamage \/ Resolve
  \/ ResetFpga

Spec == Init /\ [][Next]_vars

-----------------------------------------------------------------------------
TypeOK ==
  /\ fault \in BOOLEAN /\ invalid \in BOOLEAN /\ damaged \in BOOLEAN /\ intact \in BOOLEAN
  /\ expected \in Guard!SequenceNumber
  /\ packet \in Seq(Guard!Message)
  /\ run \in Nat \ {0}
  /\ nextSequenceNumber \in 1 .. SeqModulus
  /\ datagram \in Datagram \cup {None}
  /\ disturbances \in Nat
  /\ held \in [run: Nat, upto: Guard!SequenceNumber, clean: BOOLEAN]

(* The packet in reception will be committed, with the order at its end.   *)
OrderIsGood == Complete /\ ~damaged /\ datagram.order /\ ~fault /\ ~invalid

(***************************************************************************)
(* An order whose answer is good was decided on exactly what its run has   *)
(* sent before it, whatever was lost, damaged or left over from earlier    *)
(* runs, if a reset of this run has reached the store at all               *)
(* (fpga_architecture_v0.md, fail-closed recovery).                        *)
(***************************************************************************)
OrdersSeeWhatWasSent ==
  OrderIsGood /\ held.run = run => held.clean /\ held.upto = nextSequenceNumber - 1

(***************************************************************************)
(* The two resets bring the stream in step from every state in which they  *)
(* find the FPGA, fresh or in use, faulted or not, and it stays so while   *)
(* nothing is disturbed (host_gateway.cpp:18).                             *)
(***************************************************************************)
StartupSynchronises ==
  intact /\ ~Receiving /\ nextSequenceNumber > StartupResets =>
    ~fault /\ expected = Guard!After(nextSequenceNumber - 1)
=============================================================================
