-------------------------- MODULE Recovery_proofs --------------------------
(***************************************************************************)
(* Orders of a restarted host are decided on what that host has sent, and  *)
(* its two resets bring the stream in step, for every number of runs,      *)
(* disturbances and messages in a datagram.                                *)
(***************************************************************************)
EXTENDS Recovery, TLAPS

(* Between datagrams the FPGA keeps nothing of a packet.                   *)
Idle == ~Receiving => packet = << >> /\ ~invalid /\ ~damaged

(* The datagram in reception is the last that the host has sent.           *)
Fits ==
  Receiving =>
    /\ datagram \in Datagram
    /\ nextSequenceNumber = datagram.first + datagram.size
    /\ datagram.reset <=> datagram.first <= StartupResets
    /\ datagram.reset => datagram.size = 1 /\ ~datagram.order

(* What was decoded of an undamaged datagram is what was sent.             *)
Decoded ==
  Receiving /\ ~damaged =>
    /\ Len(packet) <= datagram.size
    /\ \A i \in 1 .. Len(packet) :
         packet[i] = [valid |-> TRUE, seq |-> datagram.first + i - 1,
                      packet_start |-> i = 1, packet_end |-> i = datagram.size,
                      full_reset |-> datagram.reset]

HeldBefore == held.run <= run

(* A reset has reached the store before its packet is resolved.            *)
ResetHeld ==
  Receiving /\ ~damaged /\ datagram.reset /\ packet # << >> =>
    held.run = run /\ held.clean /\ held.upto = packet[Len(packet)].seq

(* In a stream that is trusted the store is where the stream is.           *)
InStep ==
  ~fault /\ ~invalid /\ ~damaged /\ held.run = run =>
    held.clean /\ Guard!NextExpected = Guard!After(held.upto)

(* What an undisturbed run has done to the stream, between datagrams ...   *)
StartedUp ==
  intact /\ ~Receiving =>
    /\ nextSequenceNumber = 2 => fault \/ expected = 2
    /\ nextSequenceNumber > 2 => ~fault /\ expected = Guard!After(nextSequenceNumber - 1)

(* ... and in one.                                                         *)
StartingUp ==
  intact =>
    /\ ~damaged
    /\ Receiving /\ datagram.first > 1 =>
         /\ ~invalid
         /\ fault => datagram.first = 2
         /\ ~fault /\ packet = << >> => expected = datagram.first

IInv ==
  /\ TypeOK /\ Idle /\ Fits /\ Decoded /\ HeldBefore
  /\ ResetHeld /\ InStep /\ StartedUp /\ StartingUp

-----------------------------------------------------------------------------
LEMMA AfterType ==
  ASSUME NEW n \in Guard!SequenceNumber
  PROVE  Guard!After(n) \in Guard!SequenceNumber
BY RecoveryAssumption DEF Guard!After, Guard!SequenceNumber

(* After is one to one.                                                    *)
LEMMA AfterInjective ==
  ASSUME NEW n \in Guard!SequenceNumber, NEW k \in Guard!SequenceNumber,
         Guard!After(n) = Guard!After(k)
  PROVE  n = k
BY RecoveryAssumption DEF Guard!After, Guard!SequenceNumber

LEMMA NextExpectedType ==
  ASSUME TypeOK
  PROVE  Guard!NextExpected \in Guard!SequenceNumber
<1>1. CASE packet = << >>
  BY <1>1 DEF TypeOK, Guard!NextExpected
<1>2. CASE packet # << >>
  <2>1. Len(packet) \in 1 .. Len(packet)
    BY <1>2 DEF TypeOK
  <2>2. packet[Len(packet)] \in Guard!Message
    BY <2>1 DEF TypeOK
  <2>3. packet[Len(packet)].seq \in Guard!SequenceNumber
    BY <2>2 DEF Guard!Message
  <2> QED BY <1>2, <2>3, AfterType DEF Guard!NextExpected
<1> QED BY <1>1, <1>2

(* A datagram says what its fields are, None has no such fields.           *)
LEMMA DatagramFields ==
  ASSUME TypeOK
  PROVE  /\ Receiving => datagram \in Datagram
         /\ \A d \in Datagram : /\ d.first \in 1 .. SeqModulus - 1
                                /\ d.size \in 1 .. MaxMessages
                                /\ d.reset \in BOOLEAN /\ d.order \in BOOLEAN
BY DEF TypeOK, Receiving, Datagram

(* A packet grown by one message.                                          *)
LEMMA AppendLast ==
  ASSUME NEW s \in Seq(Guard!Message), NEW m \in Guard!Message
  PROVE  /\ Append(s, m) \in Seq(Guard!Message)
         /\ Append(s, m) # << >>
         /\ Len(s) \in Nat /\ Len(Append(s, m)) = Len(s) + 1
         /\ Append(s, m)[Len(s) + 1] = m
         /\ \A i \in 1 .. Len(s) : Append(s, m)[i] = s[i]
OBVIOUS

LEMMA InitInv == Init => IInv
<1> SUFFICES ASSUME Init PROVE IInv
  OBVIOUS
<1>1. TypeOK
  <2>1. packet \in Seq(Guard!Message)
    BY DEF Init, Guard!Init
  <2>2. held \in [run: Nat, upto: Guard!SequenceNumber, clean: BOOLEAN]
    BY RecoveryAssumption DEF Init, Guard!SequenceNumber
  <2>3. expected \in Guard!SequenceNumber /\ nextSequenceNumber \in 1 .. SeqModulus
    BY RecoveryAssumption DEF Init, Guard!Init, Guard!SequenceNumber
  <2>4. datagram \in Datagram \cup {None}
    BY DEF Init
  <2>5. run \in Nat \ {0} /\ disturbances \in Nat
    BY DEF Init
  <2>6. fault \in BOOLEAN /\ invalid \in BOOLEAN /\ damaged \in BOOLEAN /\ intact \in BOOLEAN
    BY DEF Init, Guard!Init
  <2> QED BY <2>1, <2>2, <2>3, <2>4, <2>5, <2>6 DEF TypeOK
<1>2. Idle /\ Fits /\ Decoded /\ HeldBefore /\ ResetHeld /\ InStep /\ StartedUp /\ StartingUp
  BY DEF Init, Guard!Init, Idle, Fits, Decoded, HeldBefore, ResetHeld, InStep,
     StartedUp, StartingUp, Receiving
<1> QED BY <1>1, <1>2 DEF IInv

-----------------------------------------------------------------------------
(* A datagram that leaves finds the stream where the last one has left it. *)
LEMMA SendInv ==
  ASSUME IInv, NEW d \in Datagram, Send(d)
  PROVE  IInv'
<1> USE DEF IInv, Send, Depart
<1>0. d.first \in 1 .. SeqModulus - 1 /\ d.size \in 1 .. MaxMessages /\ MaxMessages \in Nat
      /\ d.reset \in BOOLEAN /\ d.order \in BOOLEAN /\ SeqModulus \in Nat
  BY DatagramFields, RecoveryAssumption
<1>1. TypeOK'
  BY <1>0 DEF TypeOK, stream, MayBeSent
<1>2. Receiving' /\ d # None
  <2>1. d # None
    BY <1>0 DEF Datagram, None
  <2> QED BY <2>1 DEF Receiving
<1>3. packet = << >> /\ packet' = << >> /\ ~invalid' /\ ~damaged'
  BY DEF Idle, stream
<1>4. Idle' /\ HeldBefore'
  BY <1>2, <1>3 DEF Idle, HeldBefore
<1>5. Fits'
  BY <1>2, <1>0 DEF Fits, MayBeSent
<1>6. Decoded' /\ ResetHeld'
  BY <1>3, <1>0 DEF Decoded, ResetHeld
<1>7. InStep'
  BY DEF InStep, stream, Guard!NextExpected
<1>8. StartedUp'
  BY <1>2 DEF StartedUp
<1>9. StartingUp'
  <2> SUFFICES ASSUME intact, d.first > 1
               PROVE  (fault => d.first = 2) /\ (~fault => expected = d.first)
    BY <1>3 DEF StartingUp, stream
  <2>1. nextSequenceNumber = d.first /\ ~Receiving
    BY DEF MayBeSent
  <2>2. d.first = 2 \/ Guard!After(d.first - 1) = d.first
    BY <1>0 DEF Guard!After
  <2> QED BY <1>0, <2>1, <2>2 DEF StartedUp
<1> QED BY <1>1, <1>4, <1>5, <1>6, <1>7, <1>8, <1>9

(* A datagram that is lost is a disturbance.                               *)
LEMMA LoseInv ==
  ASSUME IInv, NEW d \in Datagram, Lose(d)
  PROVE  IInv'
<1> USE DEF IInv, Lose, Depart, Disturb
<1>0. d.first \in 1 .. SeqModulus - 1 /\ d.size \in 1 .. MaxMessages /\ MaxMessages \in Nat
      /\ SeqModulus \in Nat
  BY DatagramFields, RecoveryAssumption
<1>1. TypeOK'
  <2>1. disturbances' \in Nat
    BY DEF TypeOK
  <2>2. intact' \in BOOLEAN
    OBVIOUS
  <2>3. nextSequenceNumber' \in 1 .. SeqModulus
    BY <1>0 DEF TypeOK, MayBeSent
  <2> QED BY <2>1, <2>2, <2>3 DEF TypeOK, stream
<1>2. ~Receiving /\ ~Receiving'
  BY DEF Receiving
<1>3. Idle' /\ Fits' /\ Decoded' /\ HeldBefore' /\ ResetHeld'
  BY <1>2 DEF Idle, Fits, Decoded, HeldBefore, ResetHeld, stream
<1>4. InStep'
  BY DEF InStep, stream, Guard!NextExpected
<1>5. StartedUp' /\ StartingUp'
  BY DEF StartedUp, StartingUp
<1> QED BY <1>1, <1>3, <1>4, <1>5

(* A new run: nothing in the store is of it.                               *)
LEMMA RestartInv ==
  ASSUME IInv, Restart
  PROVE  IInv'
<1> USE DEF IInv, Restart
<1>1. TypeOK'
  BY RecoveryAssumption DEF TypeOK, stream
<1>2. ~Receiving /\ ~Receiving'
  BY DEF Receiving
<1>3. held.run \in Nat /\ run \in Nat /\ held.run < run'
  BY DEF TypeOK, HeldBefore
<1>4. Idle' /\ Fits' /\ Decoded' /\ HeldBefore' /\ ResetHeld' /\ InStep'
  BY <1>2, <1>3 DEF Idle, Fits, Decoded, HeldBefore, ResetHeld, InStep, stream
<1>5. StartedUp' /\ StartingUp'
  BY <1>2 DEF StartedUp, StartingUp, Idle
<1> QED BY <1>1, <1>4, <1>5

-----------------------------------------------------------------------------
(* A message taken from a datagram that is as it was sent.                 *)
LEMMA TakeMessageInv ==
  ASSUME IInv, TakeMessage
  PROVE  IInv'
<1> DEFINE m == MessageOf(datagram)
           n == datagram.first + Len(packet)
<1> USE DEF IInv, TakeMessage
<1>0. /\ datagram \in Datagram
      /\ datagram.first \in 1 .. SeqModulus - 1
      /\ datagram.size \in 1 .. MaxMessages
      /\ datagram.reset \in BOOLEAN /\ datagram.order \in BOOLEAN
      /\ MaxMessages \in Nat /\ SeqModulus \in Nat /\ SeqModulus > 3
  BY DatagramFields, RecoveryAssumption
<1>1. n \in Guard!SequenceNumber /\ n \in Nat /\ n > 0 /\ Len(packet) \in Nat
  BY <1>0 DEF Fits, TypeOK, Guard!SequenceNumber
<1>2. m \in Guard!Message /\ m.seq = n /\ m.full_reset = datagram.reset
  BY <1>0, <1>1 DEF MessageOf, MessageNumber, Guard!Message
<1>3. /\ packet' = Append(packet, m) /\ packet' \in Seq(Guard!Message)
      /\ packet' # << >> /\ Len(packet') = Len(packet) + 1
      /\ packet'[Len(packet')] = m
      /\ \A i \in 1 .. Len(packet) : packet'[i] = packet[i]
  BY <1>2, AppendLast DEF TypeOK, Guard!Deliver
<1>4. Guard!NextExpected' = Guard!After(n)
  BY <1>2, <1>3 DEF Guard!NextExpected, Guard!After
<1>5. TypeOK'
  <2>1. held' \in [run: Nat, upto: Guard!SequenceNumber, clean: BOOLEAN]
    BY <1>0, <1>1 DEF Holding, MessageNumber, TypeOK
  <2>2. fault' \in BOOLEAN /\ invalid' \in BOOLEAN
    BY <1>2 DEF Guard!Deliver, Guard!OutOfSequence, TypeOK
  <2> QED BY <1>3, <2>1, <2>2 DEF TypeOK, Guard!Deliver
<1>6. Idle' /\ Fits'
  BY DEF Idle, Fits, Receiving
<1>7. Decoded'
  <2>1. m = [valid |-> TRUE, seq |-> datagram.first + (Len(packet) + 1) - 1,
             packet_start |-> Len(packet) + 1 = 1,
             packet_end |-> Len(packet) + 1 = datagram.size,
             full_reset |-> datagram.reset]
    <3>1. (packet = << >>) = (Len(packet) + 1 = 1)
      BY DEF TypeOK
    <3>2. MessageNumber = datagram.first + (Len(packet) + 1) - 1
      BY <1>0, <1>1 DEF MessageNumber
    <3> QED BY <3>1, <3>2 DEF MessageOf
  <2>2. \A i \in 1 .. Len(packet') : i \in 1 .. Len(packet) \/ i = Len(packet) + 1
    BY <1>1, <1>3
  <2>3. Len(packet') <= datagram.size
    BY <1>0, <1>1, <1>3
  <2> SUFFICES ASSUME NEW i \in 1 .. Len(packet')
               PROVE  packet'[i] = [valid |-> TRUE, seq |-> datagram.first + i - 1,
                                    packet_start |-> i = 1, packet_end |-> i = datagram.size,
                                    full_reset |-> datagram.reset]
    BY <2>3 DEF Decoded
  <2>4. CASE i \in 1 .. Len(packet)
    BY <1>3, <2>4 DEF Decoded
  <2>5. CASE i = Len(packet) + 1
    BY <1>3, <2>1, <2>5
  <2> QED BY <2>2, <2>4, <2>5
<1>8. HeldBefore'
  BY <1>0 DEF HeldBefore, Holding, TypeOK
<1>9. ResetHeld'
  BY <1>2, <1>3 DEF ResetHeld, Holding, MessageNumber
<1>10. InStep'
  <2> SUFFICES ASSUME ~fault', ~invalid', held'.run = run
               PROVE  held'.clean /\ held'.upto = n
    BY <1>4 DEF InStep
  <2>1. ~fault /\ ~invalid /\ n = Guard!NextExpected
    BY <1>2 DEF Guard!Deliver, Guard!OutOfSequence, TypeOK
  <2>2. CASE datagram.reset
    BY <2>2 DEF Holding, MessageNumber
  <2>3. CASE ~datagram.reset
    <3>1. held.run = run
      BY <2>3 DEF Holding, TypeOK
    <3>2. held.clean /\ n = Guard!After(held.upto)
      BY <2>1, <3>1 DEF InStep
    <3>3. held.upto \in Guard!SequenceNumber
      BY DEF TypeOK
    <3>4. held.upto = n - 1
      BY <1>0, <1>1, <3>2, <3>3 DEF Guard!After, Guard!SequenceNumber
    <3> QED BY <2>3, <3>1, <3>2, <3>4 DEF Holding, MessageNumber, TypeOK
  <2> QED BY <1>0, <2>2, <2>3
<1>11. StartedUp'
  BY DEF StartedUp, Receiving
<1>12. StartingUp'
  <2> SUFFICES ASSUME intact, datagram.first > 1
               PROVE  ~invalid' /\ (fault' => datagram.first = 2)
    BY <1>3 DEF StartingUp, Receiving
  <2>1. ~invalid /\ (fault => datagram.first = 2)
    BY DEF StartingUp
  <2>2. ~Guard!OutOfSequence(m)
    <3> SUFFICES ASSUME ~fault PROVE n = Guard!NextExpected
      BY <1>2 DEF Guard!OutOfSequence
    <3>1. CASE packet = << >>
      BY <1>0, <3>1 DEF StartingUp, Guard!NextExpected
    <3>2. CASE packet # << >>
      <4>1. Len(packet) \in 1 .. Len(packet)
        BY <3>2 DEF TypeOK
      <4>2. packet[Len(packet)].seq = n - 1
        <5>1. packet[Len(packet)] =
                [valid |-> TRUE, seq |-> datagram.first + Len(packet) - 1,
                 packet_start |-> Len(packet) = 1, packet_end |-> Len(packet) = datagram.size,
                 full_reset |-> datagram.reset]
          BY <4>1 DEF Decoded
        <5> HIDE DEF IInv, TakeMessage, m
        <5>2. packet[Len(packet)].seq = datagram.first + Len(packet) - 1
          BY <5>1
        <5>3. datagram.first \in Nat /\ Len(packet) \in Nat
          BY <1>0, <1>1
        <5> QED BY <5>2, <5>3
      <4>3. Guard!After(n - 1) = n
        BY <1>0, <1>1 DEF Guard!After, Guard!SequenceNumber
      <4> QED BY <3>2, <4>2, <4>3 DEF Guard!NextExpected
    <3> QED BY <3>1, <3>2
  <2> QED BY <2>1, <2>2 DEF Guard!Deliver
<1> QED BY <1>5, <1>6, <1>7, <1>8, <1>9, <1>10, <1>11, <1>12

(* What follows a damage only has to keep its type: nothing is claimed of  *)
(* a damaged datagram.                                                     *)
LEMMA DamagedInv ==
  ASSUME IInv, Damage \/ TakeGarbled \/ DetectDamage
  PROVE  IInv'
<1> USE DEF IInv
<1>1. TypeOK'
  <2>1. CASE Damage
    <3>1. disturbances' \in Nat
      BY <2>1 DEF Damage, Disturb, TypeOK
    <3>2. intact' \in BOOLEAN
      BY <2>1 DEF Damage, Disturb
    <3>3. damaged' \in BOOLEAN
      BY <2>1 DEF Damage
    <3> QED BY <2>1, <3>1, <3>2, <3>3 DEF Damage, TypeOK, stream
  <2>2. CASE TakeGarbled
    <3>1. PICK m \in Guard!Message : Guard!Deliver(m)
      BY <2>2 DEF TakeGarbled
    <3>2. packet' \in Seq(Guard!Message)
      BY <3>1, AppendLast DEF TypeOK, Guard!Deliver
    <3>3. fault' \in BOOLEAN /\ invalid' \in BOOLEAN
      BY <3>1 DEF Guard!Deliver, Guard!OutOfSequence, TypeOK
    <3> QED BY <2>2, <3>1, <3>2, <3>3 DEF TakeGarbled, TypeOK, Guard!Deliver
  <2>3. CASE DetectDamage
    BY <2>3 DEF DetectDamage, Guard!Spoil, TypeOK
  <2> QED BY <2>1, <2>2, <2>3
<1>2. damaged' /\ ~intact' /\ Receiving' /\ held'.run = held.run
      /\ UNCHANGED << run, nextSequenceNumber, datagram >>
  BY DEF Damage, TakeGarbled, DetectDamage, Disturb, Receiving, TypeOK, StartingUp
<1>3. Idle' /\ Fits' /\ Decoded' /\ HeldBefore' /\ ResetHeld' /\ InStep' /\ StartedUp' /\ StartingUp'
  BY <1>2 DEF Idle, Fits, Decoded, HeldBefore, ResetHeld, InStep, StartedUp, StartingUp, Receiving
<1> QED BY <1>1, <1>3

(* The last message of a packet that is to be resolved as it was sent.     *)
LEMMA WholePacket ==
  ASSUME IInv, Complete, ~damaged
  PROVE  /\ packet # << >>
         /\ packet[Len(packet)] \in Guard!Message
         /\ packet[Len(packet)].seq = nextSequenceNumber - 1
         /\ packet[Len(packet)].full_reset = datagram.reset
         /\ datagram.reset => Guard!IsRecovery
         /\ Guard!NextExpected = Guard!After(nextSequenceNumber - 1)
<1> USE DEF IInv, Complete
<1>1. /\ datagram.first \in 1 .. SeqModulus - 1
      /\ datagram.size \in 1 .. MaxMessages /\ MaxMessages \in Nat /\ SeqModulus \in Nat
  BY DatagramFields, RecoveryAssumption
<1>2. Len(packet) = datagram.size /\ Len(packet) \in 1 .. Len(packet) /\ packet # << >>
  BY <1>1 DEF TypeOK
<1>3. packet[Len(packet)] \in Guard!Message
  BY <1>2 DEF TypeOK
<1>4. packet[Len(packet)] = [valid |-> TRUE, seq |-> datagram.first + Len(packet) - 1,
                             packet_start |-> Len(packet) = 1, packet_end |-> TRUE,
                             full_reset |-> datagram.reset]
  BY <1>2 DEF Decoded
<1>5. packet[Len(packet)].seq = nextSequenceNumber - 1
  BY <1>1, <1>2, <1>4 DEF Fits
<1>6. datagram.reset => Guard!IsRecovery
  <2> SUFFICES ASSUME datagram.reset PROVE Guard!IsRecovery
    OBVIOUS
  <2>1. Len(packet) = 1
    BY <1>2 DEF Fits
  <2>2. packet[1].packet_start
    <3>1. packet[Len(packet)].packet_start = (Len(packet) = 1)
      BY <1>4, SMT
    <3>2. packet[1].packet_start = (Len(packet) = 1)
      BY <2>1, <3>1, Zenon
    <3> QED BY <2>1, <3>2, Zenon
  <2>3. packet[1].packet_end
    BY <1>4, <2>1
  <2>4. packet[1].full_reset
    BY <1>4, <2>1
  <2> QED BY <2>1, <2>2, <2>3, <2>4 DEF Guard!IsRecovery
<1> QED BY <1>2, <1>3, <1>4, <1>5, <1>6 DEF Guard!NextExpected

(* The verdict.                                                            *)
LEMMA ResolveInv ==
  ASSUME IInv, Resolve
  PROVE  IInv'
<1> USE DEF IInv, Resolve
<1>0. /\ datagram.first \in 1 .. SeqModulus - 1 /\ SeqModulus \in Nat /\ SeqModulus > 3
      /\ datagram.size \in 1 .. MaxMessages /\ MaxMessages \in Nat
      /\ datagram.reset \in BOOLEAN
      /\ Receiving /\ ~Receiving' /\ ~damaged' /\ packet' = << >> /\ ~invalid'
  BY DatagramFields, RecoveryAssumption
     DEF Complete, Receiving, Guard!Commit, Guard!Recover, Guard!Ignore, Guard!Discard, Guard!Close
<1>1. fault' \in BOOLEAN /\ expected' \in Guard!SequenceNumber
  BY NextExpectedType DEF TypeOK, Guard!Commit, Guard!Recover, Guard!Ignore, Guard!Discard
<1>2. TypeOK'
  <2>1. packet' \in Seq(Guard!Message) /\ invalid' \in BOOLEAN /\ damaged' \in BOOLEAN
    <3>1. packet' = << >>
      BY <1>0
    <3>2. invalid' = FALSE
      BY DEF Guard!Commit, Guard!Recover, Guard!Ignore, Guard!Discard, Guard!Close
    <3>3. damaged' = FALSE
      OBVIOUS
    <3>4. packet' \in Seq(Guard!Message)
      BY <3>1
    <3>5. invalid' \in BOOLEAN
      BY <3>2
    <3>6. damaged' \in BOOLEAN
      BY <3>3
    <3> QED BY <3>4, <3>5, <3>6
  <2>2. datagram' \in Datagram \cup {None}
    OBVIOUS
  <2> QED BY <1>1, <2>1, <2>2 DEF TypeOK
<1>3. Idle' /\ Fits' /\ Decoded' /\ HeldBefore' /\ ResetHeld'
  BY <1>0 DEF Idle, Fits, Decoded, HeldBefore, ResetHeld
<1>4. ~fault' => ~invalid /\ ~damaged /\ expected' = Guard!NextExpected
                 /\ (fault => Guard!IsRecovery)
  BY DEF Complete, Guard!Commit, Guard!Recover, Guard!Ignore, Guard!Discard
<1>5. InStep'
  <2> SUFFICES ASSUME ~fault', held.run = run
               PROVE  held.clean /\ expected' = Guard!After(held.upto)
    BY <1>0 DEF InStep, Guard!NextExpected, Guard!After
  <2>1. CASE ~fault
    BY <1>4, <2>1 DEF InStep
  <2>2. CASE fault
    <3>1. packet # << >> /\ packet[Len(packet)].full_reset = datagram.reset
          /\ Len(packet) = 1 /\ packet[1].full_reset
      BY <1>4, <2>2, WholePacket DEF Guard!IsRecovery
    <3>2. held.clean /\ held.upto = packet[Len(packet)].seq
      BY <1>0, <1>4, <3>1 DEF ResetHeld
    <3> QED BY <1>4, <3>1, <3>2 DEF Guard!NextExpected
  <2> QED BY <2>1, <2>2
<1>6. StartedUp'
  <2> SUFFICES ASSUME intact
               PROVE  /\ nextSequenceNumber = 2 => fault' \/ expected' = 2
                      /\ nextSequenceNumber > 2 =>
                           ~fault' /\ expected' = Guard!After(nextSequenceNumber - 1)
    BY <1>0 DEF StartedUp, Guard!After
  <2>1. ~damaged
    BY DEF StartingUp
  <2>2. ~fault' => expected' = Guard!After(nextSequenceNumber - 1)
    BY <1>4, <2>1, WholePacket
  <2>3. Guard!After(1) = 2
    BY <1>0 DEF Guard!After
  <2>4. nextSequenceNumber = datagram.first + datagram.size
        /\ (datagram.reset <=> datagram.first <= 2) /\ (datagram.reset => datagram.size = 1)
    BY <1>0 DEF Fits, StartupResets
  <2>5. ASSUME nextSequenceNumber > 2 PROVE ~fault'
    <3>1. datagram.first > 1
      BY <1>0, <2>4, <2>5
    <3>2. ~invalid /\ (fault => Guard!IsRecovery)
      <4>1. ~invalid /\ (fault => datagram.first = 2)
        BY <1>0, <3>1 DEF StartingUp
      <4>2. datagram.first = 2 => Guard!IsRecovery
        BY <1>0, <2>1, <2>4, WholePacket
      <4> QED BY <4>1, <4>2
    <3> QED BY <3>2 DEF Guard!Commit, Guard!Recover, Guard!Ignore, Guard!Discard
  <2> QED BY <2>2, <2>3, <2>5
<1>7. StartingUp'
  BY <1>0 DEF StartingUp
<1> QED BY <1>2, <1>3, <1>5, <1>6, <1>7

(* A fresh FPGA holds nothing of any run.                                  *)
LEMMA ResetFpgaInv ==
  ASSUME IInv, ResetFpga
  PROVE  IInv'
<1> USE DEF IInv, ResetFpga, Disturb
<1>1. TypeOK'
  <2>1. held' \in [run: Nat, upto: Guard!SequenceNumber, clean: BOOLEAN]
    BY RecoveryAssumption DEF Guard!SequenceNumber
  <2>2. packet' \in Seq(Guard!Message) /\ expected' \in Guard!SequenceNumber
    BY RecoveryAssumption DEF Guard!SequenceNumber
  <2>3. datagram' \in Datagram \cup {None}
    OBVIOUS
  <2>4. fault' \in BOOLEAN /\ invalid' \in BOOLEAN /\ damaged' \in BOOLEAN /\ intact' \in BOOLEAN
    OBVIOUS
  <2>5. disturbances' \in Nat
    BY DEF TypeOK
  <2> QED BY <2>1, <2>2, <2>3, <2>4, <2>5 DEF TypeOK
<1>2. ~Receiving' /\ held'.run = 0 /\ run' \in Nat \ {0} /\ ~intact'
  BY DEF Receiving, TypeOK
<1>3. Idle' /\ Fits' /\ Decoded' /\ HeldBefore' /\ ResetHeld' /\ InStep' /\ StartedUp' /\ StartingUp'
  BY <1>2 DEF Idle, Fits, Decoded, HeldBefore, ResetHeld, InStep, StartedUp, StartingUp
<1> QED BY <1>1, <1>3

(* A step that changes nothing.                                            *)
LEMMA StutterInv ==
  ASSUME IInv, UNCHANGED vars
  PROVE  IInv'
<1>1. Guard!NextExpected' = Guard!NextExpected /\ Receiving' = Receiving /\ TypeOK'
  BY DEF IInv, vars, stream, Guard!NextExpected, Receiving, TypeOK
<1> QED BY <1>1 DEF IInv, vars, stream, Idle, Fits, Decoded, HeldBefore, ResetHeld, InStep,
           StartedUp, StartingUp

LEMMA StepInv == IInv /\ [Next]_vars => IInv'
BY SendInv, LoseInv, RestartInv, TakeMessageInv, DamagedInv, ResolveInv, ResetFpgaInv, StutterInv
   DEF Next

THEOREM Invariance == Spec => []IInv
BY InitInv, StepInv, PTL DEF Spec

-----------------------------------------------------------------------------
(***************************************************************************)
(* Every variable keeps its type.                                          *)
(***************************************************************************)
THEOREM TypeCorrect == Spec => []TypeOK
<1>1. IInv => TypeOK
  BY DEF IInv
<1> QED BY <1>1, Invariance, PTL

(***************************************************************************)
(* An order that is answered as good was decided on what its run had sent  *)
(* before it, once a reset of the run has reached the store.               *)
(***************************************************************************)
THEOREM OrdersCorrect == Spec => []OrdersSeeWhatWasSent
<1>1. IInv => OrdersSeeWhatWasSent
  <2> SUFFICES ASSUME IInv, OrderIsGood, held.run = run
               PROVE  held.clean /\ held.upto = nextSequenceNumber - 1
    BY DEF OrdersSeeWhatWasSent
  <2>1. held.clean /\ Guard!NextExpected = Guard!After(held.upto)
    BY DEF IInv, InStep, OrderIsGood
  <2>2. /\ Guard!NextExpected = Guard!After(nextSequenceNumber - 1)
        /\ nextSequenceNumber - 1 \in Guard!SequenceNumber
    <3>1. packet[Len(packet)] \in Guard!Message
          /\ packet[Len(packet)].seq = nextSequenceNumber - 1
          /\ Guard!NextExpected = Guard!After(nextSequenceNumber - 1)
      BY WholePacket DEF OrderIsGood
    <3>2. packet[Len(packet)].seq \in Guard!SequenceNumber
      BY <3>1 DEF Guard!Message
    <3> QED BY <3>1, <3>2
  <2>3. held.upto \in Guard!SequenceNumber
    BY DEF IInv, TypeOK
  <2> QED BY <2>1, <2>2, <2>3, AfterInjective
<1> QED BY <1>1, Invariance, PTL

(***************************************************************************)
(* Two resets bring the stream in step from whatever it was, and it stays  *)
(* in step until something is lost, damaged or reset.                      *)
(***************************************************************************)
THEOREM StartupCorrect == Spec => []StartupSynchronises
<1>1. IInv => StartupSynchronises
  BY DEF IInv, StartedUp, StartupSynchronises, StartupResets
<1> QED BY <1>1, Invariance, PTL
=============================================================================
