------------------------ MODULE ResponsePath_proofs ------------------------
(***************************************************************************)
(* What leaves on the line is whole frames with a gap between them, and    *)
(* every frame carries the decision of its own order, for every period of  *)
(* the gearbox and every delay of the crossing that TimingAssumption       *)
(* admits.                                                                 *)
(***************************************************************************)
EXTENDS ResponsePath, SequenceTheorems, TLAPS

Blocks == {"start", "data", "end"}

(* Block b may stand behind block a on the line.                           *)
Continues(a, b) ==
  \/ a = "start" /\ b = "data"
  \/ a = "data" /\ b \in {"data", "end"}

LastBlock(k) == IF k = 0 THEN "end" ELSE IF k = 1 THEN "start" ELSE "data"

(* The encoder is in a frame as long as the generator is, the block of the *)
(* latest beat is in the buffer, and a second one stands there only since  *)
(* a pause within the frame.                                               *)
FrameInStep ==
  /\ frame_active <=> frame_beat_index # 0
  /\ frame_active => buffered_blocks # << >>
  /\ buffered_blocks # << >> =>
       buffered_blocks[Len(buffered_blocks)] = LastBlock(frame_beat_index)
  /\ frame_active /\ Len(buffered_blocks) = 2 => gearbox_sequence <= frame_beat_index - 2

(* The buffer goes on where the line is.                                   *)
BufferContinuesLine ==
  /\ buffered_blocks = << >> => line \in {"idle", "end"}
  /\ buffered_blocks # << >> =>
       \/ buffered_blocks[1] = "start" /\ line = "idle" /\ idle_run = 2
       \/ Continues(line, buffered_blocks[1])
  /\ Len(buffered_blocks) = 2 => Continues(buffered_blocks[1], buffered_blocks[2])

GapIsCounted ==
  /\ inter_frame_gap_pending <=> line = "end"
  /\ line = "idle" => idle_run >= 1
  /\ idle_run \in 0 .. 2

LineInv ==
  /\ Generator!TypeOK /\ PcsTx!TypeOK
  /\ FrameInStep /\ BufferContinuesLine /\ GapIsCounted

-----------------------------------------------------------------------------
(* The CDC FIFO                                                            *)
Events == [kind : {"START", "DECISION"}, order : Nat, ok : BOOLEAN, wait : Nat]

(* The events of all orders are numbered: START n is 2n - 1, DECISION n 2n.*)
Number(e) == IF e.kind = "START" THEN 2 * e.order - 1 ELSE 2 * e.order

Writes == IF deciding = 0 THEN 2 * orders ELSE 2 * orders - 1
Reads  == IF frame_beat_index = 0 THEN 2 * Len(sent) ELSE 2 * Len(sent) + 1

(* The FIFO holds the events that are written and not read, in order.      *)
Holds(s, reads, writes) ==
  /\ s \in Seq(Events)
  /\ Len(s) = writes - reads
  /\ \A i \in 1 .. Len(s) : Number(s[i]) = reads + i

(* A decision shows at most six cycles after its START does; c is the      *)
(* number of cycles to the next decision.                                  *)
InTime(s, c) ==
  \A i \in 1 .. Len(s) : s[i].kind = "START" =>
    IF i < Len(s) THEN s[i + 1].wait <= s[i].wait + 6
    ELSE \A d \in SyncDelays : c + d <= s[i].wait + 7

(* At beat k the head of the FIFO, or the event written next, shows not    *)
(* later than at beat 6.                                                   *)
Due(s, k, c) ==
  IF s = << >> THEN \A d \in SyncDelays : c + d + k <= 7
  ELSE s[1].wait = 0 \/ s[1].wait + k <= 6

(* An order does not end before the decision of the one before is made.    *)
ReceiveInv ==
  /\ orders \in 0 .. OrderLimit /\ deciding \in 0 .. 2 /\ wire_bytes \in Nat
  /\ wire_bytes <= OrderWireBytes + 7
  /\ deciding # 0 => wire_bytes + 8 * deciding <= 8 * DecisionLatency + 15

FrameInv ==
  frame_beat_index # 0 =>
    /\ frame_order = Len(sent) + 1
    /\ Due(fifo, frame_beat_index, deciding)
    /\ frame_fields =
         IF frame_beat_index <= 6 THEN {}
         ELSE {[kind |-> "DECISION", order |-> frame_order, ok |-> fifo[1].ok]}

SentFrames ==
  [order : Nat, fields : SUBSET [kind : {"DECISION"}, order : Nat, ok : BOOLEAN]]

AnswerInv ==
  /\ Generator!TypeOK
  /\ ReceiveInv
  /\ Holds(fifo, Reads, Writes)
  /\ InTime(fifo, deciding)
  /\ FrameInv
  /\ sent \in Seq(SentFrames)
  /\ AnswersInOrder

(* No event has been lost to a full FIFO, and the next one will not be.    *)
RoomInFifo == ~Fifo!Full

-----------------------------------------------------------------------------
(* The line                                                                *)
LEMMA SmallNumber ==
  ASSUME NEW n \in Nat, n <= 2
  PROVE  n \in {0, 1, 2}
OBVIOUS

LEMMA EmptyBuffer ==
  ASSUME NEW b \in Seq(Blocks), Len(b) <= 2
  PROVE  Len(b) \in {0, 1, 2} /\ (b = << >> <=> Len(b) = 0)
<1>1. Len(b) \in Nat
  OBVIOUS
<1>2. Len(b) \in {0, 1, 2}
  BY <1>1, SmallNumber
<1> QED BY <1>2, EmptySeq

LEMMA TailOfBuffer ==
  ASSUME NEW b \in Seq(Blocks), NEW n \in {1, 2}, Len(b) = n
  PROVE  /\ b # << >> /\ b[1] \in Blocks /\ b[Len(b)] \in Blocks
         /\ Tail(b) \in Seq(Blocks) /\ Len(Tail(b)) = Len(b) - 1
         /\ n = 1 => Tail(b) = << >>
         /\ n = 2 => Tail(b) # << >> /\ Tail(b)[1] = b[2]
<1>1. b # << >> /\ b[1] \in Blocks /\ b[Len(b)] \in Blocks
  OBVIOUS
<1>2. /\ Tail(b) \in Seq(Blocks) /\ Len(Tail(b)) = n - 1
      /\ \A i \in 1 .. n - 1 : Tail(b)[i] = b[i + 1]
  BY <1>1, HeadTailProperties
<1>3. ASSUME n = 1
      PROVE  Tail(b) = << >>
  <2>1. Len(Tail(b)) = 0
    BY <1>2, <1>3
  <2> QED BY <1>2, <2>1, EmptySeq
<1>4. ASSUME n = 2
      PROVE  Tail(b) # << >> /\ Tail(b)[1] = b[2]
  <2>1. Len(Tail(b)) = 1 /\ 1 \in 1 .. n - 1
    BY <1>2, <1>4
  <2>2. Tail(b) # << >>
    BY <2>1, EmptySeq
  <2>3. Tail(b)[1] = b[1 + 1]
    BY <1>2, <2>1
  <2> QED BY <2>2, <2>3
<1> QED BY <1>1, <1>2, <1>3, <1>4

LEMMA BufferOperations ==
  ASSUME NEW b \in Seq(Blocks), Len(b) \in {1, 2}, NEW e \in Blocks
  PROVE  /\ b # << >> /\ b[1] \in Blocks /\ b[Len(b)] \in Blocks
         /\ Tail(b) \in Seq(Blocks) /\ Len(Tail(b)) = Len(b) - 1
         /\ Len(b) = 1 => Tail(b) = << >>
         /\ Len(b) = 2 => Tail(b) # << >> /\ Tail(b)[1] = b[2]
         /\ b \o << e >> \in Seq(Blocks) /\ Len(b \o << e >>) = Len(b) + 1
         /\ (b \o << e >>)[Len(b) + 1] = e
         /\ \A i \in 1 .. Len(b) : (b \o << e >>)[i] = b[i]
         /\ Len(Tail(b) \o << e >>) = Len(b)
         /\ Tail(b) \o << e >> \in Seq(Blocks)
         /\ (Tail(b) \o << e >>)[Len(b)] = e
         /\ Len(b) = 2 => (Tail(b) \o << e >>)[1] = b[2]
         /\ b \o << >> = b /\ Tail(b) \o << >> = Tail(b)
<1>1. /\ b # << >> /\ b[1] \in Blocks /\ b[Len(b)] \in Blocks
      /\ Tail(b) \in Seq(Blocks) /\ Len(Tail(b)) = Len(b) - 1
      /\ Len(b) = 1 => Tail(b) = << >>
      /\ Len(b) = 2 => Tail(b) # << >> /\ Tail(b)[1] = b[2]
  BY TailOfBuffer
<1>2. << e >> \in Seq(Blocks) /\ Len(<< e >>) = 1 /\ << e >>[1] = e
  OBVIOUS
<1>3. ASSUME NEW q \in Seq(Blocks)
      PROVE  /\ q \o << e >> \in Seq(Blocks) /\ Len(q \o << e >>) = Len(q) + 1
             /\ (q \o << e >>)[Len(q) + 1] = e
             /\ \A i \in 1 .. Len(q) : (q \o << e >>)[i] = q[i]
             /\ q \o << >> = q
  BY <1>2
<1>4. /\ Tail(b) \o << e >> \in Seq(Blocks)
      /\ Len(Tail(b) \o << e >>) = Len(b)
      /\ (Tail(b) \o << e >>)[Len(b)] = e
      /\ Len(b) = 2 => (Tail(b) \o << e >>)[1] = b[2]
      /\ Tail(b) \o << >> = Tail(b)
  BY <1>1, <1>3
<1> QED BY <1>1, <1>3, <1>4

(* Where the generator and the encoder are after a cycle, and the block    *)
(* that the beat of this cycle adds to the buffer.                         *)
LEMMA BeatStep ==
  ASSUME LineInv, Transmit
  PROVE  \/ /\ frame_beat_index = 0 /\ frame_beat_index' = 0
            /\ frame_active' = FALSE /\ PcsTx!EncodedBlocks(Generator!Beat(
                 Fifo!ResponseStartValid, PcsTx!FrameStartReady)) = << >>
         \/ /\ frame_beat_index = 0 /\ frame_beat_index' = 1
            /\ PcsTx!FrameStartReady
            /\ frame_active' = TRUE /\ PcsTx!EncodedBlocks(Generator!Beat(
                 Fifo!ResponseStartValid, PcsTx!FrameStartReady)) = << "start" >>
         \/ /\ frame_beat_index # 0
            /\ frame_beat_index' = IF frame_beat_index = 10 THEN 0 ELSE frame_beat_index + 1
            /\ frame_active' \in BOOLEAN /\ (frame_active' <=> frame_beat_index' # 0)
            /\ PcsTx!EncodedBlocks(Generator!Beat(
                 Fifo!ResponseStartValid, PcsTx!FrameStartReady))
                 = << LastBlock(frame_beat_index') >>
<1> DEFINE start == Fifo!ResponseStartValid
           ready == PcsTx!FrameStartReady
           beat  == Generator!Beat(start, ready)
           e     == PcsTx!EncodedBlocks(beat)
<1>1. /\ frame_beat_index \in 0 .. 10 /\ frame_active \in BOOLEAN
      /\ frame_active <=> frame_beat_index # 0
  BY DEF LineInv, FrameInStep, Generator!TypeOK, PcsTx!TypeOK, Generator!FINAL_FRAME_BEAT
<1>2. /\ Generator!Clock(start, ready, Fifo!ReadData)
      /\ frame_active' = CASE e = << >>      -> frame_active
                           [] e = << "end" >> -> FALSE
                           [] OTHER           -> TRUE
  BY DEF Transmit, PcsTx!Clock, PcsTx!Encode
<1>3. << "start" >> # << >> /\ << "data" >> # << >> /\ << "end" >> # << >>
      /\ << "start" >> # << "end" >> /\ << "data" >> # << "end" >>
  OBVIOUS
<1>4. CASE Generator!Idle(start, ready)
  <2>1. beat = "none" /\ frame_beat_index = 0 /\ frame_beat_index' = 0
    BY <1>4 DEF Generator!Idle, Generator!Beat, Generator!vars
  <2>2. e = << >>
    BY <2>1 DEF PcsTx!EncodedBlocks
  <2> QED BY <1>1, <1>2, <2>1, <2>2
<1>5. CASE Generator!Start(start, ready, Fifo!ReadData)
  <2>1. beat = "start" /\ frame_beat_index = 0 /\ frame_beat_index' = 1 /\ ready
    BY <1>5 DEF Generator!Start, Generator!Beat, Generator!StartEventAccepted,
                Generator!ResponseStartReady
  <2>2. e = << "start" >>
    BY <2>1 DEF PcsTx!EncodedBlocks
  <2> QED BY <1>2, <1>3, <2>1, <2>2
<1>6. CASE Generator!Send(Fifo!ReadData)
  <2>1. /\ frame_beat_index # 0 /\ frame_active
        /\ frame_beat_index' = IF frame_beat_index = 10 THEN 0 ELSE frame_beat_index + 1
    BY <1>1, <1>6 DEF Generator!Send, Generator!FINAL_FRAME_BEAT
  <2>2. beat = LastBlock(frame_beat_index') /\ beat \in {"data", "end"}
    BY <1>1, <2>1 DEF Generator!Beat, LastBlock, Generator!FINAL_FRAME_BEAT
  <2>3. e = << beat >>
    BY <2>1, <2>2 DEF PcsTx!EncodedBlocks
  <2>4. e = << "end" >> <=> frame_beat_index' = 0
    BY <1>1, <1>3, <2>1, <2>2, <2>3 DEF LastBlock
  <2>5. e # << >>
    BY <2>3
  <2> HIDE DEF e
  <2>6. frame_active' \in BOOLEAN /\ (frame_active' <=> frame_beat_index' # 0)
    BY <1>2, <2>4, <2>5
  <2> QED BY <2>1, <2>2, <2>3, <2>6 DEF e
<1> QED BY <1>2, <1>4, <1>5, <1>6 DEF Generator!Clock

(* What a cycle does to the line.                                          *)
LEMMA AdvanceStep ==
  ASSUME LineInv, Transmit
  PROVE  /\ gearbox_sequence' \in 0 .. PauseSequence
         /\ gearbox_sequence' <= gearbox_sequence + 1
         /\ inter_frame_gap_pending' \in BOOLEAN
         /\ PcsTx!AdvanceTransmitBlock <=> gearbox_sequence # PauseSequence
         /\ ~PcsTx!AdvanceTransmitBlock =>
              /\ gearbox_sequence' = 0
              /\ line' = line /\ idle_run' = idle_run
              /\ inter_frame_gap_pending' <=> inter_frame_gap_pending
         /\ PcsTx!AdvanceTransmitBlock /\ buffered_blocks # << >> =>
              /\ line' = buffered_blocks[1]
              /\ inter_frame_gap_pending' <=>
                   buffered_blocks[1] = "end" \/ inter_frame_gap_pending
              /\ idle_run' = 0
         /\ PcsTx!AdvanceTransmitBlock /\ buffered_blocks = << >> =>
              /\ line' = "idle" /\ ~inter_frame_gap_pending'
              /\ idle_run' = IF idle_run = 2 THEN 2 ELSE idle_run + 1
<1>1. /\ PauseSequence \in Nat /\ gearbox_sequence \in 0 .. PauseSequence
      /\ gearbox_sequence' = (gearbox_sequence + 1) % (PauseSequence + 1)
  BY ResponseAssumption DEF LineInv, PcsTx!TypeOK, Transmit, PcsTx!Clock, PcsTx!Transmit
<1>2. gearbox_sequence' = IF gearbox_sequence = PauseSequence THEN 0 ELSE gearbox_sequence + 1
  <2>1. CASE gearbox_sequence = PauseSequence
    BY <1>1, <2>1
  <2>2. CASE gearbox_sequence # PauseSequence
    BY <1>1, <2>2
  <2> QED BY <2>1, <2>2
<1>3. buffered_blocks # << >> => buffered_blocks[1] # "idle"
  <2>1. buffered_blocks # << >> => buffered_blocks[1] \in Blocks
    BY DEF LineInv, PcsTx!TypeOK, Blocks
  <2> QED BY <2>1 DEF Blocks
<1>4. PcsTx!AdvanceTransmitBlock <=> gearbox_sequence # PauseSequence
  BY DEF PcsTx!AdvanceTransmitBlock
<1>5. PcsTx!RemoveBufferedBlock <=> PcsTx!AdvanceTransmitBlock /\ buffered_blocks # << >>
  BY DEF PcsTx!RemoveBufferedBlock
<1>6. CASE ~PcsTx!AdvanceTransmitBlock
  <2>1. line' = line /\ idle_run' = idle_run
    BY <1>5, <1>6 DEF Transmit, PcsTx!Clock, PcsTx!Transmit, RecordIdle
  <2>2. inter_frame_gap_pending' = inter_frame_gap_pending /\ inter_frame_gap_pending' \in BOOLEAN
    BY <1>5, <1>6 DEF Transmit, PcsTx!Clock, PcsTx!Transmit, LineInv, PcsTx!TypeOK
  <2>3. gearbox_sequence' = 0
    BY <1>2, <1>4, <1>6
  <2> QED BY <1>1, <1>4, <1>6, <2>1, <2>2, <2>3
<1>7. CASE PcsTx!AdvanceTransmitBlock /\ buffered_blocks # << >>
  <2>1. line' = buffered_blocks[1]
    BY <1>5, <1>7 DEF Transmit, PcsTx!Clock, PcsTx!Transmit
  <2>2. inter_frame_gap_pending' = (buffered_blocks[1] = "end" \/ inter_frame_gap_pending)
    BY <1>5, <1>7 DEF Transmit, PcsTx!Clock, PcsTx!Transmit
  <2>3. idle_run' = 0
    BY <1>3, <1>7, <2>1 DEF Transmit, RecordIdle
  <2>4. gearbox_sequence' \in 0 .. PauseSequence /\ gearbox_sequence' <= gearbox_sequence + 1
    BY <1>1, <1>2
  <2> QED BY <1>4, <1>7, <2>1, <2>2, <2>3, <2>4
<1>8. CASE PcsTx!AdvanceTransmitBlock /\ buffered_blocks = << >>
  <2>1. line' = "idle"
    BY <1>5, <1>8 DEF Transmit, PcsTx!Clock, PcsTx!Transmit
  <2>2. inter_frame_gap_pending' = FALSE
    BY <1>5, <1>8 DEF Transmit, PcsTx!Clock, PcsTx!Transmit
  <2>3. idle_run' = IF idle_run = 2 THEN 2 ELSE idle_run + 1
    BY <1>8, <2>1 DEF Transmit, RecordIdle
  <2>4. gearbox_sequence' \in 0 .. PauseSequence /\ gearbox_sequence' <= gearbox_sequence + 1
    BY <1>1, <1>2
  <2> QED BY <1>4, <1>8, <2>1, <2>2, <2>3, <2>4
<1> QED BY <1>6, <1>7, <1>8

(* What a cycle does to the buffer, from which a block may go and to which *)
(* one may come.                                                           *)
LEMMA BufferStep ==
  ASSUME LineInv, Transmit
  PROVE  LET e == PcsTx!EncodedBlocks(Generator!Beat(
                    Fifo!ResponseStartValid, PcsTx!FrameStartReady))
         IN  buffered_blocks' =
               (IF PcsTx!AdvanceTransmitBlock /\ buffered_blocks # << >>
                  THEN Tail(buffered_blocks) ELSE buffered_blocks) \o e
BY DEF Transmit, PcsTx!Clock, PcsTx!Encode, PcsTx!RemoveBufferedBlock

LineStep ==
  PcsTx!AdvanceTransmitBlock =>
       CASE line = "idle"  -> line' = "idle" \/ (line' = "start" /\ idle_run = 2)
         [] line = "start" -> line' = "data"
         [] line = "data"  -> line' \in {"data", "end"}
         [] line = "end"   -> line' = "idle"

LEMMA TransmitInv ==
  ASSUME LineInv, Transmit
  PROVE  LineInv' /\ LineStep
<1> DEFINE B == buffered_blocks
           k == frame_beat_index
           e == PcsTx!EncodedBlocks(Generator!Beat(
                  Fifo!ResponseStartValid, PcsTx!FrameStartReady))
           adv == PcsTx!AdvanceTransmitBlock
<1>1. /\ k \in 0 .. 10 /\ frame_active \in BOOLEAN
      /\ B \in Seq(Blocks) /\ Len(B) \in {0, 1, 2} /\ (B = << >> <=> Len(B) = 0)
      /\ gearbox_sequence \in 0 .. PauseSequence
      /\ inter_frame_gap_pending \in BOOLEAN /\ line \in {"idle", "start", "data", "end"}
      /\ idle_run \in 0 .. 2
  <2>1. B \in Seq(Blocks) /\ Len(B) <= 2
    BY DEF LineInv, PcsTx!TypeOK, Blocks
  <2>2. Len(B) \in {0, 1, 2} /\ (B = << >> <=> Len(B) = 0)
    BY <2>1, EmptyBuffer
  <2> QED BY <2>1, <2>2
       DEF LineInv, GapIsCounted, Generator!TypeOK, PcsTx!TypeOK, Generator!FINAL_FRAME_BEAT
<1>2. /\ frame_active <=> k # 0
      /\ frame_active => B # << >>
      /\ B # << >> => B[Len(B)] = LastBlock(k)
      /\ frame_active /\ Len(B) = 2 => gearbox_sequence <= k - 2
      /\ B = << >> => line \in {"idle", "end"}
      /\ B # << >> => \/ B[1] = "start" /\ line = "idle" /\ idle_run = 2
                      \/ Continues(line, B[1])
      /\ Len(B) = 2 => Continues(B[1], B[2])
      /\ inter_frame_gap_pending <=> line = "end"
      /\ line = "idle" => idle_run >= 1
  BY DEF LineInv, FrameInStep, BufferContinuesLine, GapIsCounted
<1>3. /\ gearbox_sequence' \in 0 .. PauseSequence
      /\ gearbox_sequence' <= gearbox_sequence + 1
      /\ inter_frame_gap_pending' \in BOOLEAN
      /\ adv <=> gearbox_sequence # PauseSequence
      /\ ~adv => /\ gearbox_sequence' = 0
                 /\ line' = line /\ idle_run' = idle_run
                 /\ inter_frame_gap_pending' <=> inter_frame_gap_pending
      /\ adv /\ B # << >> =>
           /\ line' = B[1] /\ idle_run' = 0
           /\ inter_frame_gap_pending' <=> B[1] = "end" \/ inter_frame_gap_pending
      /\ adv /\ B = << >> =>
           /\ line' = "idle" /\ ~inter_frame_gap_pending'
           /\ idle_run' = IF idle_run = 2 THEN 2 ELSE idle_run + 1
  BY AdvanceStep
<1>4. B' = (IF adv /\ B # << >> THEN Tail(B) ELSE B) \o e
  BY BufferStep
<1>5. PauseSequence \in Nat /\ PauseSequence >= 9
  BY ResponseAssumption, TimingAssumption
<1>6. PcsTx!FrameStartReady => adv /\ B = << >> /\ ~inter_frame_gap_pending
  BY DEF PcsTx!FrameStartReady
<1>7. \/ k = 0 /\ k' = 0 /\ frame_active' = FALSE /\ e = << >>
      \/ k = 0 /\ k' = 1 /\ PcsTx!FrameStartReady /\ frame_active' = TRUE /\ e = << "start" >>
      \/ /\ k # 0 /\ k' = IF k = 10 THEN 0 ELSE k + 1
         /\ frame_active' \in BOOLEAN /\ (frame_active' <=> k' # 0) /\ e = << LastBlock(k') >>
  BY BeatStep
<1> HIDE DEF e, adv
(* The line goes on with the head of the buffer.                           *)
<1>8. /\ inter_frame_gap_pending' \in BOOLEAN
      /\ line' \in {"idle", "start", "data", "end"}
      /\ idle_run' \in 0 .. 2
      /\ inter_frame_gap_pending' <=> line' = "end"
      /\ line' = "idle" => idle_run' >= 1
  <2>1. CASE ~adv
    BY <1>1, <1>2, <1>3, <2>1
  <2>2. CASE adv /\ B = << >>
    BY <1>1, <1>2, <1>3, <2>2
  <2>3. CASE adv /\ B # << >>
    <3>1. B[1] \in Blocks /\ line # "end"
      BY <1>1, <1>2, <2>3 DEF Continues, Blocks
    <3> QED BY <1>1, <1>2, <1>3, <2>3, <3>1 DEF Blocks
  <2> QED BY <2>1, <2>2, <2>3
<1>9. LineStep
  <2>1. ASSUME adv
        PROVE  CASE line = "idle"  -> line' = "idle" \/ (line' = "start" /\ idle_run = 2)
                 [] line = "start" -> line' = "data"
                 [] line = "data"  -> line' \in {"data", "end"}
                 [] line = "end"   -> line' = "idle"
    <3>1. CASE B = << >>
      BY <1>2, <1>3, <2>1, <3>1
    <3>2. CASE B # << >>
      BY <1>2, <1>3, <2>1, <3>2 DEF Continues
    <3> QED BY <3>1, <3>2
  <2> QED BY <2>1 DEF LineStep, adv
(* The buffer when nothing is added to it.                                 *)
<1> DEFINE Settled ==
      /\ k' \in 0 .. 10 /\ frame_active' \in BOOLEAN
      /\ B' \in Seq(Blocks) /\ Len(B') \in {0, 1, 2}
      /\ FrameInStep' /\ BufferContinuesLine'
<1>10. ASSUME k = 0 /\ k' = 0 /\ frame_active' = FALSE /\ e = << >>
       PROVE  Settled
  <2>1. B' = IF adv /\ B # << >> THEN Tail(B) ELSE B
    <3>1. B \o << >> = B /\ (B # << >> => Tail(B) \o << >> = Tail(B))
      BY <1>1
    <3> QED BY <1>4, <1>10, <3>1
  <2>2. CASE adv /\ B # << >>
    <3>1. CASE Len(B) = 1
      <4>1. B' = << >> /\ B[1] = "end"
        BY <1>1, <1>2, <1>10, <2>1, <2>2, <3>1, BufferOperations DEF LastBlock
      <4>2. line' = "end"
        BY <1>3, <2>2, <4>1
      <4>3. FrameInStep'
        BY <1>10, <4>1 DEF FrameInStep
      <4>4. BufferContinuesLine'
        BY <4>1, <4>2 DEF BufferContinuesLine
      <4>5. k' \in 0 .. 10 /\ frame_active' \in BOOLEAN
        BY <1>1, <1>10
      <4>6. B' \in Seq(Blocks) /\ Len(B') \in {0, 1, 2}
        BY <4>1, EmptySeq
      <4> QED BY <4>3, <4>4, <4>5, <4>6
    <3>2. CASE Len(B) = 2
      <4>1. /\ B' \in Seq(Blocks) /\ Len(B') = 1 /\ B' # << >> /\ B'[1] = B[2]
            /\ B[2] = "end"
        <5>1. Tail(B) \in Seq(Blocks) /\ Len(Tail(B)) = 1 /\ Tail(B) # << >> /\ Tail(B)[1] = B[2]
          <6>1. B \in Seq(Blocks) /\ Len(B) \in {1, 2}
            BY <1>1, <3>2
          <6>2. Len(Tail(B)) = 2 - 1
            BY <3>2, <6>1, TailOfBuffer
          <6> QED BY <3>2, <6>1, <6>2, TailOfBuffer
        <5> QED BY <1>2, <1>10, <2>1, <2>2, <3>2, <5>1 DEF LastBlock
      <4>2. line' = B[1] /\ Continues(line', B'[1])
        BY <1>2, <1>3, <2>2, <3>2, <4>1
      <4>3. FrameInStep'
        BY <1>10, <4>1 DEF FrameInStep, LastBlock
      <4>4. BufferContinuesLine'
        BY <4>1, <4>2 DEF BufferContinuesLine
      <4>5. k' \in 0 .. 10 /\ frame_active' \in BOOLEAN
        BY <1>1, <1>10
      <4>6. B' \in Seq(Blocks) /\ Len(B') \in {0, 1, 2}
        BY <4>1
      <4> QED BY <4>3, <4>4, <4>5, <4>6
    <3> QED BY <1>1, <2>2, <3>1, <3>2
  <2>3. CASE ~(adv /\ B # << >>)
    <3>1. B' = B
      BY <2>1, <2>3
    <3>2. /\ B = << >> => line' \in {"idle", "end"}
          /\ B # << >> => line' = line /\ idle_run' = idle_run
      BY <1>2, <1>3, <2>3
    <3>3. FrameInStep'
      BY <1>2, <1>10, <3>1 DEF FrameInStep
    <3>4. BufferContinuesLine'
      BY <1>2, <3>1, <3>2 DEF BufferContinuesLine
    <3> QED BY <1>1, <1>10, <3>1, <3>3, <3>4
  <2> QED BY <2>2, <2>3
(* A frame starts with an empty buffer and after a gap.                    *)
<1>11. ASSUME k = 0 /\ k' = 1 /\ PcsTx!FrameStartReady /\ frame_active' = TRUE /\ e = << "start" >>
       PROVE  Settled
  <2>1. adv /\ B = << >> /\ ~inter_frame_gap_pending
    BY <1>6, <1>11
  <2>2. /\ B' = << "start" >> /\ B' \in Seq(Blocks) /\ Len(B') = 1 /\ B'[1] = "start"
        /\ B' # << >>
    BY <1>4, <1>11, <2>1 DEF Blocks
  <2>3. line' = "idle" /\ idle_run' = 2
    BY <1>1, <1>2, <1>3, <2>1
  <2>4. FrameInStep'
    BY <1>11, <2>2 DEF FrameInStep, LastBlock
  <2>5. BufferContinuesLine'
    BY <2>2, <2>3 DEF BufferContinuesLine
  <2> QED BY <1>11, <2>2, <2>4, <2>5
(* Within a frame one block comes in every cycle.                          *)
<1>12. ASSUME /\ k # 0 /\ k' = (IF k = 10 THEN 0 ELSE k + 1)
            /\ frame_active' \in BOOLEAN /\ (frame_active' <=> k' # 0) /\ e = << LastBlock(k') >>
       PROVE  Settled
  <2>1. /\ B # << >> /\ Len(B) \in {1, 2} /\ LastBlock(k') \in Blocks
        /\ k' \in 0 .. 10 /\ frame_active' \in BOOLEAN
    BY <1>1, <1>2, <1>12 DEF LastBlock, Blocks
  <2>2. Continues(B[Len(B)], LastBlock(k'))
    BY <1>1, <1>2, <1>12, <2>1 DEF Continues, LastBlock
  <2>3. CASE adv
    <3>1. /\ B' = Tail(B) \o << LastBlock(k') >> /\ B' \in Seq(Blocks)
          /\ Len(B') = Len(B) /\ B'[Len(B)] = LastBlock(k')
          /\ Len(B) = 2 => B'[1] = B[2]
      BY <1>1, <1>4, <1>12, <2>1, <2>3, BufferOperations
    <3>2. B' # << >> /\ line' = B[1]
      BY <1>1, <1>3, <2>1, <2>3, <3>1
    <3>3. Continues(line', B'[1]) /\ (Len(B') = 2 => Continues(B'[1], B'[2]))
      <4>1. CASE Len(B) = 1
        BY <2>2, <3>1, <3>2, <4>1
      <4>2. CASE Len(B) = 2
        BY <1>2, <2>2, <3>1, <3>2, <4>2
      <4> QED BY <2>1, <4>1, <4>2
    <3>4. frame_active' /\ Len(B') = 2 => gearbox_sequence' <= k' - 2
      BY <1>1, <1>2, <1>3, <1>5, <1>12, <3>1
    <3>5. FrameInStep'
      BY <1>12, <3>1, <3>2, <3>4 DEF FrameInStep
    <3>6. BufferContinuesLine'
      BY <3>2, <3>3 DEF BufferContinuesLine
    <3> QED BY <2>1, <3>1, <3>5, <3>6
  <2>4. CASE ~adv
    <3>1. Len(B) = 1 /\ gearbox_sequence' = 0 /\ k \in 1 .. 10
      BY <1>1, <1>2, <1>3, <1>5, <1>12, <2>1, <2>4
    <3>2. /\ B' = B \o << LastBlock(k') >> /\ B' \in Seq(Blocks)
          /\ Len(B') = 2 /\ B'[1] = B[1] /\ B'[2] = LastBlock(k') /\ B' # << >>
      BY <1>1, <1>4, <1>12, <2>1, <2>4, <3>1, BufferOperations
    <3>3. frame_active' /\ Len(B') = 2 => gearbox_sequence' <= k' - 2
      BY <1>12, <3>1
    <3>4. /\ \/ B'[1] = "start" /\ line' = "idle" /\ idle_run' = 2
             \/ Continues(line', B'[1])
          /\ Continues(B'[1], B'[2])
      BY <1>2, <1>3, <2>1, <2>2, <2>4, <3>1, <3>2
    <3>5. FrameInStep'
      BY <1>12, <3>2, <3>3 DEF FrameInStep
    <3>6. BufferContinuesLine'
      BY <3>2, <3>4 DEF BufferContinuesLine
    <3> QED BY <2>1, <3>2, <3>5, <3>6
  <2> QED BY <2>3, <2>4
<1>13. Settled
  BY <1>7, <1>10, <1>11, <1>12
<1>14. Len(B') <= 2
  <2>1. \A n \in {0, 1, 2} : n <= 2
    OBVIOUS
  <2> QED BY <1>13, <2>1
<1> QED BY <1>3, <1>8, <1>9, <1>13, <1>14
     DEF LineInv, Generator!TypeOK, PcsTx!TypeOK, GapIsCounted, Generator!FINAL_FRAME_BEAT, Blocks

-----------------------------------------------------------------------------
(* The FIFO                                                                *)
LEMMA AppendHolds ==
  ASSUME NEW s, NEW r \in Nat, NEW w \in Nat, Holds(s, r, w),
         NEW e \in Events, Number(e) = w + 1
  PROVE  /\ Holds(Append(s, e), r, w + 1)
         /\ Len(Append(s, e)) = Len(s) + 1 /\ Append(s, e) # << >>
         /\ Append(s, e)[Len(s) + 1] = e
         /\ \A i \in 1 .. Len(s) : Append(s, e)[i] = s[i]
<1>1. /\ s \in Seq(Events) /\ Len(s) = w - r
      /\ \A i \in 1 .. Len(s) : Number(s[i]) = r + i
  BY DEF Holds
<1>2. /\ Append(s, e) \in Seq(Events) /\ Append(s, e) # << >>
      /\ Len(Append(s, e)) = Len(s) + 1
      /\ \A i \in 1 .. Len(s) : Append(s, e)[i] = s[i]
      /\ Append(s, e)[Len(s) + 1] = e
  <2> DEFINE Appended(t, d) ==
        /\ Append(t, d) \in Seq(Events) /\ Append(t, d) # << >>
        /\ Len(Append(t, d)) = Len(t) + 1
        /\ \A i \in 1 .. Len(t) : Append(t, d)[i] = t[i]
        /\ Append(t, d)[Len(t) + 1] = d
  <2>1. \A t \in Seq(Events), d \in Events : Appended(t, d)
    BY AppendProperties
  <2>2. Appended(s, e)
    <3> HIDE DEF Appended
    <3> QED BY <1>1, <2>1
  <2> QED BY <2>2
<1>3. Len(s) \in Nat /\ Len(Append(s, e)) = (w + 1) - r
  BY <1>1, <1>2, LenProperties
<1>4. ASSUME NEW i \in 1 .. Len(Append(s, e))
      PROVE  Number(Append(s, e)[i]) = r + i
  <2>1. CASE i = Len(s) + 1
    BY <1>1, <1>2, <2>1
  <2>2. CASE i # Len(s) + 1
    <3>1. i \in 1 .. Len(s)
      BY <1>2, <1>3, <2>2
    <3> QED BY <1>1, <1>2, <3>1
  <2> QED BY <2>1, <2>2
<1> QED BY <1>2, <1>3, <1>4 DEF Holds

LEMMA TailHolds ==
  ASSUME NEW s, NEW r \in Nat, NEW w \in Nat, Holds(s, r, w), s # << >>
  PROVE  /\ Holds(Tail(s), r + 1, w)
         /\ Len(Tail(s)) = Len(s) - 1 /\ Len(s) \in Nat \ {0}
         /\ \A i \in 1 .. Len(Tail(s)) : Tail(s)[i] = s[i + 1]
<1>1. /\ s \in Seq(Events) /\ Len(s) = w - r
      /\ \A i \in 1 .. Len(s) : Number(s[i]) = r + i
  BY DEF Holds
<1>2. /\ Tail(s) \in Seq(Events) /\ Len(Tail(s)) = Len(s) - 1
      /\ \A i \in 1 .. Len(Tail(s)) : Tail(s)[i] = s[i + 1]
  BY <1>1, HeadTailProperties
<1>3. Len(s) \in Nat \ {0}
  BY <1>1, EmptySeq
<1>4. ASSUME NEW i \in 1 .. Len(Tail(s))
      PROVE  Number(Tail(s)[i]) = (r + 1) + i
  <2>1. i + 1 \in 1 .. Len(s) /\ r + (i + 1) = (r + 1) + i
    BY <1>2, <1>3
  <2> QED BY <1>1, <1>2, <2>1
<1>5. Len(Tail(s)) = w - (r + 1)
  BY <1>1, <1>2
<1> QED BY <1>2, <1>3, <1>4, <1>5 DEF Holds

Younger(n) == IF n = 0 THEN 0 ELSE n - 1

LEMMA AgedEntries ==
  ASSUME NEW s \in Seq(Events)
  PROVE  /\ Fifo!Aged(s) \in Seq(Events) /\ Len(Fifo!Aged(s)) = Len(s)
         /\ Fifo!Aged(s) = << >> <=> s = << >>
         /\ \A i \in 1 .. Len(s) :
              /\ Fifo!Aged(s)[i].kind = s[i].kind /\ Fifo!Aged(s)[i].order = s[i].order
              /\ Fifo!Aged(s)[i].ok = s[i].ok
              /\ Fifo!Aged(s)[i].wait = Younger(s[i].wait)
<1> DEFINE a == Fifo!Aged(s)
<1>1. Len(s) \in Nat /\ DOMAIN s = 1 .. Len(s) /\ \A i \in 1 .. Len(s) : s[i] \in Events
  BY LenProperties, ElementOfSeq
<1>2. a = [i \in 1 .. Len(s) |-> [s[i] EXCEPT !.wait = Younger(@)]]
  BY <1>1 DEF Fifo!Aged, Younger
<1>3. ASSUME NEW i \in 1 .. Len(s)
      PROVE  /\ a[i] \in Events /\ a[i].kind = s[i].kind /\ a[i].order = s[i].order
             /\ a[i].ok = s[i].ok /\ a[i].wait = Younger(s[i].wait)
  <2>1. a[i] = [s[i] EXCEPT !.wait = Younger(@)] /\ s[i] \in Events
    BY <1>1, <1>2
  <2>2. \A n \in Nat : Younger(n) \in Nat
    BY DEF Younger
  <2> HIDE DEF a
  <2> QED BY <2>1, <2>2 DEF Events
<1> HIDE DEF a
<1>4. a \in Seq(Events) /\ Len(a) = Len(s)
  <2>1. a \in [1 .. Len(s) -> Events]
    BY <1>2, <1>3
  <2>2. a \in Seq(Events)
    BY <1>1, <2>1, SeqDef
  <2>3. Len(a) \in Nat /\ DOMAIN a = 1 .. Len(a) /\ DOMAIN a = 1 .. Len(s)
    BY <2>1, <2>2, LenProperties
  <2>4. \A m, n \in Nat : 1 .. m = 1 .. n => m = n
    OBVIOUS
  <2>5. Len(a) = Len(s)
    BY <1>1, <2>3, <2>4
  <2> QED BY <2>2, <2>5
<1>5. a = << >> <=> s = << >>
  BY <1>4, EmptySeq
<1> QED BY <1>3, <1>4, <1>5 DEF a

LEMMA AgedHolds ==
  ASSUME NEW s, NEW r \in Nat, NEW w \in Nat, Holds(s, r, w)
  PROVE  Holds(Fifo!Aged(s), r, w)
<1>1. s \in Seq(Events) /\ Len(s) = w - r /\ \A i \in 1 .. Len(s) : Number(s[i]) = r + i
  BY DEF Holds
<1>2. /\ Fifo!Aged(s) \in Seq(Events) /\ Len(Fifo!Aged(s)) = Len(s)
      /\ \A i \in 1 .. Len(s) : /\ Fifo!Aged(s)[i].kind = s[i].kind
                               /\ Fifo!Aged(s)[i].order = s[i].order
  BY <1>1, AgedEntries
<1>3. \A i \in 1 .. Len(s) : Number(Fifo!Aged(s)[i]) = r + i
  <2>1. \A i \in 1 .. Len(s) : Number(Fifo!Aged(s)[i]) = Number(s[i])
    BY <1>2 DEF Number
  <2> QED BY <1>1, <2>1
<1> QED BY <1>1, <1>2, <1>3 DEF Holds

(* Time passes for the events that wait and for the next decision alike.   *)
LEMMA AgedInTime ==
  ASSUME NEW s \in Seq(Events), NEW c \in Nat, InTime(s, c + 1)
  PROVE  InTime(Fifo!Aged(s), c)
<1>1. /\ Len(Fifo!Aged(s)) = Len(s)
      /\ \A i \in 1 .. Len(s) :
           /\ Fifo!Aged(s)[i].kind = s[i].kind
           /\ Fifo!Aged(s)[i].wait = Younger(s[i].wait)
  BY AgedEntries
<1>2. Len(s) \in Nat /\ \A i \in 1 .. Len(s) : s[i].wait \in Nat
  <2>1. ASSUME NEW i \in 1 .. Len(s)
        PROVE  s[i].wait \in Nat
    <3>1. s[i] \in Events
      BY ElementOfSeq
    <3> QED BY <3>1 DEF Events
  <2> QED BY <2>1, LenProperties
<1> SUFFICES ASSUME NEW i \in 1 .. Len(s), s[i].kind = "START"
             PROVE  IF i < Len(s) THEN Fifo!Aged(s)[i + 1].wait <= Fifo!Aged(s)[i].wait + 6
                    ELSE \A d \in SyncDelays : c + d <= Fifo!Aged(s)[i].wait + 7
  BY <1>1 DEF InTime
<1>3. CASE i < Len(s)
  <2>1. i + 1 \in 1 .. Len(s) /\ s[i + 1].wait <= s[i].wait + 6
    BY <1>2, <1>3 DEF InTime
  <2>2. Younger(s[i + 1].wait) <= Younger(s[i].wait) + 6
    <3>1. \A m, n \in Nat : m <= n + 6 => Younger(m) <= Younger(n) + 6
      BY DEF Younger
    <3> QED BY <1>2, <2>1, <3>1
  <2> QED BY <1>1, <1>3, <2>1, <2>2
<1>4. CASE ~(i < Len(s))
  <2>1. ASSUME NEW d \in SyncDelays
        PROVE  c + d <= Younger(s[i].wait) + 7
    <3>1. (c + 1) + d <= s[i].wait + 7 /\ d \in Nat
      BY <1>4, ResponseAssumption DEF InTime
    <3> QED BY <1>2, <3>1 DEF Younger
  <2> QED BY <1>1, <1>4, <2>1
<1> QED BY <1>3, <1>4

LEMMA AgedDue ==
  ASSUME NEW s \in Seq(Events), NEW k \in Nat, NEW c \in Nat, Due(s, k, c + 1)
  PROVE  Due(Fifo!Aged(s), k + 1, c)
<1>1. CASE s = << >>
  <2>1. ASSUME NEW d \in SyncDelays
        PROVE  c + d + (k + 1) <= 7
    <3>1. (c + 1) + d + k <= 7 /\ d \in Nat
      BY <1>1, ResponseAssumption DEF Due
    <3> QED BY <3>1
  <2> QED BY <1>1, <2>1, AgedEntries DEF Due
<1>2. CASE s # << >>
  <2>1. 1 \in 1 .. Len(s) /\ s[1].wait \in Nat
    <3>1. 1 \in 1 .. Len(s)
      BY <1>2, EmptySeq
    <3>2. s[1] \in Events
      BY <3>1, ElementOfSeq
    <3> QED BY <3>1, <3>2 DEF Events
  <2>2. s[1].wait = 0 \/ s[1].wait + k <= 6
    BY <1>2 DEF Due
  <2>3. Younger(s[1].wait) = 0 \/ Younger(s[1].wait) + (k + 1) <= 6
    BY <2>1, <2>2 DEF Younger
  <2> QED BY <1>2, <2>1, <2>3, AgedEntries DEF Due
<1> QED BY <1>1, <1>2

-----------------------------------------------------------------------------
(* The receive side                                                        *)
LEMMA Counts ==
  ASSUME AnswerInv
  PROVE  /\ frame_beat_index \in 0 .. 10 /\ deciding \in 0 .. 2 /\ orders \in Nat
         /\ Len(sent) \in Nat /\ Reads \in Nat /\ Writes \in Nat
         /\ fifo \in Seq(Events) /\ Len(fifo) \in Nat /\ Len(fifo) = Writes - Reads
         /\ \A i \in 1 .. Len(fifo) : fifo[i] \in Events /\ Number(fifo[i]) = Reads + i
<1>1. /\ frame_beat_index \in 0 .. 10 /\ deciding \in 0 .. 2 /\ orders \in Nat
      /\ sent \in Seq(SentFrames)
  BY ResponseAssumption DEF AnswerInv, ReceiveInv, Generator!TypeOK, Generator!FINAL_FRAME_BEAT
<1>2. /\ fifo \in Seq(Events) /\ Len(fifo) = Writes - Reads
      /\ \A i \in 1 .. Len(fifo) : Number(fifo[i]) = Reads + i
  BY DEF AnswerInv, Holds
<1>3. Len(sent) \in Nat /\ Len(fifo) \in Nat
  BY <1>1, <1>2, LenProperties
<1>4. \A i \in 1 .. Len(fifo) : fifo[i] \in Events
  BY <1>2, ElementOfSeq
<1>5. Reads \in Nat
  BY <1>1, <1>3 DEF Reads
<1>6. Writes \in Int
  BY <1>1 DEF Writes
<1>7. Writes \in Nat
  BY <1>2, <1>3, <1>5, <1>6
<1> QED BY <1>1, <1>2, <1>3, <1>4, <1>5, <1>7

LEMMA Parity == \A a, b \in Int : 2 * a - 1 # 2 * b
OBVIOUS

(* When no decision is under way the last event is a decision.             *)
LEMMA AllDecided ==
  ASSUME AnswerInv, deciding = 0
  PROVE  /\ fifo # << >> => fifo[Len(fifo)].kind = "DECISION"
         /\ frame_beat_index # 0 => fifo # << >>
<1>1. Writes = 2 * orders /\ orders \in Nat /\ Len(fifo) = Writes - Reads
      /\ Reads \in Nat /\ Len(fifo) \in Nat
  BY Counts DEF Writes
<1>2. ASSUME fifo # << >>
      PROVE  fifo[Len(fifo)].kind = "DECISION"
  <2>1. Len(fifo) \in 1 .. Len(fifo)
    BY <1>2, Counts, EmptySeq
  <2>2. fifo[Len(fifo)] \in Events /\ Number(fifo[Len(fifo)]) = 2 * orders
    BY <1>1, <2>1, Counts
  <2>3. fifo[Len(fifo)].order \in Int /\ fifo[Len(fifo)].kind \in {"START", "DECISION"}
    BY <2>2 DEF Events
  <2> QED BY <1>1, <2>2, <2>3, Parity DEF Number
<1>3. ASSUME frame_beat_index # 0
      PROVE  fifo # << >>
  <2>1. Reads = 2 * Len(sent) + 1 /\ Len(sent) \in Nat
    BY <1>3, Counts DEF Reads
  <2>2. Len(fifo) # 0
    BY <1>1, <2>1
  <2> QED BY <2>2, EmptySeq
<1> QED BY <1>2, <1>3

(* What the FIFO holds before it is read in a cycle.                       *)
Received(s) ==
  /\ ReceiveInv'
  /\ Holds(s, Reads, Writes')
  /\ InTime(s, deciding' + 1)
  /\ frame_beat_index # 0 => Due(s, frame_beat_index, deciding' + 1)
  /\ fifo # << >> => s # << >> /\ s[1] = fifo[1]

LEMMA OrderReceived ==
  ASSUME AnswerInv, RoomInFifo, DecodeOrder, NEW ok \in BOOLEAN,
         NEW s \in Fifo!Written(TRUE, EventWith(ok))
  PROVE  Received(s)
<1>1. /\ orders \in 0 .. OrderLimit /\ deciding \in 0 .. 2 /\ wire_bytes \in Nat
      /\ wire_bytes <= OrderWireBytes + 7
      /\ deciding # 0 => wire_bytes + 8 * deciding <= 31
      /\ OrderWireBytes \in Nat /\ OrderLimit \in Nat /\ OrderWireBytes > 23
  BY ResponseAssumption, TimingAssumption DEF AnswerInv, ReceiveInv, DecisionLatency
<1>2. /\ orders < OrderLimit /\ wire_bytes >= OrderWireBytes
      /\ orders' = orders + 1 /\ wire_bytes' = wire_bytes - OrderWireBytes + 8
      /\ deciding' = 2
  BY DEF DecodeOrder, DecisionLatency
<1>3. deciding = 0
  BY <1>1, <1>2
<1>4. ReceiveInv'
  <2>1. wire_bytes' \in Nat /\ wire_bytes' <= 15
    BY <1>1, <1>2
  <2>2. wire_bytes' <= OrderWireBytes + 7 /\ orders' \in 0 .. OrderLimit
    BY <1>1, <1>2, <2>1
  <2> QED BY <1>2, <2>1, <2>2 DEF ReceiveInv, DecisionLatency
<1>5. PICK d \in SyncDelays :
        s = Append(fifo, [kind |-> "START", order |-> orders + 1, ok |-> ok, wait |-> d])
  <2>1. EventWith(ok) = [kind |-> "START", order |-> orders + 1, ok |-> ok]
    BY <1>3 DEF EventWith, Decided
  <2>2. s \in Fifo!Written(TRUE, [kind |-> "START", order |-> orders + 1, ok |-> ok])
    BY <2>1
  <2> QED BY <2>2 DEF RoomInFifo, Fifo!Written
<1> DEFINE e == [kind |-> "START", order |-> orders + 1, ok |-> ok, wait |-> d]
<1>6. d \in Nat /\ orders + 1 \in Nat
  BY <1>1, ResponseAssumption
<1>7. e \in Events /\ Number(e) = Writes + 1 /\ Writes' = Writes + 1
      /\ e.kind = "START" /\ e.wait = d
  BY <1>1, <1>2, <1>3, <1>6 DEF Events, Number, Writes
<1> HIDE DEF e
<1>8. s = Append(fifo, e)
  BY <1>5 DEF e
<1>9. Reads \in Nat /\ Writes \in Nat /\ Len(fifo) \in Nat /\ fifo \in Seq(Events)
  BY Counts
<1>10. /\ Holds(s, Reads, Writes')
       /\ Len(s) = Len(fifo) + 1 /\ s # << >> /\ s[Len(fifo) + 1] = e
       /\ \A i \in 1 .. Len(fifo) : s[i] = fifo[i]
  BY <1>7, <1>8, <1>9, AppendHolds DEF AnswerInv
<1>11. InTime(s, 2 + 1)
  <2> SUFFICES ASSUME NEW i \in 1 .. Len(s), s[i].kind = "START"
               PROVE  IF i < Len(s) THEN s[i + 1].wait <= s[i].wait + 6
                      ELSE \A b \in SyncDelays : 3 + b <= s[i].wait + 7
    BY DEF InTime
  <2>1. CASE i = Len(fifo) + 1
    <3>1. ASSUME NEW b \in SyncDelays
          PROVE  3 + b <= d + 7
      <4>1. b <= d + 4 /\ b \in Nat
        BY TimingAssumption, ResponseAssumption
      <4> QED BY <1>6, <4>1
    <3> QED BY <1>7, <1>9, <1>10, <2>1, <3>1
  <2>2. CASE i < Len(fifo)
    <3>1. i \in 1 .. Len(fifo) /\ i + 1 \in 1 .. Len(fifo)
      BY <1>9, <2>2
    <3>2. fifo[i].kind = "START"
      BY <1>10, <3>1
    <3>3. fifo[i + 1].wait <= fifo[i].wait + 6
      BY <2>2, <3>1, <3>2 DEF AnswerInv, InTime
    <3>4. i < Len(s)
      BY <1>9, <1>10, <2>2
    <3> QED BY <1>10, <3>1, <3>3, <3>4
  <2>3. CASE i = Len(fifo)
    <3>1. i \in 1 .. Len(fifo) /\ fifo # << >>
      BY <1>9, <2>3, EmptySeq
    <3> QED BY <1>3, <1>10, <2>3, <3>1, AllDecided
  <2> QED BY <1>9, <1>10, <2>1, <2>2, <2>3
<1>12. fifo # << >> => s[1] = fifo[1]
  <2>1. fifo # << >> => 1 \in 1 .. Len(fifo)
    BY <1>9, EmptySeq
  <2> QED BY <1>10, <2>1
<1>13. frame_beat_index # 0 => Due(s, frame_beat_index, 2 + 1)
  BY <1>3, <1>10, <1>12, AllDecided DEF AnswerInv, FrameInv, Due
<1> QED BY <1>2, <1>4, <1>10, <1>11, <1>12, <1>13 DEF Received

LEMMA NoOrderStep ==
  ASSUME AnswerInv, NoOrder
  PROVE  /\ ReceiveInv' /\ orders' = orders
         /\ deciding' = IF deciding = 0 THEN 0 ELSE deciding - 1
<1>1. /\ orders \in 0 .. OrderLimit /\ deciding \in 0 .. 2 /\ wire_bytes \in Nat
      /\ wire_bytes <= OrderWireBytes + 7
      /\ deciding # 0 => wire_bytes + 8 * deciding <= 31
      /\ OrderWireBytes \in Nat
  BY ResponseAssumption DEF AnswerInv, ReceiveInv, DecisionLatency
<1>2. /\ wire_bytes' = LineTime /\ orders' = orders
      /\ deciding' = IF deciding = 0 THEN 0 ELSE deciding - 1
  BY DEF NoOrder
<1>3. wire_bytes' \in Nat /\ wire_bytes' <= wire_bytes + 8 /\ wire_bytes' <= OrderWireBytes + 7
  BY <1>1, <1>2 DEF LineTime
<1>4. deciding' \in 0 .. 2 /\ (deciding' # 0 => wire_bytes' + 8 * deciding' <= 31)
  BY <1>1, <1>2, <1>3
<1> QED BY <1>1, <1>2, <1>3, <1>4 DEF ReceiveInv, DecisionLatency

LEMMA QuietReceived ==
  ASSUME AnswerInv, NoOrder, deciding # 1
  PROVE  Received(fifo)
<1>1. /\ ReceiveInv' /\ orders' = orders /\ deciding \in 0 .. 2
      /\ deciding' = IF deciding = 0 THEN 0 ELSE deciding - 1
  BY NoOrderStep, Counts
<1>2. Writes' = Writes
  BY <1>1 DEF Writes
<1>3. CASE deciding = 2
  <2>1. deciding' + 1 = deciding
    BY <1>1, <1>3
  <2> QED BY <1>1, <1>2, <2>1 DEF Received, AnswerInv, FrameInv
<1>4. CASE deciding = 0
  <2>1. InTime(fifo, deciding' + 1)
    <3> SUFFICES ASSUME NEW i \in 1 .. Len(fifo), fifo[i].kind = "START"
                 PROVE  i < Len(fifo) /\ fifo[i + 1].wait <= fifo[i].wait + 6
      BY DEF InTime
    <3>1. Len(fifo) \in Nat /\ fifo # << >>
      BY Counts, EmptySeq
    <3>2. i # Len(fifo)
      BY <1>4, <3>1, AllDecided
    <3>3. i < Len(fifo)
      BY <3>1, <3>2
    <3> QED BY <3>3 DEF AnswerInv, InTime
  <2>2. frame_beat_index # 0 => Due(fifo, frame_beat_index, deciding' + 1)
    BY <1>4, AllDecided DEF AnswerInv, FrameInv, Due
  <2> QED BY <1>1, <1>2, <2>1, <2>2 DEF Received, AnswerInv
<1> QED BY <1>1, <1>3, <1>4

LEMMA DecisionReceived ==
  ASSUME AnswerInv, RoomInFifo, NoOrder, deciding = 1, NEW ok \in BOOLEAN,
         NEW s \in Fifo!Written(TRUE, EventWith(ok))
  PROVE  Received(s)
<1>1. ReceiveInv' /\ orders' = orders /\ deciding' = 0
  BY NoOrderStep
<1>2. PICK d \in SyncDelays :
        s = Append(fifo, [kind |-> "DECISION", order |-> orders, ok |-> ok, wait |-> d])
  <2>1. EventWith(ok) = [kind |-> "DECISION", order |-> orders, ok |-> ok]
    BY DEF EventWith, Decided
  <2>2. s \in Fifo!Written(TRUE, [kind |-> "DECISION", order |-> orders, ok |-> ok])
    BY <2>1
  <2> QED BY <2>2 DEF RoomInFifo, Fifo!Written
<1> DEFINE e == [kind |-> "DECISION", order |-> orders, ok |-> ok, wait |-> d]
<1>3. d \in Nat /\ orders \in Nat
  BY Counts, ResponseAssumption
<1>4. e \in Events /\ Number(e) = Writes + 1 /\ Writes' = Writes + 1
      /\ e.kind = "DECISION" /\ e.wait = d
  BY <1>1, <1>3 DEF Events, Number, Writes
<1> HIDE DEF e
<1>5. s = Append(fifo, e)
  BY <1>2 DEF e
<1>6. Reads \in Nat /\ Writes \in Nat /\ Len(fifo) \in Nat /\ fifo \in Seq(Events)
  BY Counts
<1>7. /\ Holds(s, Reads, Writes')
      /\ Len(s) = Len(fifo) + 1 /\ s # << >> /\ s[Len(fifo) + 1] = e
      /\ \A i \in 1 .. Len(fifo) : s[i] = fifo[i]
  BY <1>4, <1>5, <1>6, AppendHolds DEF AnswerInv
<1>8. InTime(s, 0 + 1)
  <2> SUFFICES ASSUME NEW i \in 1 .. Len(s), s[i].kind = "START"
               PROVE  i < Len(s) /\ s[i + 1].wait <= s[i].wait + 6
    BY DEF InTime
  <2>1. i # Len(fifo) + 1
    BY <1>4, <1>7
  <2>2. i \in 1 .. Len(fifo) /\ i < Len(s)
    BY <1>6, <1>7, <2>1
  <2>3. fifo[i].kind = "START" /\ s[i].wait = fifo[i].wait
    BY <1>7, <2>2
  <2>4. CASE i < Len(fifo)
    <3>1. i + 1 \in 1 .. Len(fifo)
      BY <1>6, <2>2, <2>4
    <3>2. fifo[i + 1].wait <= fifo[i].wait + 6
      BY <2>2, <2>3, <2>4 DEF AnswerInv, InTime
    <3> QED BY <1>7, <2>2, <2>3, <3>1, <3>2
  <2>5. CASE i = Len(fifo)
    <3>1. 1 + d <= fifo[i].wait + 7
      BY <2>2, <2>3, <2>5 DEF AnswerInv, InTime
    <3>2. fifo[i].wait \in Nat
      BY <2>2, Counts DEF Events
    <3> QED BY <1>3, <1>4, <1>7, <2>2, <2>3, <2>5, <3>1, <3>2
  <2> QED BY <1>6, <2>2, <2>4, <2>5
<1>9. fifo # << >> => s[1] = fifo[1]
  <2>1. fifo # << >> => 1 \in 1 .. Len(fifo)
    BY <1>6, EmptySeq
  <2> QED BY <1>7, <2>1
<1>10. ASSUME frame_beat_index # 0
       PROVE  Due(s, frame_beat_index, 0 + 1)
  <2>1. Due(fifo, frame_beat_index, 1)
    BY <1>10 DEF AnswerInv, FrameInv
  <2>2. CASE fifo # << >>
    BY <1>7, <1>9, <2>1, <2>2 DEF Due
  <2>3. CASE fifo = << >>
    <3>1. s[1] = e
      <4>1. Len(fifo) = 0
        BY <2>3, EmptySeq
      <4> QED BY <1>7, <4>1
    <3>2. 1 + d + frame_beat_index <= 7 /\ frame_beat_index \in Nat
      BY <2>1, <2>3, Counts DEF Due
    <3>3. d + frame_beat_index <= 6
      BY <1>3, <3>2
    <3> QED BY <1>4, <1>7, <3>1, <3>3 DEF Due
  <2> QED BY <2>2, <2>3
<1> QED BY <1>1, <1>7, <1>8, <1>9, <1>10 DEF Received

-----------------------------------------------------------------------------
(* The frame generator                                                     *)

(* What the generator sees at the head of the FIFO: nothing or START while *)
(* it waits, nothing or its own decision in a frame, and the decision from *)
(* beat 6 on.                                                              *)
LEMMA HeadOfFifo ==
  ASSUME AnswerInv
  PROVE  /\ ~(Fifo!ResponseStartValid /\ Fifo!DecisionValid)
         /\ Fifo!ResponseStartValid \/ Fifo!DecisionValid =>
              /\ fifo # << >> /\ 1 \in 1 .. Len(fifo) /\ fifo[1] \in Events
              /\ fifo[1].wait = 0 /\ Fifo!ReadData = fifo[1]
              /\ fifo[1].order = Len(sent) + 1
         /\ Fifo!ResponseStartValid => frame_beat_index = 0 /\ fifo[1].kind = "START"
         /\ Fifo!DecisionValid => frame_beat_index # 0 /\ fifo[1].kind = "DECISION"
         /\ frame_beat_index >= 6 => Fifo!DecisionValid
<1>1. /\ frame_beat_index \in 0 .. 10 /\ Len(sent) \in Nat
      /\ Reads = IF frame_beat_index = 0 THEN 2 * Len(sent) ELSE 2 * Len(sent) + 1
      /\ \A i \in 1 .. Len(fifo) : fifo[i] \in Events /\ Number(fifo[i]) = Reads + i
  BY Counts DEF Reads
<1>2. ASSUME fifo # << >>
      PROVE  /\ 1 \in 1 .. Len(fifo) /\ fifo[1] \in Events /\ fifo[1].order = Len(sent) + 1
             /\ frame_beat_index = 0 => fifo[1].kind = "START"
             /\ frame_beat_index # 0 => fifo[1].kind = "DECISION"
  <2>1. 1 \in 1 .. Len(fifo)
    BY <1>2, Counts, EmptySeq
  <2>2. /\ fifo[1] \in Events /\ fifo[1].order \in Int
        /\ fifo[1].kind \in {"START", "DECISION"} /\ Number(fifo[1]) = Reads + 1
    BY <1>1, <2>1 DEF Events
  <2>3. CASE frame_beat_index = 0
    <3>1. Number(fifo[1]) = 2 * (Len(sent) + 1) - 1
      BY <1>1, <2>2, <2>3
    <3>2. fifo[1].kind = "START"
      BY <1>1, <2>2, <3>1, Parity DEF Number
    <3>3. 2 * fifo[1].order - 1 = 2 * (Len(sent) + 1) - 1
      BY <3>1, <3>2 DEF Number
    <3>4. fifo[1].order = Len(sent) + 1
      BY <1>1, <2>2, <3>3
    <3> QED BY <2>1, <2>2, <2>3, <3>2, <3>4
  <2>4. CASE frame_beat_index # 0
    <3>1. Number(fifo[1]) = 2 * (Len(sent) + 1)
      BY <1>1, <2>2, <2>4
    <3>2. fifo[1].kind = "DECISION"
      BY <1>1, <2>2, <3>1, Parity DEF Number
    <3>3. 2 * fifo[1].order = 2 * (Len(sent) + 1)
      BY <3>1, <3>2 DEF Number
    <3>4. fifo[1].order = Len(sent) + 1
      BY <1>1, <2>2, <3>3
    <3> QED BY <2>1, <2>2, <2>4, <3>2, <3>4
  <2> QED BY <2>3, <2>4
<1>3. Fifo!ReadData = IF fifo # << >> /\ fifo[1].wait = 0 THEN fifo[1] ELSE Fifo!NoEvent
  BY DEF Fifo!ReadData
<1>4. Fifo!NoEvent.kind = "none"
  BY DEF Fifo!NoEvent
<1>5. ASSUME frame_beat_index >= 6
      PROVE  fifo # << >> /\ fifo[1].wait = 0
  <2>1. Due(fifo, frame_beat_index, deciding) /\ frame_beat_index # 0
    BY <1>1, <1>5 DEF AnswerInv, FrameInv
  <2>2. fifo # << >>
    <3> SUFFICES ASSUME fifo = << >> PROVE FALSE
      OBVIOUS
    <3>1. deciding # 0 /\ deciding \in 0 .. 2
      BY <2>1, AllDecided, Counts
    <3>2. PICK d \in SyncDelays : TRUE
      BY TimingAssumption
    <3>3. deciding + d + frame_beat_index <= 7 /\ d \in Nat \ {0}
      BY <2>1, <3>2, ResponseAssumption DEF Due
    <3> QED BY <1>1, <1>5, <3>1, <3>3
  <2>3. fifo[1].wait \in Nat
    BY <1>2, <2>2 DEF Events
  <2> QED BY <1>1, <1>5, <2>1, <2>2, <2>3 DEF Due
<1> QED BY <1>1, <1>2, <1>3, <1>4, <1>5 DEF Fifo!ResponseStartValid, Fifo!DecisionValid

LEMMA ReceivedCounts ==
  ASSUME AnswerInv, NEW s, Received(s)
  PROVE  s \in Seq(Events) /\ Reads \in Nat /\ Writes' \in Nat /\ deciding' \in 0 .. 2
<1>1. /\ Reads \in Nat /\ s \in Seq(Events) /\ Len(s) = Writes' - Reads
      /\ orders' \in Nat /\ deciding' \in 0 .. 2
  BY Counts, ResponseAssumption DEF Holds, Received, ReceiveInv
<1>2. Writes' \in Int
  BY <1>1 DEF Writes
<1>3. Len(s) \in Nat
  BY <1>1, LenProperties
<1>4. \A l, r \in Nat, w \in Int : l = w - r => w \in Nat
  OBVIOUS
<1> QED BY <1>1, <1>2, <1>3, <1>4

LEMMA TailInTime ==
  ASSUME NEW s, NEW c \in Nat, InTime(s, c), Len(s) \in Nat \ {0},
         Len(Tail(s)) = Len(s) - 1, \A i \in 1 .. Len(Tail(s)) : Tail(s)[i] = s[i + 1]
  PROVE  InTime(Tail(s), c)
<1> SUFFICES ASSUME NEW i \in 1 .. Len(Tail(s)), Tail(s)[i].kind = "START"
             PROVE  IF i < Len(Tail(s)) THEN Tail(s)[i + 1].wait <= Tail(s)[i].wait + 6
                    ELSE \A d \in SyncDelays : c + d <= Tail(s)[i].wait + 7
  BY DEF InTime
<1>1. i + 1 \in 1 .. Len(s) /\ Tail(s)[i] = s[i + 1] /\ i \in Nat
  OBVIOUS
<1>2. IF i + 1 < Len(s) THEN s[(i + 1) + 1].wait <= s[i + 1].wait + 6
      ELSE \A d \in SyncDelays : c + d <= s[i + 1].wait + 7
  BY <1>1 DEF InTime
<1>3. CASE i < Len(Tail(s))
  <2>1. i + 1 \in 1 .. Len(Tail(s)) /\ i + 1 < Len(s)
    BY <1>1, <1>3
  <2> QED BY <1>1, <1>2, <1>3, <2>1
<1>4. CASE ~(i < Len(Tail(s)))
  <2>1. ~(i + 1 < Len(s))
    BY <1>1, <1>4
  <2> QED BY <1>1, <1>2, <1>4, <2>1
<1> QED BY <1>3, <1>4

(* A frame starts: the head of the FIFO is read.                           *)
LEMMA StartOfFrame ==
  ASSUME AnswerInv, NEW s, Received(s), fifo # << >>,
         fifo[1].wait = 0, fifo[1].kind = "START", frame_beat_index = 0,
         NEW c \in Nat, c = deciding' + 1
  PROVE  /\ Holds(Tail(s), Reads + 1, Writes')
         /\ InTime(Tail(s), c) /\ Due(Tail(s), 0, c)
<1>1. /\ Holds(s, Reads, Writes') /\ InTime(s, c) /\ s # << >> /\ s[1] = fifo[1]
  BY DEF Received
<1>2. Reads \in Nat /\ Writes' \in Nat
  BY ReceivedCounts
<1>3. /\ Holds(Tail(s), Reads + 1, Writes') /\ Len(s) \in Nat \ {0}
      /\ Len(Tail(s)) = Len(s) - 1
      /\ \A i \in 1 .. Len(Tail(s)) : Tail(s)[i] = s[i + 1]
  BY <1>1, <1>2, TailHolds
<1>4. InTime(Tail(s), c)
  BY <1>1, <1>3, TailInTime
<1>5. Due(Tail(s), 0, c)
  <2>1. 1 \in 1 .. Len(s) /\ s[1].kind = "START" /\ s[1].wait = 0
    BY <1>1, <1>3
  <2>2. CASE 1 < Len(s)
    <3>1. s[1 + 1].wait <= 6
      BY <1>1, <2>1, <2>2 DEF InTime
    <3>2. 1 \in 1 .. Len(Tail(s)) /\ Tail(s) # << >>
      <4>1. \A l \in Nat : 1 < l => l - 1 # 0 /\ 1 \in 1 .. l - 1
        OBVIOUS
      <4>2. Len(Tail(s)) # 0 /\ 1 \in 1 .. Len(Tail(s))
        BY <1>3, <2>2, <4>1
      <4> QED BY <4>2, EmptySeq
    <3>3. Tail(s)[1] = s[1 + 1] /\ s[1 + 1] \in Events
      <4>1. 1 + 1 \in 1 .. Len(s) /\ s \in Seq(Events)
        BY <1>1, <1>3, <2>2 DEF Holds
      <4> QED BY <1>3, <3>2, <4>1, ElementOfSeq
    <3>4. Tail(s)[1].wait \in Nat
      BY <3>3 DEF Events
    <3> QED BY <3>1, <3>2, <3>3, <3>4 DEF Due
  <2>3. CASE ~(1 < Len(s))
    <3>1. \A d \in SyncDelays : c + d <= 0 + 7
      BY <1>1, <2>1, <2>3 DEF InTime
    <3>2. Tail(s) = << >>
      <4>1. Len(Tail(s)) = 0 /\ Tail(s) \in Seq(Events)
        BY <1>3, <2>3 DEF Holds
      <4> QED BY <4>1, EmptySeq
    <3>3. \A d \in SyncDelays : c + d + 0 <= 7
      BY <3>1, ResponseAssumption
    <3> QED BY <3>2, <3>3 DEF Due
  <2> QED BY <2>2, <2>3
<1> QED BY <1>3, <1>4, <1>5

(* Whatever stays in the FIFO is a cycle older.                            *)
LEMMA FifoAfter ==
  ASSUME NEW s, NEW r \in Nat, NEW w \in Nat, NEW c \in Nat,
         Holds(s, r, w), InTime(s, c + 1), fifo' = Fifo!Aged(s)
  PROVE  /\ Holds(fifo', r, w) /\ InTime(fifo', c)
         /\ s # << >> => fifo'[1].ok = s[1].ok
<1>1. s \in Seq(Events)
  BY DEF Holds
<1>2. s # << >> => 1 \in 1 .. Len(s)
  BY <1>1, EmptySeq
<1> QED BY <1>1, <1>2, AgedHolds, AgedInTime, AgedEntries

LEMMA FrameStep ==
  ASSUME AnswerInv, NEW s, Received(s), Transmit,
         fifo' = Fifo!Aged(IF Read THEN Tail(s) ELSE s)
  PROVE  AnswerInv'
<1> DEFINE k == frame_beat_index
           start == Fifo!ResponseStartValid
           ready == PcsTx!FrameStartReady
<1>1. /\ k \in 0 .. 10 /\ Len(sent) \in Nat /\ sent \in Seq(SentFrames) /\ AnswersInOrder
      /\ k # 0 => frame_order = Len(sent) + 1
      /\ k # 0 => frame_fields =
           IF k <= 6 THEN {}
           ELSE {[kind |-> "DECISION", order |-> frame_order, ok |-> fifo[1].ok]}
  BY Counts DEF AnswerInv, FrameInv
<1>2. /\ s \in Seq(Events) /\ Reads \in Nat /\ Writes' \in Nat /\ deciding' \in Nat
      /\ ReceiveInv' /\ Holds(s, Reads, Writes') /\ InTime(s, deciding' + 1)
      /\ k # 0 => Due(s, k, deciding' + 1)
      /\ fifo # << >> => s # << >> /\ s[1] = fifo[1]
  BY ReceivedCounts DEF Received
<1>3. /\ Generator!Clock(start, ready, Fifo!ReadData)
      /\ sent' = IF k = 10
                   THEN Append(sent, [order |-> frame_order, fields |-> frame_fields'])
                   ELSE sent
  BY DEF Transmit, RecordSent, FrameFinished, Generator!FINAL_FRAME_BEAT
<1>4. Read <=> \/ start /\ k = 0 /\ ready
               \/ k = 10 /\ Fifo!DecisionValid
  BY DEF Read, Generator!StartEventAccepted, Generator!ResponseStartReady,
         Generator!DecisionReady, Generator!FINAL_FRAME_BEAT
<1>5. CASE Generator!Idle(start, ready)
  <2>1. k = 0 /\ k' = 0 /\ ~Read
    BY <1>4, <1>5 DEF Generator!Idle, Generator!vars, Generator!StartEventAccepted,
                      Generator!ResponseStartReady
  <2>2. sent' = sent /\ Reads' = Reads
    BY <1>3, <2>1 DEF Reads
  <2>3. Holds(fifo', Reads', Writes') /\ InTime(fifo', deciding')
    BY <1>2, <2>1, <2>2, FifoAfter
  <2>4. AnswersInOrder'
    BY <1>1, <2>2 DEF AnswersInOrder
  <2> QED BY <1>1, <1>2, <2>1, <2>2, <2>3, <2>4
       DEF AnswerInv, FrameInv, Generator!TypeOK, Generator!FINAL_FRAME_BEAT
<1>6. CASE Generator!Start(start, ready, Fifo!ReadData)
  <2>1. /\ k = 0 /\ k' = 1 /\ start /\ ready /\ Read
        /\ frame_order' = Fifo!ReadData.order /\ frame_fields' = {}
    BY <1>4, <1>6 DEF Generator!Start, Generator!StartEventAccepted,
                      Generator!ResponseStartReady
  <2>2. /\ sent' = sent /\ Reads' = Reads + 1
    <3>1. sent' = sent
      BY <1>3, <2>1
    <3> QED BY <2>1, <3>1 DEF Reads
  <2>3. /\ fifo # << >> /\ fifo[1].wait = 0 /\ fifo[1].kind = "START"
        /\ Fifo!ReadData.order = Len(sent) + 1
    BY <2>1, HeadOfFifo
  <2>4. /\ Holds(Tail(s), Reads + 1, Writes') /\ InTime(Tail(s), deciding' + 1)
        /\ Due(Tail(s), 0, deciding' + 1) /\ fifo' = Fifo!Aged(Tail(s))
    BY <1>2, <2>1, <2>3, StartOfFrame
  <2>5. Holds(fifo', Reads', Writes') /\ InTime(fifo', deciding')
    <3>1. Reads + 1 \in Nat
      BY <1>2
    <3> QED BY <1>2, <2>2, <2>4, <3>1, FifoAfter
  <2>6. Due(fifo', k', deciding')
    <3>1. Tail(s) \in Seq(Events)
      BY <2>4 DEF Holds
    <3>2. Due(fifo', 0 + 1, deciding')
      BY <1>2, <2>4, <3>1, AgedDue
    <3> QED BY <2>1, <3>2
  <2>7. AnswersInOrder'
    BY <1>1, <2>2 DEF AnswersInOrder
  <2>8. FrameInv'
    BY <1>1, <2>1, <2>2, <2>3, <2>6 DEF FrameInv
  <2> QED BY <1>1, <1>2, <2>1, <2>2, <2>5, <2>7, <2>8
       DEF AnswerInv, Generator!TypeOK, Generator!FINAL_FRAME_BEAT
<1>7. CASE Generator!Send(Fifo!ReadData)
  <2>1. /\ k \in 1 .. 10 /\ k' = (IF k = 10 THEN 0 ELSE k + 1)
        /\ frame_order' = frame_order
        /\ frame_fields' =
             IF k < 6 THEN frame_fields
             ELSE frame_fields \cup {[kind |-> Fifo!ReadData.kind, order |-> Fifo!ReadData.order,
                                      ok |-> Fifo!ReadData.ok]}
    BY <1>1, <1>7 DEF Generator!Send, Generator!FINAL_FRAME_BEAT, Generator!FirstPayloadBeat
  <2> DEFINE own == [kind |-> "DECISION", order |-> frame_order, ok |-> fifo[1].ok]
  <2>2. k >= 6 => /\ fifo # << >> /\ fifo[1].ok \in BOOLEAN /\ Fifo!DecisionValid
                  /\ [kind |-> Fifo!ReadData.kind, order |-> Fifo!ReadData.order,
                      ok |-> Fifo!ReadData.ok] = own
    <3> SUFFICES ASSUME k >= 6
                 PROVE  /\ fifo # << >> /\ fifo[1].ok \in BOOLEAN /\ Fifo!DecisionValid
                        /\ [kind |-> Fifo!ReadData.kind, order |-> Fifo!ReadData.order,
                            ok |-> Fifo!ReadData.ok] = own
      OBVIOUS
    <3>1. /\ fifo # << >> /\ Fifo!DecisionValid /\ Fifo!ReadData = fifo[1]
          /\ fifo[1].kind = "DECISION" /\ fifo[1].order = Len(sent) + 1 /\ fifo[1] \in Events
      BY HeadOfFifo
    <3>2. fifo[1].ok \in BOOLEAN
      BY <3>1 DEF Events
    <3>3. frame_order = Len(sent) + 1
      BY <1>1, <2>1
    <3> QED BY <3>1, <3>2, <3>3
  <2>3. frame_fields' = IF k < 6 THEN {} ELSE {own}
    <3>1. CASE k < 6
      BY <1>1, <2>1, <3>1
    <3>2. CASE k >= 6
      <4>1. frame_fields' = frame_fields \cup {own}
        BY <2>1, <2>2, <3>2
      <4>2. frame_fields = {} \/ frame_fields = {own}
        BY <1>1, <2>1
      <4> QED BY <2>1, <3>2, <4>1, <4>2
    <3> QED BY <2>1, <3>1, <3>2
  <2> HIDE DEF own
  <2>4. CASE k # 10
    <3>1. k' = k + 1 /\ k' \in 1 .. 10 /\ sent' = sent /\ ~Read
      BY <1>3, <1>4, <2>1, <2>4
    <3>2. Reads' = Reads
      BY <2>1, <3>1 DEF Reads
    <3>3. Holds(fifo', Reads', Writes') /\ InTime(fifo', deciding')
      BY <1>2, <3>1, <3>2, FifoAfter
    <3>4. Due(fifo', k', deciding')
      <4>1. k \in Nat /\ Due(s, k, deciding' + 1) /\ fifo' = Fifo!Aged(s)
        BY <1>2, <2>1, <3>1
      <4>2. Due(fifo', k + 1, deciding')
        BY <1>2, <4>1, AgedDue
      <4> QED BY <3>1, <4>2
    <3>5. k >= 6 => fifo'[1].ok = fifo[1].ok
      BY <1>2, <2>2, <3>1, FifoAfter
    <3>6. frame_fields' =
            IF k' <= 6 THEN {}
            ELSE {[kind |-> "DECISION", order |-> frame_order', ok |-> fifo'[1].ok]}
      BY <2>1, <2>3, <3>1, <3>5 DEF own
    <3>7. FrameInv'
      <4>1. frame_order' = Len(sent') + 1
        BY <1>1, <2>1, <3>1
      <4> QED BY <3>4, <3>6, <4>1 DEF FrameInv
    <3>8. AnswersInOrder'
      BY <1>1, <3>1 DEF AnswersInOrder
    <3> QED BY <1>1, <1>2, <3>1, <3>3, <3>7, <3>8
         DEF AnswerInv, Generator!TypeOK, Generator!FINAL_FRAME_BEAT
  <2>5. CASE k = 10
    <3>1. /\ k' = 0 /\ Read /\ fifo' = Fifo!Aged(Tail(s)) /\ s # << >>
          /\ frame_fields' = {own} /\ frame_order = Len(sent) + 1
      BY <1>1, <1>2, <1>4, <2>1, <2>2, <2>3, <2>5
    <3> DEFINE frame == [order |-> frame_order, fields |-> {own}]
    <3>2. frame \in SentFrames
      BY <1>1, <2>2, <2>5, <3>1 DEF SentFrames, own
    <3>3. frame.order = Len(sent) + 1
          /\ \E ok \in BOOLEAN :
               frame.fields = {[kind |-> "DECISION", order |-> Len(sent) + 1, ok |-> ok]}
      BY <2>2, <2>5, <3>1 DEF own
    <3> HIDE DEF frame
    <3>4. sent' = Append(sent, frame)
      BY <1>3, <2>5, <3>1 DEF frame
    <3>5. /\ sent' \in Seq(SentFrames) /\ Len(sent') = Len(sent) + 1
          /\ \A i \in 1 .. Len(sent) : sent'[i] = sent[i]
          /\ sent'[Len(sent) + 1] = frame
      BY <1>1, <3>2, <3>4, AppendProperties
    <3>6. Reads' = Reads + 1
      BY <1>1, <2>5, <3>1, <3>5 DEF Reads
    <3>7. Holds(fifo', Reads', Writes') /\ InTime(fifo', deciding')
      <4>1. /\ Holds(Tail(s), Reads + 1, Writes') /\ Len(s) \in Nat \ {0}
            /\ Len(Tail(s)) = Len(s) - 1
            /\ \A i \in 1 .. Len(Tail(s)) : Tail(s)[i] = s[i + 1]
        BY <1>2, <3>1, TailHolds
      <4>2. InTime(Tail(s), deciding' + 1)
        BY <1>2, <4>1, TailInTime
      <4>3. Reads + 1 \in Nat
        BY <1>2
      <4> QED BY <1>2, <3>1, <3>6, <4>1, <4>2, <4>3, FifoAfter
    <3>8. AnswersInOrder'
      <4> SUFFICES ASSUME NEW i \in 1 .. Len(sent')
                   PROVE  /\ sent'[i].order = i
                          /\ \E ok \in BOOLEAN :
                               sent'[i].fields = {[kind |-> "DECISION", order |-> i, ok |-> ok]}
        BY <3>5, LenProperties DEF AnswersInOrder
      <4>1. CASE i = Len(sent) + 1
        BY <3>3, <3>5, <4>1
      <4>2. CASE i # Len(sent) + 1
        <5>1. i \in 1 .. Len(sent) /\ DOMAIN sent = 1 .. Len(sent)
          BY <1>1, <3>5, <4>2, LenProperties
        <5> QED BY <1>1, <3>5, <5>1 DEF AnswersInOrder
      <4> QED BY <4>1, <4>2
    <3> QED BY <1>2, <3>1, <3>5, <3>7, <3>8
         DEF AnswerInv, FrameInv, Generator!TypeOK, Generator!FINAL_FRAME_BEAT
  <2> QED BY <2>4, <2>5
<1> QED BY <1>3, <1>5, <1>6, <1>7 DEF Generator!Clock

-----------------------------------------------------------------------------
LEMMA InitLine == Init => LineInv
<1> SUFFICES ASSUME Init PROVE LineInv
  OBVIOUS
<1>1. /\ frame_beat_index = 0 /\ frame_active = FALSE /\ buffered_blocks = << >>
      /\ gearbox_sequence \in 0 .. PauseSequence /\ inter_frame_gap_pending = FALSE
      /\ line = "idle" /\ idle_run = 2
  BY DEF Init, Generator!Init, PcsTx!Init
<1>2. buffered_blocks \in Seq(Blocks) /\ Len(buffered_blocks) = 0
  BY <1>1, EmptySeq
<1>3. Generator!TypeOK /\ PcsTx!TypeOK
  <2>1. Generator!TypeOK
    BY <1>1 DEF Generator!TypeOK, Generator!FINAL_FRAME_BEAT
  <2>2. Len(buffered_blocks) <= 2
    BY <1>2
  <2> QED BY <1>1, <1>2, <2>1, <2>2 DEF PcsTx!TypeOK, Blocks
<1>4. FrameInStep
  BY <1>1 DEF FrameInStep
<1>5. BufferContinuesLine
  BY <1>1, <1>2 DEF BufferContinuesLine
<1>6. GapIsCounted
  BY <1>1 DEF GapIsCounted
<1> QED BY <1>3, <1>4, <1>5, <1>6 DEF LineInv

LEMMA NextLine == LineInv /\ [Next]_vars => LineInv' /\ (LineStep \/ UNCHANGED vars)
<1> SUFFICES ASSUME LineInv, [Next]_vars PROVE LineInv' /\ (LineStep \/ UNCHANGED vars)
  OBVIOUS
<1>1. CASE Next
  <2>1. Transmit
    BY <1>1 DEF Next, OrderCycle, QuietCycle, Cycle
  <2> QED BY <2>1, TransmitInv
<1>2. CASE UNCHANGED vars
  BY <1>2 DEF vars, LineInv, Generator!vars, PcsTx!vars, Generator!TypeOK, PcsTx!TypeOK,
              FrameInStep, BufferContinuesLine, GapIsCounted
<1> QED BY <1>1, <1>2

LEMMA InitAnswers == Init => AnswerInv
<1> SUFFICES ASSUME Init PROVE AnswerInv
  OBVIOUS
<1>1. /\ frame_beat_index = 0 /\ fifo = << >> /\ sent = << >>
      /\ wire_bytes = OrderWireBytes /\ orders = 0 /\ deciding = 0
  BY DEF Init, Generator!Init, Fifo!Init
<1>2. /\ fifo \in Seq(Events) /\ Len(fifo) = 0 /\ sent \in Seq(SentFrames) /\ Len(sent) = 0
  BY <1>1, EmptySeq
<1>3. Generator!TypeOK /\ ReceiveInv
  BY <1>1, ResponseAssumption DEF Generator!TypeOK, Generator!FINAL_FRAME_BEAT, ReceiveInv
<1>4. Reads = 0 /\ Writes = 0
  BY <1>1, <1>2 DEF Reads, Writes
<1>5. Holds(fifo, Reads, Writes) /\ InTime(fifo, deciding)
  BY <1>2, <1>4 DEF Holds, InTime
<1>6. FrameInv
  BY <1>1 DEF FrameInv
<1>7. AnswersInOrder
  BY <1>1 DEF AnswersInOrder
<1> QED BY <1>2, <1>3, <1>5, <1>6, <1>7 DEF AnswerInv

LEMMA NextAnswers == AnswerInv /\ RoomInFifo /\ [Next]_vars => AnswerInv'
<1> SUFFICES ASSUME AnswerInv, RoomInFifo, [Next]_vars PROVE AnswerInv'
  OBVIOUS
<1>1. CASE OrderCycle
  <2>1. PICK ok \in BOOLEAN : Cycle(DecodeOrder, TRUE, EventWith(ok))
    BY <1>1 DEF OrderCycle
  <2>2. DecodeOrder /\ Fifo!Clock(TRUE, EventWith(ok), Read) /\ Transmit
    BY <2>1 DEF Cycle
  <2>3. PICK s \in Fifo!Written(TRUE, EventWith(ok)) :
          fifo' = Fifo!Aged(IF Read THEN Tail(s) ELSE s)
    BY <2>2 DEF Fifo!Clock
  <2> QED BY <2>2, <2>3, OrderReceived, FrameStep
<1>2. CASE QuietCycle
  <2>1. PICK ok \in BOOLEAN : Cycle(NoOrder, Decided, EventWith(ok))
    BY <1>2 DEF QuietCycle
  <2>2. NoOrder /\ Fifo!Clock(Decided, EventWith(ok), Read) /\ Transmit
    BY <2>1 DEF Cycle
  <2>3. PICK s \in Fifo!Written(Decided, EventWith(ok)) :
          fifo' = Fifo!Aged(IF Read THEN Tail(s) ELSE s)
    BY <2>2 DEF Fifo!Clock
  <2>4. CASE deciding = 1
    <3>1. s \in Fifo!Written(TRUE, EventWith(ok))
      BY <2>3, <2>4 DEF Decided
    <3> QED BY <2>2, <2>3, <2>4, <3>1, DecisionReceived, FrameStep
  <2>5. CASE deciding # 1
    <3>1. s = fifo
      BY <2>3, <2>5 DEF Decided, Fifo!Written
    <3> QED BY <2>2, <2>3, <2>5, <3>1, QuietReceived, FrameStep
  <2> QED BY <2>4, <2>5
<1>3. CASE UNCHANGED vars
  <2>1. UNCHANGED << fifo, frame_beat_index, frame_order, frame_fields,
                     wire_bytes, orders, deciding, sent >>
    BY <1>3 DEF vars, Fifo!vars, Generator!vars, receive
  <2> QED BY <2>1 DEF AnswerInv, Generator!TypeOK, ReceiveInv, Reads, Writes, FrameInv,
                      AnswersInOrder
<1> QED BY <1>1, <1>2, <1>3 DEF Next

LEMMA InvariantAnswers == AnswerInv => PayloadIsOwnDecision /\ AnswersInOrder
<1> SUFFICES ASSUME AnswerInv, frame_beat_index >= 6
             PROVE  Fifo!DecisionValid /\ Fifo!ReadData.order = frame_order
  BY DEF AnswerInv, PayloadIsOwnDecision, Generator!FirstPayloadBeat
<1>1. Fifo!DecisionValid /\ Fifo!ReadData.order = Len(sent) + 1 /\ frame_beat_index # 0
  BY HeadOfFifo
<1> QED BY <1>1 DEF AnswerInv, FrameInv

(* A full FIFO takes nothing.                                              *)
FifoInv ==
  /\ fifo \in Seq(Events) /\ Len(fifo) <= FifoDepth
  /\ orders \in 0 .. OrderLimit

LEMMA InitFifo == Init => FifoInv
<1> SUFFICES ASSUME Init PROVE FifoInv
  OBVIOUS
<1>1. fifo = << >> /\ orders = 0
  BY DEF Init, Fifo!Init
<1>2. fifo \in Seq(Events) /\ Len(fifo) = 0
  BY <1>1, EmptySeq
<1>3. \A n \in Nat : 0 <= n /\ 0 \in 0 .. n
  OBVIOUS
<1> QED BY <1>1, <1>2, <1>3, ResponseAssumption DEF FifoInv

LEMMA FifoClock ==
  ASSUME FifoInv, NEW write \in BOOLEAN, NEW ok \in BOOLEAN, Fifo!Clock(write, EventWith(ok), Read)
  PROVE  fifo' \in Seq(Events) /\ Len(fifo') <= FifoDepth
<1>1. PICK s \in Fifo!Written(write, EventWith(ok)) :
        fifo' = Fifo!Aged(IF Read THEN Tail(s) ELSE s)
  BY DEF Fifo!Clock
<1>2. /\ fifo \in Seq(Events) /\ Len(fifo) <= FifoDepth /\ Len(fifo) \in Nat
      /\ orders \in Nat /\ FifoDepth \in Nat
  BY ResponseAssumption, LenProperties DEF FifoInv
<1>3. /\ s \in Seq(Events) /\ Len(s) <= FifoDepth /\ Len(s) \in Nat
      /\ fifo # << >> => s # << >>
  <2>1. CASE s = fifo
    BY <1>2, <2>1
  <2>2. CASE s # fifo
    <3>1. write /\ ~(Len(fifo) >= FifoDepth)
      BY <1>1, <2>2 DEF Fifo!Written, Fifo!Full
    <3>2. PICK d \in SyncDelays :
            s = Append(fifo, [kind |-> EventWith(ok).kind, order |-> EventWith(ok).order,
                              ok |-> EventWith(ok).ok, wait |-> d])
      BY <1>1, <2>2, <3>1 DEF Fifo!Written, Fifo!Full
    <3> DEFINE e == [kind |-> EventWith(ok).kind, order |-> EventWith(ok).order,
                     ok |-> EventWith(ok).ok, wait |-> d]
    <3>3. e \in Events
      BY <1>2, ResponseAssumption DEF EventWith, Events
    <3> HIDE DEF e
    <3>4. s \in Seq(Events) /\ Len(s) = Len(fifo) + 1 /\ s # << >>
      BY <1>2, <3>2, <3>3, AppendProperties DEF e
    <3>5. \A l, m, n \in Nat : ~(l >= n) => l + 1 <= n /\ l + 1 \in Nat
      OBVIOUS
    <3> QED BY <1>2, <3>1, <3>4, <3>5
  <2> QED BY <2>1, <2>2
<1>4. Read => fifo # << >>
  BY DEF Read, Generator!StartEventAccepted, Generator!DecisionReady, Fifo!ResponseStartValid,
         Fifo!DecisionValid, Fifo!ReadData, Fifo!NoEvent
<1>5. CASE ~Read
  BY <1>1, <1>3, <1>5, AgedEntries
<1>6. CASE Read
  <2>1. Tail(s) \in Seq(Events) /\ Len(Tail(s)) = Len(s) - 1
    BY <1>3, <1>4, <1>6, HeadTailProperties
  <2>2. \A l, n \in Nat : l <= n => l - 1 <= n
    OBVIOUS
  <2>3. Len(Tail(s)) <= FifoDepth
    BY <1>2, <1>3, <2>1, <2>2
  <2> QED BY <1>1, <1>6, <2>1, <2>3, AgedEntries
<1> QED BY <1>5, <1>6

LEMMA NextFifo == FifoInv /\ [Next]_vars => FifoInv'
<1> SUFFICES ASSUME FifoInv, [Next]_vars PROVE FifoInv'
  OBVIOUS
<1>1. CASE OrderCycle
  <2>1. PICK ok \in BOOLEAN : Cycle(DecodeOrder, TRUE, EventWith(ok))
    BY <1>1 DEF OrderCycle
  <2>2. DecodeOrder /\ Fifo!Clock(TRUE, EventWith(ok), Read)
    BY <2>1 DEF Cycle
  <2>3. orders' \in 0 .. OrderLimit
    BY <2>2, ResponseAssumption DEF DecodeOrder, FifoInv
  <2> QED BY <2>2, <2>3, FifoClock DEF FifoInv
<1>2. CASE QuietCycle
  <2>1. PICK ok \in BOOLEAN : Cycle(NoOrder, Decided, EventWith(ok))
    BY <1>2 DEF QuietCycle
  <2>2. NoOrder /\ Fifo!Clock(Decided, EventWith(ok), Read)
    BY <2>1 DEF Cycle
  <2>3. orders' = orders /\ Decided \in BOOLEAN
    BY <2>2 DEF NoOrder, Decided
  <2> QED BY <2>2, <2>3, FifoClock DEF FifoInv
<1>3. CASE UNCHANGED vars
  BY <1>3 DEF vars, Fifo!vars, receive, FifoInv
<1> QED BY <1>1, <1>2, <1>3 DEF Next

-----------------------------------------------------------------------------
(***************************************************************************)
(* Whole frames leave on the line, and a gap behind each                   *)
(* (pcs_tx_channel.sv).                                                    *)
(***************************************************************************)
THEOREM LineCorrect == Spec => LineWellFormed
<1>1. LineStep \/ UNCHANGED vars =>
        [PcsTx!AdvanceTransmitBlock =>
           CASE line = "idle"  -> line' = "idle" \/ (line' = "start" /\ idle_run = 2)
             [] line = "start" -> line' = "data"
             [] line = "data"  -> line' \in {"data", "end"}
             [] line = "end"   -> line' = "idle"]_vars
  BY DEF LineStep
<1> QED BY <1>1, InitLine, NextLine, PTL DEF Spec, LineWellFormed

(***************************************************************************)
(* The registers keep their ranges: two buffer entries are enough, because *)
(* a frame meets at most one pause of the gearbox.                         *)
(***************************************************************************)
THEOREM TypeCorrect == Spec => []TypeOK
<1>1. LineInv /\ FifoInv => TypeOK
  BY DEF LineInv, FifoInv, TypeOK
<1> QED BY <1>1, InitLine, NextLine, InitFifo, NextFifo, PTL DEF Spec

(***************************************************************************)
(* As long as no event is lost to a full FIFO, every frame carries the     *)
(* decision of its own order, and the frames answer the orders in order    *)
(* (order_decision_frame_generator.sv, rx_to_tx_cdc_fifo.sv).              *)
(***************************************************************************)
THEOREM AnswersCorrect ==
  Spec /\ []RoomInFifo => []PayloadIsOwnDecision /\ []AnswersInOrder
<1>1. AnswerInv => PayloadIsOwnDecision /\ AnswersInOrder
  BY InvariantAnswers
<1> QED BY <1>1, InitAnswers, NextAnswers, PTL DEF Spec

(* A burst that the FIFO can hold as a whole does not fill it.             *)
ShortBursts == 2 * OrderLimit < FifoDepth

LEMMA ShortBurstsFit == ShortBursts /\ AnswerInv => RoomInFifo
<1> SUFFICES ASSUME ShortBursts, AnswerInv PROVE RoomInFifo
  OBVIOUS
<1>1. /\ Reads \in Nat /\ Writes \in Nat /\ Len(fifo) = Writes - Reads
      /\ orders \in 0 .. OrderLimit /\ OrderLimit \in Nat /\ FifoDepth \in Nat
  BY Counts, ResponseAssumption DEF AnswerInv, ReceiveInv
<1>2. Writes <= 2 * OrderLimit
  BY <1>1 DEF Writes
<1>3. \A l, r, w, b, n \in Int : l = w - r /\ r >= 0 /\ w <= b /\ b < n => ~(l >= n)
  OBVIOUS
<1>4. 2 * OrderLimit \in Int /\ Len(fifo) \in Int /\ Reads >= 0
  BY <1>1
<1> QED BY <1>1, <1>2, <1>3, <1>4 DEF ShortBursts, RoomInFifo, Fifo!Full

(***************************************************************************)
(* The same without the condition, for as many orders as the FIFO has room *)
(* for at once: seven in the RTL.                                          *)
(***************************************************************************)
THEOREM BurstsAnswered ==
  ASSUME ShortBursts
  PROVE  Spec => []PayloadIsOwnDecision /\ []AnswersInOrder
<1>1. AnswerInv => RoomInFifo
  BY ShortBurstsFit
<1>2. AnswerInv /\ [Next]_vars => AnswerInv'
  BY <1>1, NextAnswers
<1>3. AnswerInv => PayloadIsOwnDecision /\ AnswersInOrder
  BY InvariantAnswers
<1> QED BY <1>2, <1>3, InitAnswers, PTL DEF Spec
=============================================================================
