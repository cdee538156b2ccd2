---------------------------- MODULE RxPath_proofs ----------------------------
(***************************************************************************)
(* What the receive path does for every number of frames and messages and  *)
(* every length of the gaps: the front end keeps the contract of the       *)
(* packet controller, a committed packet is an intact frame of the host,   *)
(* an accepted order is committed, its response is not stomped (with one   *)
(* pause at a time), and an undisturbed line loses nothing. The invariants *)
(* stand on one another: TheLine (the front end), PacketInv (the packet    *)
(* and its verdict), SyncInv (the frame on the wire), OrdersInv (numbers   *)
(* and decisions), then StompInv and CleanInv, each for one property.      *)
(***************************************************************************)
EXTENDS RxPath, SequenceTheorems, TLAPS

(* The theorems about the guard, which hold of every front end that keeps  *)
(* its contract.                                                           *)
G == INSTANCE PacketGuard_proofs

(* A strobe as a number.                                                   *)
One(strobe) == IF strobe THEN 1 ELSE 0

(* Payload words of the frame that the assembler has not taken yet.        *)
Coming == payload_words_remaining + One(udp_payload_valid)

(* Where the parser is in the frame.                                       *)
FirstHeaderBeat == state = "HEADER" /\ header_bytes_discarded <= 7
LaterHeaderBeat == state = "HEADER" /\ header_bytes_discarded > 7
BeforePayload   == state = "PAYLOAD" /\ ~payload_started

(* Ranges of the registers of the block decoder and the parser.            *)
ParserTypes ==
  /\ inside_frame \in BOOLEAN
  /\ state \in {"IDLE", "HEADER", "PAYLOAD", "DRAIN"}
  /\ payload_alignment \in {"START_0", "START_4"}
  /\ header_bytes_discarded \in Nat /\ payload_started \in BOOLEAN
  /\ payload_words_remaining \in Nat /\ udp_length_invalid \in BOOLEAN
  /\ udp_payload_start \in BOOLEAN /\ udp_payload_end \in BOOLEAN
  /\ udp_payload_valid \in BOOLEAN /\ udp_packet_abort \in BOOLEAN

(* Ranges of the registers behind the parser.                              *)
StageTypes ==
  /\ word_index \in 0 .. 3 /\ current_message_is_packet_start \in BOOLEAN
  /\ decoded_valid \in BOOLEAN /\ decoded_packet_start \in BOOLEAN
  /\ decoded_packet_end \in BOOLEAN /\ decoded_packet_abort \in BOOLEAN
  /\ frame_pipe.valid \in BOOLEAN /\ frame_pipe.end \in BOOLEAN
  /\ fcs_result_valid \in BOOLEAN /\ fcs_ok \in BOOLEAN

(* What the state of the parser says of its counters.                      *)
FrameState ==
  /\ state = "IDLE" <=> ~inside_frame
  /\ state = "IDLE" => ~payload_started /\ payload_words_remaining = 0
  /\ state = "HEADER" =>
       /\ ~payload_started
       /\ \/ /\ payload_alignment = "START_0"
             /\ header_bytes_discarded \in {7, 15, 23, 31, 39, 47}
          \/ /\ payload_alignment = "START_4"
             /\ header_bytes_discarded \in {3, 11, 19, 27, 35, 43}
       /\ IF header_bytes_discarded < 47
            THEN payload_words_remaining = 0 /\ ~udp_length_invalid
            ELSE /\ payload_words_remaining \in Udp!UdpLengths
                 /\ udp_length_invalid <=> payload_words_remaining = 0
  /\ state = "PAYLOAD" =>
       /\ udp_length_invalid <=> payload_words_remaining = 0
       /\ payload_started => ~udp_length_invalid
       /\ ~payload_started => payload_words_remaining \in Udp!UdpLengths
  /\ state = "DRAIN" =>
       /\ payload_words_remaining = 0
       /\ payload_started => payload_alignment = "START_4"

(* Which strobes of the parser and the FCS checker may be up, and where    *)
(* the parser then is.                                                     *)
StrobeState ==
  /\ udp_payload_start \/ udp_payload_end => udp_payload_valid
  /\ udp_payload_valid => ~udp_packet_abort
  /\ udp_packet_abort => ~payload_started
  /\ udp_payload_start => ~udp_payload_end /\ payload_started
  /\ udp_payload_valid =>
       /\ udp_payload_end <=> payload_words_remaining = 0
       /\ ~payload_started => state = "IDLE" /\ frame_pipe.end
  /\ state = "HEADER" \/ BeforePayload => ~udp_payload_valid /\ ~udp_packet_abort
  /\ frame_pipe.end => frame_pipe.valid /\ state = "IDLE"
  /\ fcs_result_valid => /\ ~udp_payload_valid /\ ~udp_packet_abort
                         /\ state = "IDLE" \/ FirstHeaderBeat

(* The assembler is at a message boundary whenever a payload ends or       *)
(* begins.                                                                 *)
WordState ==
  /\ payload_started \/ udp_payload_valid => (word_index + Coming) % 4 = 0
  /\ ~payload_started /\ ~udp_payload_valid /\ ~udp_packet_abort => word_index = 0
  /\ udp_payload_start => word_index = 0
  /\ current_message_is_packet_start => word_index # 0
  /\ decoded_valid => word_index = 0
  /\ LaterHeaderBeat \/ BeforePayload => ~decoded_valid /\ ~decoded_packet_abort

(* Ranges of the host and the wire.                                        *)
WireTypes ==
  /\ wire \in [position: Nat, start: {"start_0", "start_4"},
               messages: 0 .. MaxMessages, idle_seen: BOOLEAN]
  /\ gaps \in 0 .. MaxGaps /\ damaged \in BOOLEAN
  /\ sender_next \in Nat /\ arriving_next \in Nat
  /\ frames_left \in 0 .. FrameLimit

(* The numbers of a behaviour stay below SeqModulus.  A damaged frame may  *)
(* carry one message more than the host put into it.                       *)
NumberState ==
  /\ payload_started \/ udp_payload_valid =>
       4 * arriving_next + word_index + Coming <= 4 * (sender_next + MaxMessages)
  /\ state = "HEADER" \/ BeforePayload => arriving_next <= sender_next
  /\ arriving_next <= sender_next + MaxMessages
  /\ sender_next <= 1 + (FrameLimit - frames_left) * MaxMessages
  /\ decoded_valid => decoded.sequence_number \in 0 .. SeqModulus - 2

(* The invariant of the registers of the front end.                        *)
LineInv == ParserTypes /\ StageTypes /\ FrameState /\ StrobeState /\ WordState

(* One RX clock edge, with the choices of Next named.                      *)
Cycle(b, words, m, residue_ok, lookup) ==
  /\ b \in Pcs!Block /\ words \in Lengths /\ m \in Messages
  /\ Gap(b) \/ IdleLine(b) \/ StartFrame(b) \/ SendBlock(b)
  /\ WireDamage(b, words, m)
  /\ residue_ok \in Residues(b, words, m)
  /\ lookup \in {Tradable, Cleared}
  /\ Components(b, words, m, residue_ok, lookup)

(* Every step of Next is one clock edge.                                   *)
LEMMA NextIsCycle ==
  ASSUME Next
  PROVE  \E b, words, m, residue_ok, lookup : Cycle(b, words, m, residue_ok, lookup)
<1>1. PICK b \in Pcs!Block :
        /\ Gap(b) \/ IdleLine(b) \/ StartFrame(b) \/ SendBlock(b)
        /\ \E words \in Lengths, m \in Messages :
             /\ WireDamage(b, words, m)
             /\ \E residue_ok \in Residues(b, words, m),
                   lookup \in IF lookup_valid THEN {Tradable, Cleared} ELSE {Cleared} :
                  Components(b, words, m, residue_ok, lookup)
  BY Zenon DEF Next
<1>2. PICK words \in Lengths, m \in Messages :
        /\ WireDamage(b, words, m)
        /\ \E residue_ok \in Residues(b, words, m),
              lookup \in IF lookup_valid THEN {Tradable, Cleared} ELSE {Cleared} :
             Components(b, words, m, residue_ok, lookup)
  BY <1>1, Zenon
<1>3. PICK residue_ok \in Residues(b, words, m),
           lookup \in IF lookup_valid THEN {Tradable, Cleared} ELSE {Cleared} :
        Components(b, words, m, residue_ok, lookup)
  BY <1>2, Zenon
<1>4. lookup \in {Tradable, Cleared}
  OBVIOUS
<1>5. Cycle(b, words, m, residue_ok, lookup)
  BY <1>1, <1>2, <1>3, <1>4, Zenon DEF Cycle
<1> QED BY <1>5

(* What the block decoder promises of its beat f: a frame starts outside a *)
(* frame and ends or aborts inside one.                                    *)
BeatFits(f) ==
  /\ f.valid \in BOOLEAN /\ f.start \in BOOLEAN /\ f.end \in BOOLEAN
  /\ f.abort \in BOOLEAN /\ f.keep \in Nat
  /\ f.start => f.valid /\ ~inside_frame /\ ~f.end
  /\ f.end => f.valid /\ inside_frame
  /\ f.abort => inside_frame /\ ~f.valid
  /\ f.valid => f.start \/ inside_frame
  /\ inside_frame' \in BOOLEAN
  /\ inside_frame' <=> f.start \/ (inside_frame /\ ~f.end /\ ~f.abort)

(* The beats of pcs_rx_block_decoder.sv are like that.                     *)
LEMMA BeatShape ==
  ASSUME inside_frame \in BOOLEAN, NEW b \in Pcs!Block, Pcs!Clock(b)
  PROVE  BeatFits(Pcs!Beat(b))
<1>1. b.kind \in Pcs!Kinds /\ b.bytes \in Nat
  BY DEF Pcs!Block, Pcs!Kinds
<1>2. Pcs!Keep(b) \in Nat
  BY <1>1 DEF Pcs!Keep
<1> DEFINE start == Pcs!FrameStart(b)
           end   == Pcs!FrameEnd(b)
           abort == Pcs!FrameAbort(b)
           data  == inside_frame /\ b.kind = "data"
<1>3. /\ start => ~inside_frame /\ ~end /\ ~data
      /\ end => inside_frame /\ ~data
      /\ abort => inside_frame /\ ~end /\ ~start /\ ~data
      /\ data => inside_frame
  BY <1>1 DEF Pcs!FrameStart, Pcs!FrameEnd, Pcs!FrameAbort, Pcs!BadBlock,
     Pcs!SequenceError
<1>4. /\ inside_frame' \in BOOLEAN
      /\ inside_frame' <=> start \/ (inside_frame /\ ~end /\ ~abort)
  <2>1. CASE Pcs!OpenFrame(b)
    BY <1>3, <2>1 DEF Pcs!OpenFrame
  <2>2. CASE Pcs!CloseFrame(b)
    BY <1>3, <2>2 DEF Pcs!CloseFrame
  <2>3. CASE Pcs!KeepFrame(b)
    BY <2>3 DEF Pcs!KeepFrame
  <2> QED BY <2>1, <2>2, <2>3 DEF Pcs!Clock
<1>5. start \in BOOLEAN /\ end \in BOOLEAN /\ abort \in BOOLEAN /\ data \in BOOLEAN
  BY DEF Pcs!FrameStart, Pcs!FrameEnd, Pcs!FrameAbort
<1> DEFINE f == Pcs!Beat(b)
<1>6. /\ f.valid = (start \/ end \/ data) /\ f.start = start /\ f.end = end
      /\ f.abort = abort /\ f.keep \in Nat
  BY <1>2 DEF Pcs!Beat
<1> QED
  BY <1>3, <1>4, <1>5, <1>6 DEF BeatFits

(* The constants as numbers, without the product of ConstantsAssumption.   *)
LEMMA Sizes == MaxMessages \in Nat /\ MaxMessages > 0 /\ FrameLimit \in Nat
BY ConstantsAssumption

(* A length that the parser takes from the UDP header is whole messages,   *)
(* at most MaxMessages, or zero when it is invalid.                        *)
LEMMA LengthShape ==
  ASSUME NEW words \in Udp!UdpLengths
  PROVE  words \in Nat /\ words # 1 /\ words % 4 = 0 /\ words <= 4 * MaxMessages
BY ConstantsAssumption DEF Udp!UdpLengths, Udp!WordsPerMessage, Udp!InvalidLength

(* A clock edge of the parser and the FCS checker keeps their ranges,      *)
(* counters and strobes, whatever the block.                               *)
LEMMA ParserStep ==
  ASSUME LineInv, NEW f, BeatFits(f), NEW words \in Udp!UdpLengths,
         Udp!Clock(f, words), NEW residue_ok \in BOOLEAN, Fcs!Clock(f, residue_ok)
  PROVE  ParserTypes' /\ FrameState' /\ StrobeState'
<1> USE DEF LineInv, ParserTypes, StageTypes, FrameState, StrobeState, BeatFits,
            BeforePayload, FirstHeaderBeat, Fcs!Clock,
            Udp!EmitNothing, Udp!EmitWord
<1>0. words \in Nat
  BY LengthShape
<1>1. CASE Udp!Abort(f)
  BY <1>1 DEF Udp!Abort
<1>2. CASE Udp!Wait(f)
  BY <1>2 DEF Udp!Wait
<1>3. CASE Udp!StartFrame(f)
  <2>1. ParserTypes'
    BY <1>3 DEF Udp!StartFrame
  <2>2. FrameState' /\ StrobeState'
    BY <1>3 DEF Udp!StartFrame
  <2> QED BY <2>1, <2>2
<1>4. CASE Udp!RejectHeader(f)
  BY <1>4 DEF Udp!RejectHeader, Udp!FullBeat
<1>5. CASE Udp!SkipHeader(f, words)
  <2>1. StrobeState'
    BY <1>5 DEF Udp!SkipHeader, Udp!FullBeat
  <2>2. /\ state = "HEADER" /\ inside_frame' /\ ~payload_started'
        /\ payload_alignment' = payload_alignment
        /\ IF header_bytes_discarded \in {43, 47}
             THEN state' = "PAYLOAD"
             ELSE /\ state' = "HEADER"
                  /\ header_bytes_discarded' = header_bytes_discarded + 8
    BY <1>5 DEF Udp!SkipHeader, Udp!FullBeat
  <2>3. IF Udp!UdpLengthPresent
          THEN /\ payload_words_remaining' = words
               /\ udp_length_invalid' <=> words = 0
          ELSE /\ payload_words_remaining' = payload_words_remaining
               /\ udp_length_invalid' <=> udp_length_invalid
    BY <1>5 DEF Udp!SkipHeader, Udp!InvalidLength
  <2>4. ParserTypes'
    <3>1. payload_words_remaining' \in Nat /\ udp_length_invalid' \in BOOLEAN
      BY <1>0, <2>2, <1>5 DEF Udp!SkipHeader
    <3>2. header_bytes_discarded' \in Nat /\ state' \in {"HEADER", "PAYLOAD"}
      BY <1>5 DEF Udp!SkipHeader
    <3> QED BY <1>5, <2>2, <3>1, <3>2 DEF Udp!SkipHeader
  <2>5. FrameState'
    BY <2>2, <2>3 DEF Udp!UdpLengthPresent
  <2> QED BY <2>1, <2>4, <2>5
<1>6. CASE Udp!RejectPayload(f)
  BY <1>6 DEF Udp!RejectPayload, Udp!BadPayload, Udp!FullBeat, Udp!FinalPayloadInput
<1>7. CASE Udp!NextWord(f)
  <2>1. ParserTypes'
    <3>1. payload_words_remaining' \in Nat
      BY <1>7 DEF Udp!NextWord, Udp!BadPayload
    <3>2. /\ udp_payload_start' \in BOOLEAN /\ udp_payload_end' \in BOOLEAN
          /\ udp_payload_valid' \in BOOLEAN /\ udp_packet_abort' \in BOOLEAN
          /\ payload_started' \in BOOLEAN
      BY <1>7 DEF Udp!NextWord
    <3> QED BY <1>7, <3>1, <3>2 DEF Udp!NextWord
  <2>2. FrameState' /\ StrobeState'
    BY <1>7 DEF Udp!NextWord, Udp!BadPayload, Udp!FullBeat
  <2> QED BY <2>1, <2>2
<1>8. CASE Udp!LastWord(f)
  BY <1>8, LengthShape DEF Udp!LastWord, Udp!BadPayload, Udp!FullBeat, Udp!FinalPayloadInput
<1>9. CASE Udp!CheckTail(f)
  BY <1>9 DEF Udp!CheckTail
<1>10. CASE Udp!Drain(f)
  BY <1>10 DEF Udp!Drain
<1> QED
  BY <1>1, <1>2, <1>3, <1>4, <1>5, <1>6, <1>7, <1>8, <1>9, <1>10 DEF Udp!Clock

(* What one clock edge does to the word index and to the packet-start      *)
(* mark.                                                                   *)
LEMMA AssemblerStep ==
  ASSUME LineInv, Assembler!Clock(UdpStrobes)
  PROVE  /\ word_index' = IF udp_packet_abort THEN 0
                          ELSE IF ~udp_payload_valid THEN word_index
                          ELSE IF word_index = 3 THEN 0 ELSE word_index + 1
         /\ current_message_is_packet_start' \in BOOLEAN
         /\ current_message_is_packet_start' =>
              /\ ~udp_packet_abort
              /\ IF ~udp_payload_valid THEN current_message_is_packet_start
                 ELSE IF word_index = 0 THEN udp_payload_start
                 ELSE word_index # 3 /\ current_message_is_packet_start
<1> USE DEF LineInv, ParserTypes, StageTypes, UdpStrobes
<1>1. CASE Assembler!Restart(UdpStrobes)
  BY <1>1 DEF Assembler!Restart
<1>2. CASE Assembler!TakeWord(UdpStrobes)
  <2>1. CASE word_index = 0
    BY <1>2, <2>1 DEF Assembler!TakeWord
  <2>2. CASE word_index = 3
    BY <1>2, <2>2 DEF Assembler!TakeWord
  <2>3. CASE word_index = 1
    BY <1>2, <2>3 DEF Assembler!TakeWord
  <2>4. CASE word_index = 2
    BY <1>2, <2>4 DEF Assembler!TakeWord
  <2> QED BY <2>1, <2>2, <2>3, <2>4
<1>3. CASE Assembler!Hold(UdpStrobes)
  BY <1>3 DEF Assembler!Hold, Assembler!vars
<1> QED
  BY <1>1, <1>2, <1>3 DEF Assembler!Clock

(* A message is decoded, or reported as an abort, one cycle after its last *)
(* word.                                                                   *)
LEMMA DecoderStep ==
  ASSUME LineInv, NEW m, Decoder!Clock(AssemblerStrobes, m)
  PROVE  /\ decoded_valid' \in BOOLEAN /\ decoded_packet_start' \in BOOLEAN
         /\ decoded_packet_end' \in BOOLEAN /\ decoded_packet_abort' \in BOOLEAN
         /\ protocol_error' \in BOOLEAN
         /\ decoded_valid' =>
              /\ udp_payload_valid /\ word_index = 3 /\ decoded' = m
              /\ decoded_packet_start' <=> current_message_is_packet_start
              /\ decoded_packet_end' <=> udp_payload_end
         /\ decoded_packet_abort' =>
              udp_packet_abort \/ (udp_payload_valid /\ word_index = 3)
         /\ udp_packet_abort => decoded_packet_abort'
         /\ udp_payload_valid /\ word_index = 3 =>
              decoded_valid' \/ decoded_packet_abort'
<1> DEFINE a == AssemblerStrobes
<1> USE DEF LineInv, ParserTypes, StageTypes, StrobeState
<1>1. /\ a.abort <=> udp_packet_abort
      /\ a.valid <=> udp_payload_valid /\ word_index = 3
      /\ a.packet_start <=> a.valid /\ current_message_is_packet_start
      /\ a.packet_end <=> a.valid /\ udp_payload_end
      /\ a.packet_start \in BOOLEAN /\ a.packet_end \in BOOLEAN
  BY DEF AssemblerStrobes, UdpStrobes, Assembler!MessageValid,
     Assembler!MessagePacketStart, Assembler!MessagePacketEnd
<1> HIDE DEF a
<1>2. CASE Decoder!PassAbort(a)
  BY <1>1, <1>2 DEF Decoder!PassAbort, Decoder!Quiet
<1>3. CASE Decoder!Decode(a, m)
  <2>1. CASE Decoder!FormatValid(m, a.packet_end) \/ m.type = Decoder!ORDER_INTENT
    BY <1>1, <1>3, <2>1 DEF Decoder!Decode
  <2>2. CASE ~(Decoder!FormatValid(m, a.packet_end) \/ m.type = Decoder!ORDER_INTENT)
    BY <1>1, <1>3, <2>2 DEF Decoder!Decode, Decoder!Quiet
  <2> QED BY <2>1, <2>2
<1>4. CASE Decoder!NoMessage(a)
  BY <1>1, <1>4 DEF Decoder!NoMessage, Decoder!Quiet
<1> QED
  BY <1>2, <1>3, <1>4 DEF Decoder!Clock, a

(* A clock edge keeps the assembler aligned with the messages of the       *)
(* payload, also when an abort cuts a message.                             *)
LEMMA WordStep ==
  ASSUME LineInv, NEW f, BeatFits(f), NEW words \in Udp!UdpLengths,
         Udp!Clock(f, words), Assembler!Clock(UdpStrobes),
         NEW m, Decoder!Clock(AssemblerStrobes, m)
  PROVE  WordState'
<1> USE DEF LineInv, ParserTypes, StageTypes, FrameState, StrobeState, WordState,
            Coming, One, Udp!EmitNothing, Udp!EmitWord, LaterHeaderBeat, BeforePayload
<1> DEFINE next == IF udp_packet_abort THEN 0
                   ELSE IF ~udp_payload_valid THEN word_index
                   ELSE IF word_index = 3 THEN 0 ELSE word_index + 1
<1>1. /\ word_index' = next /\ next \in 0 .. 3
      /\ ~payload_started => next = 0
      /\ payload_started => (next + payload_words_remaining) % 4 = 0
  BY AssemblerStep
<1>2. decoded_valid' => next = 0
  BY DecoderStep
<1>3. current_message_is_packet_start' => next # 0
  BY AssemblerStep
<1>4. /\ ~payload_started' /\ ~udp_payload_valid' /\ ~udp_packet_abort' =>
           next = 0
      /\ payload_started' \/ udp_payload_valid' => (next + Coming') % 4 = 0
      /\ udp_payload_start' => next = 0
  <2> HIDE DEF next
  <2>1. CASE Udp!Abort(f)
    BY <1>1, <2>1 DEF Udp!Abort
  <2>2. CASE Udp!Wait(f)
    BY <1>1, <2>2 DEF Udp!Wait
  <2>3. CASE Udp!StartFrame(f)
    BY <1>1, <2>3 DEF Udp!StartFrame
  <2>4. CASE Udp!RejectHeader(f)
    BY <1>1, <2>4 DEF Udp!RejectHeader
  <2>5. CASE Udp!SkipHeader(f, words)
    BY <1>1, <2>5 DEF Udp!SkipHeader
  <2>6. CASE Udp!RejectPayload(f)
    BY <1>1, <2>6 DEF Udp!RejectPayload
  <2>7. CASE Udp!NextWord(f)
    BY <1>1, <2>7, LengthShape DEF Udp!NextWord, Udp!BadPayload
  <2>8. CASE Udp!LastWord(f)
    BY <1>1, <2>8, LengthShape DEF Udp!LastWord, Udp!BadPayload
  <2>9. CASE Udp!CheckTail(f)
    BY <1>1, <2>9 DEF Udp!CheckTail
  <2>10. CASE Udp!Drain(f)
    BY <1>1, <2>10 DEF Udp!Drain
  <2> QED
    BY <2>1, <2>2, <2>3, <2>4, <2>5, <2>6, <2>7, <2>8, <2>9, <2>10 DEF Udp!Clock
<1>5. LaterHeaderBeat' \/ BeforePayload' => ~decoded_valid' /\ ~decoded_packet_abort'
  <2>1. ASSUME LaterHeaderBeat' \/ BeforePayload'
        PROVE  ~udp_payload_valid /\ ~udp_packet_abort
    <3>1. state = "HEADER" \/ BeforePayload
      BY <2>1 DEF Udp!Clock, Udp!Abort, Udp!Wait, Udp!StartFrame,
         Udp!RejectHeader, Udp!SkipHeader, Udp!RejectPayload, Udp!NextWord,
         Udp!LastWord, Udp!CheckTail, Udp!Drain
    <3> QED BY <3>1
  <2> QED BY <2>1, DecoderStep
<1> QED
  BY <1>1, <1>2, <1>3, <1>4, <1>5

(* Whether the host begins a frame in this cycle.                          *)
Starting == wire.position = 0 /\ wire'.position = 1

(* What a clock edge does to the wire: a frame starts with its START block *)
(* (or an idle block in its place), and the next number of the frame moves *)
(* with the messages that the assembler completes.                         *)
LEMMA WireStep ==
  ASSUME WireTypes, LineInv, NumberState,
         NEW b, NEW words, NEW m, NEW residue_ok, NEW lookup,
         Cycle(b, words, m, residue_ok, lookup)
  PROVE  /\ WireTypes'
         /\ IF Starting
              THEN /\ b.kind \in {"start_0", "start_4", "idle"}
                   /\ sender_next' > sender_next /\ arriving_next' = sender_next
              ELSE /\ b.kind \notin {"start_0", "start_4"}
                   /\ sender_next' = sender_next
                   /\ arriving_next' = arriving_next +
                        One(udp_payload_valid /\ word_index = 3)
         /\ sender_next' <= 1 + (FrameLimit - frames_left') * MaxMessages
<1> USE DEF WireTypes
<1>1. arriving_next' = IF Starting THEN sender_next
                       ELSE arriving_next + One(udp_payload_valid /\ word_index = 3)
  BY DEF Cycle, WireDamage, Starting, AssemblerStrobes, UdpStrobes,
     Assembler!MessageValid, LineInv, StrobeState, One, ParserTypes, StageTypes
<1>2. damaged' \in BOOLEAN
  BY DEF Cycle, WireDamage
<1>3. CASE Gap(b)
  <2>1. ~Starting /\ b.kind = "none" /\ gaps' \in 0 .. MaxGaps
    BY <1>3, ConstantsAssumption DEF Gap, Starting, Blk
  <2> QED BY <1>1, <1>2, <1>3, <2>1 DEF Gap, One, NumberState
<1>4. CASE IdleLine(b)
  <2>1. ~Starting /\ b.kind = "idle" /\ gaps' \in 0 .. MaxGaps
    BY <1>4, ConstantsAssumption DEF IdleLine, Starting, Blk, NoFrame
  <2>2. wire' \in [position: Nat, start: {"start_0", "start_4"},
                   messages: 0 .. MaxMessages, idle_seen: BOOLEAN]
    BY <1>4, ConstantsAssumption DEF IdleLine, NoFrame
  <2> QED BY <1>1, <1>2, <1>4, <2>1, <2>2 DEF IdleLine, One, NumberState
<1>5. CASE StartFrame(b)
  <2>1. PICK start \in {"start_0", "start_4"}, n \in 1 .. MaxMessages :
          /\ b \in {Blk(start), Blk("idle")}
          /\ wire' = [position |-> 1, start |-> start, messages |-> n,
                      idle_seen |-> FALSE]
          /\ sender_next' = sender_next + n
    BY <1>5 DEF StartFrame
  <2>2. Starting /\ b.kind \in {"start_0", "start_4", "idle"}
    BY <1>5, <2>1 DEF StartFrame, Starting, Blk
  <2>3. frames_left' = frames_left - 1 /\ frames_left > 0 /\ gaps' = 0
    BY <1>5 DEF StartFrame
  <2>4. (FrameLimit - frames_left') * MaxMessages =
          (FrameLimit - frames_left) * MaxMessages + MaxMessages
    BY <2>3, ConstantsAssumption
  <2>5. (FrameLimit - frames_left) * MaxMessages \in Nat
    BY ConstantsAssumption
  <2>6. sender_next' <= 1 + (FrameLimit - frames_left') * MaxMessages
    BY <2>1, <2>4, <2>5, ConstantsAssumption DEF NumberState
  <2>7. WireTypes'
    BY <1>1, <1>2, <2>1, <2>2, <2>3, ConstantsAssumption
  <2> QED BY <1>1, <2>1, <2>2, <2>6, <2>7
<1>6. CASE SendBlock(b)
  <2>1. ~Starting /\ gaps' = 0 /\ UNCHANGED << sender_next, frames_left >>
    BY <1>6 DEF SendBlock, Starting
  <2>2. b.kind \notin {"start_0", "start_4"}
    BY <1>6 DEF SendBlock, ScriptedBlock, DamagedBlocks, Blk, Term
  <2>3. wire' \in [position: Nat, start: {"start_0", "start_4"},
                   messages: 0 .. MaxMessages, idle_seen: BOOLEAN]
    BY <1>6 DEF SendBlock
  <2> QED BY <1>1, <1>2, <2>1, <2>2, <2>3, ConstantsAssumption DEF One, NumberState
<1> QED
  BY <1>3, <1>4, <1>5, <1>6 DEF Cycle

(* The parts of a clock edge, each over the beat of the block decoder.     *)
LEMMA CycleParts ==
  ASSUME WireTypes, LineInv,
         NEW b, NEW words, NEW m, NEW residue_ok, NEW lookup,
         Cycle(b, words, m, residue_ok, lookup)
  PROVE  LET f == Pcs!Beat(b)
         IN  /\ BeatFits(f)
             /\ words \in Udp!UdpLengths /\ residue_ok \in BOOLEAN
             /\ Udp!Clock(f, words)
             /\ Assembler!Clock(UdpStrobes)
             /\ Decoder!Clock(AssemblerStrobes, m)
             /\ Fcs!Clock(f, residue_ok)
             /\ Guard!Clock(ControllerStrobes(f), TrackerMessage)
             /\ f.start <=> ~inside_frame /\ b.kind \in {"start_0", "start_4"}
             /\ inside_frame /\ b.kind \in {"start_0", "start_4", "idle"} => f.abort
<1> DEFINE f == Pcs!Beat(b)
<1>1. BeatFits(f)
  BY BeatShape DEF Cycle, Components, LineInv, ParserTypes
<1>2. words \in Udp!UdpLengths
  <2>1. 4 * wire.messages \in Udp!UdpLengths
    BY ConstantsAssumption DEF WireTypes, Udp!UdpLengths, Udp!WordsPerMessage, Udp!InvalidLength
  <2> QED BY <2>1 DEF Cycle, Lengths
<1>3. residue_ok \in BOOLEAN
  BY DEF Cycle, Residues
<1>4. /\ f.start <=> ~inside_frame /\ b.kind \in {"start_0", "start_4"}
      /\ inside_frame /\ b.kind \in {"start_0", "start_4", "idle"} => f.abort
  BY DEF Pcs!Beat, Pcs!FrameStart, Pcs!FrameAbort, Pcs!SequenceError
<1> QED
  BY <1>1, <1>2, <1>3, <1>4 DEF Cycle, Components

(* Every message carries the number it is built with.                      *)
LEMMA MessageNumbers ==
  ASSUME NEW seq
  PROVE  /\ Update(seq).sequence_number = seq
         /\ FullReset(seq).sequence_number = seq
         /\ Intent(seq).sequence_number = seq
         /\ BadUpdate(seq).sequence_number = seq
         /\ BadIntent(seq).sequence_number = seq
BY DEF Update, FullReset, Intent, BadUpdate, BadIntent, Fields

(* A clock edge keeps the numbers in their bounds.                         *)
LEMMA NumberStep ==
  ASSUME WireTypes, LineInv, NumberState,
         NEW b, NEW words, NEW m, NEW residue_ok, NEW lookup,
         Cycle(b, words, m, residue_ok, lookup)
  PROVE  NumberState'
<1> DEFINE f == Pcs!Beat(b)
           message == udp_payload_valid /\ word_index = 3
<1>1. /\ BeatFits(f) /\ words \in Udp!UdpLengths /\ Udp!Clock(f, words)
      /\ Assembler!Clock(UdpStrobes) /\ Decoder!Clock(AssemblerStrobes, m)
      /\ f.start <=> ~inside_frame /\ b.kind \in {"start_0", "start_4"}
      /\ inside_frame /\ b.kind \in {"start_0", "start_4", "idle"} => f.abort
  BY CycleParts
<1> HIDE DEF f
<1> USE DEF LineInv, ParserTypes, StageTypes, FrameState, StrobeState
<1>2. /\ WireTypes'
      /\ Starting => sender_next' > sender_next /\ arriving_next' = sender_next
      /\ ~Starting => /\ sender_next' = sender_next
                      /\ arriving_next' = arriving_next + One(message)
      /\ ~Starting => b.kind \notin {"start_0", "start_4"}
      /\ Starting => b.kind \in {"start_0", "start_4", "idle"}
      /\ sender_next' <= 1 + (FrameLimit - frames_left') * MaxMessages
  BY WireStep
<1>3. message => arriving_next + 1 <= sender_next + MaxMessages
  BY ConstantsAssumption DEF NumberState, Coming, One, WireTypes
<1>4. arriving_next' <= sender_next' + MaxMessages
  <2>1. CASE Starting
    <3>1. sender_next' \in Nat /\ sender_next \in Nat /\ arriving_next' \in Nat
      BY <1>2 DEF WireTypes
    <3>2. arriving_next' = sender_next /\ sender_next' > sender_next
      BY <1>2, <2>1
    <3>3. \A u \in Nat : sender_next < u => sender_next <= u + MaxMessages
      BY <3>1, Sizes
    <3> QED BY <3>1, <3>2, <3>3
  <2>2. CASE ~Starting /\ message
    BY <1>2, <1>3, <2>2 DEF One
  <2>3. CASE ~Starting /\ ~message
    BY <1>2, <2>3, ConstantsAssumption DEF NumberState, One, WireTypes
  <2> QED BY <2>1, <2>2, <2>3
<1>5. ASSUME state' = "HEADER" \/ BeforePayload'
      PROVE  arriving_next' <= sender_next'
  <2>1. CASE Starting
    BY <1>2, <2>1 DEF WireTypes
  <2>2. CASE ~Starting
    <3>1. ~f.start
      BY <1>1, <1>2, <2>2
    <3>2. state = "HEADER" \/ BeforePayload
      BY <1>1, <1>5, <3>1 DEF Udp!Clock, Udp!Abort, Udp!Wait, Udp!StartFrame,
         Udp!RejectHeader, Udp!SkipHeader, Udp!RejectPayload, Udp!NextWord,
         Udp!LastWord, Udp!CheckTail, Udp!Drain, BeforePayload
    <3> QED BY <1>2, <2>2, <3>2 DEF NumberState, One, WireTypes
  <2> QED BY <2>1, <2>2
<1>6. ASSUME payload_started' \/ udp_payload_valid'
      PROVE  4 * arriving_next' + word_index' + Coming' <= 4 * (sender_next' + MaxMessages)
  <2> USE DEF Udp!EmitNothing, Udp!EmitWord
  <2>1. ~Starting
    BY <1>1, <1>2, <1>6 DEF BeatFits, Udp!Clock, Udp!Abort, Udp!Wait, Udp!StartFrame,
         Udp!RejectHeader, Udp!SkipHeader, Udp!RejectPayload, Udp!NextWord,
         Udp!LastWord, Udp!CheckTail, Udp!Drain
  <2>2. CASE ~payload_started
    <3>1. /\ BeforePayload /\ payload_words_remaining \in Udp!UdpLengths
          /\ payload_words_remaining' = payload_words_remaining - 1 /\ udp_payload_valid'
      BY <1>1, <1>6, <2>2, LengthShape DEF BeatFits, Udp!Clock, Udp!Abort, Udp!Wait,
         Udp!StartFrame, Udp!RejectHeader, Udp!SkipHeader, Udp!RejectPayload, Udp!NextWord,
         Udp!LastWord, Udp!CheckTail, Udp!Drain, BeforePayload, Udp!BadPayload
    <3>2. word_index' = 0 /\ arriving_next' = arriving_next
      <4>1. ~udp_payload_valid /\ ~udp_packet_abort /\ word_index = 0
        BY <2>2, <3>1 DEF WordState
      <4> QED BY <1>1, <1>2, <2>1, <4>1, AssemblerStep DEF One, WireTypes
    <3>3. arriving_next <= sender_next /\ payload_words_remaining <= 4 * MaxMessages
      BY <3>1, LengthShape DEF NumberState
    <3> QED BY <1>2, <2>1, <3>1, <3>2, <3>3, ConstantsAssumption DEF WireTypes, Coming, One
  <2>3. CASE payload_started
    <3>1. Coming' = payload_words_remaining
      <4>1. \/ /\ payload_words_remaining' = payload_words_remaining
               /\ ~udp_payload_valid'
            \/ /\ payload_words_remaining' = payload_words_remaining - 1
               /\ udp_payload_valid'
        <5>1. Udp!Wait(f) \/ Udp!NextWord(f) \/ Udp!LastWord(f)
          BY <1>1, <1>6, <2>3 DEF Udp!Clock, Udp!Abort,
             Udp!StartFrame, Udp!RejectHeader, Udp!SkipHeader, Udp!RejectPayload,
             Udp!CheckTail, Udp!Drain
        <5> QED BY <5>1 DEF Udp!Wait, Udp!NextWord, Udp!LastWord
      <4> QED BY <4>1 DEF Coming, One
    <3>2. 4 * arriving_next' + word_index' =
            4 * arriving_next + word_index + One(udp_payload_valid)
      BY <1>1, <1>2, <2>1, <2>3, AssemblerStep DEF One, WireTypes
    <3> QED BY <1>2, <2>1, <2>3, <3>1, <3>2, ConstantsAssumption
            DEF WireTypes, Coming, One, NumberState
  <2> QED BY <2>2, <2>3
<1>7. decoded_valid' => decoded'.sequence_number \in 0 .. SeqModulus - 2
  <2>1. ASSUME decoded_valid'
        PROVE  m.sequence_number \in 0 .. SeqModulus - 2
    <3>1. message
      BY <1>1, <2>1, DecoderStep
    <3>2. m.sequence_number \in {0, arriving_next, arriving_next + 1}
      BY MessageNumbers DEF Cycle, Messages, SentMessages, DamagedMessages, AnyMessage
    <3>3. arriving_next + 1 <= 1 + (FrameLimit - frames_left) * MaxMessages + MaxMessages
      BY <1>3, <3>1, ConstantsAssumption DEF NumberState, WireTypes
    <3>4. (FrameLimit - frames_left) * MaxMessages <= FrameLimit * MaxMessages
      BY ConstantsAssumption DEF WireTypes
    <3>5. (FrameLimit + 1) * MaxMessages = FrameLimit * MaxMessages + MaxMessages
      BY ConstantsAssumption
    <3>6. arriving_next + 1 <= SeqModulus - 2
      BY <3>3, <3>4, <3>5, ConstantsAssumption DEF WireTypes
    <3> QED BY <3>2, <3>6, ConstantsAssumption DEF WireTypes
  <2> QED BY <1>1, <2>1, DecoderStep
<1> QED
  BY <1>2, <1>4, <1>5, <1>6, <1>7 DEF NumberState

(* The invariant of the front end and the wire.                            *)
TheLine == WireTypes /\ LineInv /\ NumberState

(* It is inductive.                                                        *)
LEMMA LineStep ==
  ASSUME TheLine, NEW b, NEW words, NEW m, NEW residue_ok, NEW lookup,
         Cycle(b, words, m, residue_ok, lookup)
  PROVE  TheLine'
<1> DEFINE f == Pcs!Beat(b)
<1> USE DEF TheLine
<1>1. /\ BeatFits(f) /\ words \in Udp!UdpLengths /\ residue_ok \in BOOLEAN
      /\ Udp!Clock(f, words) /\ Assembler!Clock(UdpStrobes)
      /\ Decoder!Clock(AssemblerStrobes, m) /\ Fcs!Clock(f, residue_ok)
  BY CycleParts
<1> HIDE DEF f
<1>2. ParserTypes' /\ FrameState' /\ StrobeState'
  BY <1>1, ParserStep
<1>3. WordState'
  BY <1>1, WordStep
<1>4. WireTypes'
  BY WireStep
<1>5. NumberState'
  BY NumberStep
<1>6. word_index' \in 0 .. 3 /\ current_message_is_packet_start' \in BOOLEAN
  BY <1>1, AssemblerStep DEF LineInv, StageTypes
<1>7. /\ decoded_valid' \in BOOLEAN /\ decoded_packet_start' \in BOOLEAN
      /\ decoded_packet_end' \in BOOLEAN /\ decoded_packet_abort' \in BOOLEAN
  BY <1>1, DecoderStep
<1>8. /\ frame_pipe.valid' \in BOOLEAN /\ frame_pipe.end' \in BOOLEAN
      /\ fcs_result_valid' \in BOOLEAN /\ fcs_ok' \in BOOLEAN
  BY <1>1 DEF Fcs!Clock, BeatFits, LineInv, StageTypes
<1>9. StageTypes'
  BY <1>6, <1>7, <1>8 DEF StageTypes
<1> QED
  BY <1>2, <1>3, <1>4, <1>5, <1>9 DEF LineInv

(* It holds initially.                                                     *)
LEMMA LineInit == Init => TheLine
<1> SUFFICES ASSUME Init PROVE TheLine
  OBVIOUS
<1>1. /\ wire = NoFrame /\ gaps = 0 /\ damaged = FALSE
      /\ sender_next = 1 /\ arriving_next = 1 /\ frames_left = FrameLimit
  BY DEF Init
<1>2. frame_pipe.valid = FALSE /\ frame_pipe.end = FALSE
  BY DEF Init, Fcs!Init, Fcs!NoBeat
<1>3. /\ inside_frame = FALSE /\ Udp!Init /\ Assembler!Init
      /\ decoded_valid = FALSE /\ decoded_packet_start = FALSE
      /\ decoded_packet_end = FALSE /\ decoded_packet_abort = FALSE
      /\ fcs_result_valid = FALSE /\ fcs_ok = FALSE
  BY DEF Init, Pcs!Init, Decoder!Init, Fcs!Init
<1>4. ParserTypes
  BY <1>3 DEF ParserTypes, Udp!Init
<1>5. frame_pipe.valid \in BOOLEAN /\ frame_pipe.end \in BOOLEAN
  BY <1>2
<1>6. word_index \in 0 .. 3 /\ current_message_is_packet_start \in BOOLEAN
  <2>1. word_index = 0
    BY <1>3 DEF Assembler!Init
  <2>2. current_message_is_packet_start = FALSE
    BY <1>3 DEF Assembler!Init
  <2>3. word_index \in 0 .. 3
    BY <2>1
  <2> QED BY <2>2, <2>3
<1>7. /\ decoded_valid \in BOOLEAN /\ decoded_packet_start \in BOOLEAN
      /\ decoded_packet_end \in BOOLEAN /\ decoded_packet_abort \in BOOLEAN
      /\ fcs_result_valid \in BOOLEAN /\ fcs_ok \in BOOLEAN
  BY <1>3
<1>8. StageTypes
  BY <1>6, <1>7, <1>5 DEF StageTypes
<1>9. FrameState /\ StrobeState /\ WordState
  BY <1>2, <1>3 DEF FrameState, StrobeState, WordState, Coming, One, LaterHeaderBeat,
     BeforePayload, FirstHeaderBeat, Udp!Init, Assembler!Init
<1>10. WireTypes
  <2>1. wire \in [position: Nat, start: {"start_0", "start_4"},
                  messages: 0 .. MaxMessages, idle_seen: BOOLEAN]
    BY <1>1, Sizes DEF NoFrame
  <2>2. gaps \in 0 .. MaxGaps /\ frames_left \in 0 .. FrameLimit
    BY <1>1, ConstantsAssumption
  <2>3. damaged \in BOOLEAN /\ sender_next \in Nat /\ arriving_next \in Nat
    BY <1>1
  <2> QED BY <2>1, <2>2, <2>3 DEF WireTypes
<1>11. NumberState
  <2>1. sender_next <= 1 + (FrameLimit - frames_left) * MaxMessages
    BY <1>1, Sizes
  <2> QED BY <1>1, <1>3, <2>1, Sizes DEF NumberState, BeforePayload, Udp!Init
<1> QED BY <1>4, <1>8, <1>9, <1>10, <1>11 DEF TheLine, LineInv

(* A stuttering step keeps it.                                             *)
LEMMA LineStutter == TheLine /\ UNCHANGED vars => TheLine'
BY DEF TheLine, LineInv, ParserTypes, StageTypes, FrameState, StrobeState, WordState,
   WireTypes, NumberState, Coming, One, LaterHeaderBeat, BeforePayload,
   FirstHeaderBeat, vars, wire_vars, Pcs!vars, Udp!vars, Assembler!vars,
   Decoder!vars, Fcs!vars

(***************************************************************************)
(* The registers of the front end and of the wire keep their ranges,       *)
(* counters and marks, whatever the line does (eth_ipv4_udp_rx.sv,         *)
(* internal_message_assembler.sv, internal_protocol_decoder.sv).           *)
(***************************************************************************)
THEOREM LineCorrect == Spec => []TheLine
<1>1. TheLine /\ Next => TheLine'
  BY NextIsCycle, LineStep
<1> QED
  BY <1>1, LineInit, LineStutter, PTL DEF Spec

(* Where the parser can go in one clock edge, and which strobe goes with   *)
(* it.                                                                     *)
LEMMA ParserMoves ==
  ASSUME LineInv, NEW f, BeatFits(f), NEW words \in Udp!UdpLengths, Udp!Clock(f, words)
  PROVE  /\ udp_payload_valid' =>
              /\ state = "PAYLOAD" /\ ~f.abort
              /\ udp_payload_start' <=> ~payload_started
              /\ payload_words_remaining' = payload_words_remaining - 1
         /\ payload_started' =>
              /\ ~f.abort /\ state \in {"PAYLOAD", "DRAIN"}
              /\ udp_payload_valid' \/
                   UNCHANGED << payload_started, state, payload_words_remaining >>
         /\ udp_packet_abort' => payload_started
         /\ f.abort => /\ state' = "IDLE" /\ ~payload_started' /\ ~udp_payload_valid'
                       /\ udp_packet_abort' <=> payload_started
         /\ state' = "PAYLOAD" =>
              /\ ~f.abort
              /\ \/ state = "PAYLOAD" /\ (payload_started => payload_started')
                 \/ state = "HEADER" /\ header_bytes_discarded > 15 /\ ~payload_started'
         /\ state' = "HEADER" =>
              /\ ~f.abort
              /\ \/ state = "HEADER" /\ header_bytes_discarded' \in
                      {header_bytes_discarded, header_bytes_discarded + 8}
                 \/ state = "IDLE" /\ header_bytes_discarded' <= 7
         /\ state = "IDLE" => /\ state' = "IDLE" \/ FirstHeaderBeat'
                              /\ ~f.abort /\ ~udp_packet_abort'
         /\ state \in {"PAYLOAD", "DRAIN"} =>
              state' \in {"PAYLOAD", "DRAIN"} \/ f.abort \/ f.end
         /\ state = "PAYLOAD" /\ payload_started =>
              \/ udp_packet_abort' \/ udp_payload_end'
              \/ payload_started' /\ state' = "PAYLOAD"
<1> USE DEF LineInv, ParserTypes, FrameState, BeatFits, FirstHeaderBeat,
            Udp!EmitNothing, Udp!EmitWord
<1>1. CASE Udp!Abort(f)
  BY <1>1 DEF Udp!Abort
<1>2. CASE Udp!Wait(f)
  BY <1>2 DEF Udp!Wait
<1>3. CASE Udp!StartFrame(f)
  BY <1>3 DEF Udp!StartFrame
<1>4. CASE Udp!RejectHeader(f)
  BY <1>4 DEF Udp!RejectHeader
<1>5. CASE Udp!SkipHeader(f, words)
  BY <1>5 DEF Udp!SkipHeader
<1>6. CASE Udp!RejectPayload(f)
  BY <1>6 DEF Udp!RejectPayload
<1>7. CASE Udp!NextWord(f)
  BY <1>7 DEF Udp!NextWord
<1>8. CASE Udp!LastWord(f)
  BY <1>8 DEF Udp!LastWord, Udp!BadPayload, Udp!FinalPayloadInput
<1>9. CASE Udp!CheckTail(f)
  BY <1>9 DEF Udp!CheckTail
<1>10. CASE Udp!Drain(f)
  BY <1>10 DEF Udp!Drain
<1> QED
  BY <1>1, <1>2, <1>3, <1>4, <1>5, <1>6, <1>7, <1>8, <1>9, <1>10 DEF Udp!Clock

(* The logical decoding of the open packet is over in this cycle.          *)
Decoded == \/ decode_done \/ decoded_packet_abort
           \/ decoded_valid /\ decoded_packet_end

(* The verdict of the open packet arrives in this cycle.                   *)
VerdictNow(f) == ~fcs_seen /\ (f.abort \/ fcs_result_valid)

(* The packet is committed or discarded at this clock edge.                *)
Resolving(f) == packet_pending /\ Decoded /\ (fcs_seen \/ VerdictNow(f))

(* The controller reports the packet resolved.                             *)
Pulse == packet_commit \/ packet_discard

(* The parser is inside a payload that it has announced.                   *)
InPayload == state = "PAYLOAD" /\ payload_started

(* The parser is past the second beat of a header.                         *)
HeaderUnderWay == state = "HEADER" /\ header_bytes_discarded > 15

(* The message marked as the last of the packet has been decoded.          *)
EndSeen == \/ decoded_valid /\ decoded_packet_end
           \/ packet_log # << >> /\ packet_log[Len(packet_log)].packet_end

(* Ranges of the controller's registers and of the log.                    *)
ControllerTypes ==
  Guard!Controller!TypeOK /\ packet_log \in Seq(Guard!Message)

(* A pending packet has its end of decoding behind it or on its way.       *)
DecodeEnds ==
  packet_pending => InPayload \/ udp_packet_abort \/ udp_payload_end \/ Decoded

(* A verdict can only precede the end of decoding when it is an abort.     *)
AbortedSoon ==
  packet_pending /\ fcs_seen =>
    /\ ~udp_payload_valid /\ ~payload_started /\ ~fcs_passed /\ packet_failed
    /\ \/ udp_packet_abort /\ state = "IDLE"
       \/ decoded_packet_abort /\ ~udp_packet_abort /\ (state = "IDLE" \/ FirstHeaderBeat)

(* A pending packet has its verdict behind it or on its way, unless it has *)
(* no message yet.                                                         *)
VerdictComes ==
  packet_pending =>
    \/ fcs_seen \/ fcs_result_valid \/ frame_pipe.end
    \/ state \in {"PAYLOAD", "DRAIN"}
    \/ packet_log = << >> /\ ~decoded_valid

(* A packet is resolved before the next frame has a payload.               *)
PulseAtEnd == HeaderUnderWay \/ state = "PAYLOAD" \/ payload_started => ~Pulse

(* A message is decoded in a packet that the controller has opened.        *)
Opened == /\ payload_started /\ ~udp_payload_start => packet_pending
          /\ udp_payload_valid /\ ~udp_payload_start => packet_pending
          /\ decoded_valid => packet_pending \/ packet_discard

(* The log is empty between packets.                                       *)
LogClosed == ~packet_pending /\ ~Pulse => packet_log = << >>

(* The log is empty when a payload starts.                                 *)
FreshLog ==
  /\ HeaderUnderWay \/ BeforePayload \/ udp_payload_start
       \/ current_message_is_packet_start => packet_log = << >> /\ ~decoded_valid
  /\ decoded_valid /\ decoded_packet_start => packet_log = << >>

(* The messages of a payload, decoded and to come, are at most             *)
(* MaxMessages.                                                            *)
RoomLeft ==
  /\ payload_started \/ udp_payload_valid =>
       4 * Len(packet_log) + 4 * One(decoded_valid) + word_index + Coming
         <= 4 * MaxMessages
  /\ decoded_valid => Len(packet_log) < MaxMessages

(* Nothing follows the message marked as the last.                         *)
NothingAfterEnd ==
  /\ EndSeen => ~udp_payload_valid /\ state # "PAYLOAD"
  /\ decoded_valid /\ packet_log # << >> => ~packet_log[Len(packet_log)].packet_end

(* The invariant of the packet between the controller and the front end.   *)
PacketInv ==
  /\ ControllerTypes /\ DecodeEnds /\ AbortedSoon /\ VerdictComes /\ PulseAtEnd
  /\ Opened /\ LogClosed /\ FreshLog /\ RoomLeft /\ NothingAfterEnd

(* What one clock edge does to the controller, its failure flag included.  *)
LEMMA ControllerMoves ==
  ASSUME LineInv, ControllerTypes, NEW f, BeatFits(f),
         Guard!Clock(ControllerStrobes(f), TrackerMessage)
  PROVE  /\ Guard!Controller!TypeOK'
         /\ Pulse' <=> Resolving(f)
         /\ packet_discard' <=> Resolving(f) /\
              \/ packet_failed \/ decoded_packet_abort \/ f.abort
              \/ Guard!Tracker!Mismatch(TrackerMessage)
              \/ VerdictNow(f) /\ ~fcs_ok
         /\ packet_commit' <=> Resolving(f) /\ ~packet_discard'
         /\ packet_pending' <=> \/ packet_pending /\ ~Resolving(f)
                                \/ ~packet_pending /\ PacketStart
         /\ packet_pending' =>
              /\ decode_done' <=> packet_pending /\ Decoded
              /\ fcs_seen' <=> packet_pending /\ (fcs_seen \/ VerdictNow(f))
              /\ fcs_passed' => /\ packet_pending /\ ~(VerdictNow(f) /\ f.abort)
                                /\ fcs_passed \/ VerdictNow(f)
              /\ packet_pending /\ (\/ packet_failed \/ f.abort \/ decoded_packet_abort
                                    \/ VerdictNow(f) /\ ~fcs_ok) => packet_failed'
<1> DEFINE e == ControllerInputs(f)
<1>1. /\ e.packet_start = PacketStart /\ e.frame_abort = f.abort
      /\ e.decode_abort = decoded_packet_abort
      /\ e.fcs_result_valid = fcs_result_valid /\ e.fcs_ok = fcs_ok
      /\ e.decode_complete = (TrackerMessage.valid /\ TrackerMessage.packet_end)
      /\ e.packet_failure_event = Guard!Tracker!Mismatch(TrackerMessage)
  BY DEF ControllerInputs, Guard!ControllerInputs, ControllerStrobes
<1>2. TrackerMessage.valid /\ TrackerMessage.packet_end
        <=> decoded_valid /\ decoded_packet_end
  BY DEF TrackerMessage, Guard!NoMessage, Guard!Tracker!NoMessage
<1>3. Guard!Controller!Clock(e)
  BY DEF Guard!Clock, ControllerInputs
<1>4. /\ e.packet_start <=> PacketStart
      /\ e.frame_abort <=> f.abort
      /\ e.decode_abort <=> decoded_packet_abort
      /\ e.fcs_result_valid <=> fcs_result_valid
      /\ e.fcs_ok <=> fcs_ok
      /\ e.decode_complete <=> decoded_valid /\ decoded_packet_end
      /\ e.packet_failure_event <=> Guard!Tracker!Mismatch(TrackerMessage)
  BY <1>1, <1>2
<1> HIDE DEF e
<1>5. /\ Guard!Controller!FcsEvent(e) <=> packet_pending /\ VerdictNow(f)
      /\ Guard!Controller!FcsEventPassed(e) <=> fcs_result_valid /\ fcs_ok /\ ~f.abort
      /\ Guard!Controller!DecodeReady(e) <=> Decoded
      /\ Guard!Controller!ResolveEvent(e) <=> Resolving(f)
  BY <1>4 DEF Guard!Controller!FcsEvent, Guard!Controller!FcsEventPassed,
     Guard!Controller!DecodeReady, Guard!Controller!ResolveEvent, VerdictNow,
     Decoded, Resolving
<1>6. packet_pending =>
        (Guard!Controller!FailureReady(e) <=>
           \/ packet_failed \/ decoded_packet_abort \/ f.abort
           \/ Guard!Tracker!Mismatch(TrackerMessage)
           \/ VerdictNow(f) /\ ~fcs_ok)
  BY <1>4, <1>5 DEF Guard!Controller!FailureReady, Guard!Controller!FailureEvent,
     VerdictNow
<1> DEFINE resolve == Guard!Controller!ResolveEvent(e)
           failed  == Guard!Controller!FailureReady(e)
           ready   == Guard!Controller!DecodeReady(e)
           event   == Guard!Controller!FcsEvent(e)
           passed  == Guard!Controller!FcsEventPassed(e)
<1>7. /\ resolve \in BOOLEAN /\ failed \in BOOLEAN /\ ready \in BOOLEAN
      /\ event \in BOOLEAN /\ passed \in BOOLEAN
      /\ resolve => packet_pending
  BY <1>4 DEF Guard!Controller!ResolveEvent, Guard!Controller!FailureReady,
     Guard!Controller!DecodeReady, Guard!Controller!FcsEvent,
     Guard!Controller!FcsEventPassed
<1>8. /\ packet_commit' = (resolve /\ ~failed)
      /\ packet_discard' = (resolve /\ failed)
      /\ integrity_failure' = (event /\ ~passed)
  BY <1>3 DEF Guard!Controller!Clock, Guard!Controller!Pulses
<1>9. /\ packet_pending \in BOOLEAN /\ decode_done \in BOOLEAN /\ fcs_seen \in BOOLEAN
      /\ fcs_passed \in BOOLEAN /\ packet_failed \in BOOLEAN
  BY DEF ControllerTypes, Guard!Controller!TypeOK
<1>10. \/ /\ PacketStart /\ ~packet_pending
          /\ packet_pending' = TRUE /\ decode_done' = FALSE /\ fcs_seen' = FALSE
          /\ fcs_passed' = FALSE /\ packet_failed' = FALSE
       \/ /\ packet_pending /\ ~resolve /\ packet_pending' = packet_pending
          /\ fcs_seen' = (fcs_seen \/ event) /\ decode_done' = ready
          /\ packet_failed' = failed
          /\ fcs_passed' = IF event THEN passed ELSE fcs_passed
       \/ /\ resolve /\ fcs_seen' = (fcs_seen \/ event)
          /\ fcs_passed' = IF event THEN passed ELSE fcs_passed
          /\ packet_pending' = FALSE /\ decode_done' = FALSE /\ packet_failed' = FALSE
       \/ /\ ~packet_pending /\ ~PacketStart
          /\ UNCHANGED << packet_pending, decode_done, fcs_seen, fcs_passed, packet_failed >>
  BY <1>3, <1>4 DEF Guard!Controller!Clock, Guard!Controller!Open,
     Guard!Controller!Collect, Guard!Controller!Resolve, Guard!Controller!Idle,
     Guard!Controller!CaptureVerdict
<1> HIDE DEF resolve, failed, ready, event, passed
<1>11. Guard!Controller!TypeOK'
  BY <1>7, <1>8, <1>9, <1>10 DEF Guard!Controller!TypeOK
<1>12. /\ Pulse' <=> resolve
       /\ packet_discard' <=> resolve /\ failed
       /\ packet_commit' <=> resolve /\ ~packet_discard'
  BY <1>7, <1>8 DEF Pulse
<1>13. packet_pending' <=> \/ packet_pending /\ ~resolve
                           \/ ~packet_pending /\ PacketStart
  <2>1. CASE packet_pending
    BY <1>7, <1>10, <2>1
  <2>2. CASE ~packet_pending
    BY <1>7, <1>9, <1>10, <2>2
  <2> QED BY <2>1, <2>2
<1>14. packet_pending' =>
         /\ decode_done' <=> packet_pending /\ ready
         /\ fcs_seen' <=> packet_pending /\ (fcs_seen \/ event)
         /\ fcs_passed' => packet_pending /\ IF event THEN passed ELSE fcs_passed
         /\ packet_pending => (packet_failed' <=> failed)
  <2> SUFFICES ASSUME packet_pending'
               PROVE  /\ decode_done' <=> packet_pending /\ ready
                      /\ fcs_seen' <=> packet_pending /\ (fcs_seen \/ event)
                      /\ fcs_passed' => packet_pending /\ IF event THEN passed ELSE fcs_passed
                      /\ packet_pending => (packet_failed' <=> failed)
    OBVIOUS
  <2>1. CASE packet_pending
    <3>1. /\ fcs_seen' = (fcs_seen \/ event) /\ decode_done' = ready
          /\ packet_failed' = failed
          /\ fcs_passed' = IF event THEN passed ELSE fcs_passed
      BY <1>10, <2>1
    <3>2. fcs_passed' => IF event THEN passed ELSE fcs_passed
      BY <3>1, <1>7, <1>9
    <3>3. fcs_seen' <=> fcs_seen \/ event
      BY <3>1, <1>7, <1>9
    <3>4. (decode_done' <=> ready) /\ (packet_failed' <=> failed)
      BY <3>1, <1>7
    <3> QED BY <2>1, <3>2, <3>3, <3>4
  <2>2. CASE ~packet_pending
    <3>1. decode_done' = FALSE /\ fcs_seen' = FALSE /\ fcs_passed' = FALSE
      BY <1>10, <1>7, <2>2
    <3> QED BY <2>2, <3>1
  <2> QED BY <2>1, <2>2
<1>15. packet_pending => (event <=> VerdictNow(f))
  BY <1>5 DEF event
<1>16. ready <=> Decoded
  BY <1>5 DEF ready
<1>17. resolve <=> Resolving(f)
  BY <1>5 DEF resolve
<1>18. passed <=> fcs_result_valid /\ fcs_ok /\ ~f.abort
  BY <1>5 DEF passed
<1>19. packet_pending =>
        (failed <=>
           \/ packet_failed \/ decoded_packet_abort \/ f.abort
           \/ Guard!Tracker!Mismatch(TrackerMessage)
           \/ VerdictNow(f) /\ ~fcs_ok)
  BY <1>6 DEF failed
<1>20. packet_pending' =>
              /\ decode_done' <=> packet_pending /\ Decoded
              /\ fcs_seen' <=> packet_pending /\ (fcs_seen \/ VerdictNow(f))
              /\ fcs_passed' => /\ packet_pending /\ ~(VerdictNow(f) /\ f.abort)
                                /\ fcs_passed \/ VerdictNow(f)
              /\ packet_pending /\ (\/ packet_failed \/ f.abort \/ decoded_packet_abort
                                    \/ VerdictNow(f) /\ ~fcs_ok) => packet_failed'
  BY <1>14, <1>15, <1>16, <1>18, <1>19
<1>21. packet_discard' <=> Resolving(f) /\
         \/ packet_failed \/ decoded_packet_abort \/ f.abort
         \/ Guard!Tracker!Mismatch(TrackerMessage)
         \/ VerdictNow(f) /\ ~fcs_ok
  BY <1>7, <1>12, <1>17, <1>19
<1>22. /\ Pulse' <=> Resolving(f)
       /\ packet_commit' <=> Resolving(f) /\ ~packet_discard'
       /\ packet_pending' <=> \/ packet_pending /\ ~Resolving(f)
                              \/ ~packet_pending /\ PacketStart
  BY <1>12, <1>13, <1>17
<1> QED
  BY <1>11, <1>20, <1>21, <1>22

(* The clock edge of every component but the wire.                         *)
Edge(f, words, m, residue_ok) ==
  /\ BeatFits(f) /\ words \in Udp!UdpLengths /\ residue_ok \in BOOLEAN
  /\ Udp!Clock(f, words) /\ Assembler!Clock(UdpStrobes)
  /\ Decoder!Clock(AssemblerStrobes, m) /\ Fcs!Clock(f, residue_ok)
  /\ Guard!Clock(ControllerStrobes(f), TrackerMessage)

(* What one clock edge does to the log.                                    *)
LEMMA LogMoves ==
  ASSUME LineInv, PacketInv, decoded_valid => TrackerMessage \in Guard!Message,
         NEW f, NEW words, NEW m, NEW residue_ok, Edge(f, words, m, residue_ok)
  PROVE  /\ packet_log' \in Seq(Guard!Message)
         /\ Pulse => packet_log' = << >>
         /\ ~Pulse /\ ~decoded_valid => packet_log' = packet_log
         /\ ~Pulse /\ decoded_valid =>
              /\ packet_log' # << >> /\ Len(packet_log') = Len(packet_log) + 1
              /\ packet_log'[Len(packet_log')].packet_end <=> decoded_packet_end
              /\ packet_log'[Len(packet_log')].seq = decoded.sequence_number
<1> USE DEF Pulse
<1>1. packet_log' = IF Pulse THEN << >>
                    ELSE IF TrackerMessage.valid THEN Append(packet_log, TrackerMessage)
                    ELSE packet_log
  BY DEF Edge, Guard!Clock, Guard!RecordHistory
<1>2. TrackerMessage.valid <=> decoded_valid
  BY DEF TrackerMessage, Guard!NoMessage, Guard!Tracker!NoMessage
<1>3. decoded_valid => /\ TrackerMessage.packet_end <=> decoded_packet_end
                       /\ TrackerMessage.seq = decoded.sequence_number
  BY DEF TrackerMessage
<1>4. packet_log \in Seq(Guard!Message)
  BY DEF PacketInv, ControllerTypes
<1>5. CASE Pulse
  BY <1>1, <1>5
<1>6. CASE ~Pulse /\ ~decoded_valid
  BY <1>1, <1>2, <1>4, <1>6
<1>7. CASE ~Pulse /\ decoded_valid
  <2>1. packet_log' = Append(packet_log, TrackerMessage) /\ TrackerMessage \in Guard!Message
    BY <1>1, <1>2, <1>7
  <2>2. /\ Append(packet_log, TrackerMessage) \in Seq(Guard!Message)
        /\ Append(packet_log, TrackerMessage) # << >>
        /\ Len(Append(packet_log, TrackerMessage)) = Len(packet_log) + 1
        /\ Append(packet_log, TrackerMessage)[Len(Append(packet_log, TrackerMessage))]
             = TrackerMessage
    BY <1>4, <2>1
  <2> QED BY <1>3, <1>7, <2>1, <2>2
<1> QED BY <1>5, <1>6, <1>7

(* A packet resolves only when its payload is over.                        *)
LEMMA ResolvingAtEnd ==
  ASSUME LineInv, PacketInv,
         NEW f, NEW words, NEW m, NEW residue_ok, Edge(f, words, m, residue_ok),
         Resolving(f)
  PROVE  /\ udp_payload_valid => f.abort
         /\ ~payload_started' /\ ~udp_payload_valid'
         /\ ~HeaderUnderWay' /\ state' # "PAYLOAD"
<1>1. \/ ~udp_payload_valid /\ (state = "IDLE" \/ FirstHeaderBeat)
      \/ f.abort
  BY DEF Resolving, VerdictNow, PacketInv, AbortedSoon, LineInv, StrobeState
<1>2. BeatFits(f) /\ words \in Udp!UdpLengths /\ Udp!Clock(f, words)
  BY DEF Edge
<1>3. CASE f.abort
  BY <1>2, <1>3, ParserMoves DEF HeaderUnderWay
<1>4. CASE ~f.abort /\ ~udp_payload_valid /\ state = "IDLE"
  <2>1. state' = "IDLE" \/ (state' = "HEADER" /\ header_bytes_discarded' <= 7)
    BY <1>2, <1>4, ParserMoves DEF FirstHeaderBeat
  <2>2. ~payload_started' /\ ~udp_payload_valid'
    BY <1>2, <1>4, ParserMoves
  <2>3. header_bytes_discarded' \in Nat
    BY <1>2, ParserStep DEF ParserTypes, Edge
  <2> QED BY <1>4, <2>1, <2>2, <2>3 DEF HeaderUnderWay
<1>5. CASE ~f.abort /\ ~udp_payload_valid /\ FirstHeaderBeat
  <2>1. /\ ~payload_started' /\ ~udp_payload_valid' /\ state' # "PAYLOAD"
        /\ state' = "HEADER" => header_bytes_discarded' \in
                   {header_bytes_discarded, header_bytes_discarded + 8}
    BY <1>2, <1>5, ParserMoves DEF FirstHeaderBeat, LineInv, ParserTypes
  <2>2. header_bytes_discarded \in Nat /\ header_bytes_discarded <= 7
    BY <1>5 DEF FirstHeaderBeat, LineInv, ParserTypes
  <2> QED BY <1>5, <2>1, <2>2 DEF HeaderUnderWay
<1> QED BY <1>1, <1>3, <1>4, <1>5

(* The end of decoding and the verdict stay on their way, and the next     *)
(* packet is not opened before the last is resolved.                       *)
LEMMA PacketFlow ==
  ASSUME LineInv, PacketInv,
         NEW f, NEW words, NEW m, NEW residue_ok, Edge(f, words, m, residue_ok)
  PROVE  /\ PulseAtEnd' /\ Opened' /\ DecodeEnds' /\ AbortedSoon'
<1> USE DEF LineInv, ParserTypes, StageTypes
<1>1. PulseAtEnd'
  BY ResolvingAtEnd, ControllerMoves DEF PulseAtEnd, Edge, PacketInv
<1>2. Opened'
  <2>1. payload_started' /\ ~udp_payload_start' => payload_started /\ ~f.abort
    BY ParserMoves DEF Edge
  <2>2. udp_payload_valid' /\ ~udp_payload_start' => payload_started /\ ~f.abort
    BY ParserMoves DEF Edge
  <2>3. decoded_valid' => udp_payload_valid /\ ~udp_payload_start
    BY DecoderStep DEF Edge, WordState
  <2>4. payload_started \/ (udp_payload_valid /\ ~udp_payload_start) =>
          packet_pending \/ PacketStart
    BY DEF PacketInv, Opened, PacketStart, StrobeState
  <2>5. payload_started' \/ udp_payload_valid' => ~Resolving(f)
    BY ResolvingAtEnd
  <2>6. udp_payload_valid /\ Resolving(f) => packet_discard'
    BY ResolvingAtEnd, ControllerMoves DEF Edge, PacketInv
  <2>7. ~Resolving(f) /\ (packet_pending \/ PacketStart) => packet_pending'
    BY ControllerMoves DEF Edge, PacketInv
  <2> QED BY <2>1, <2>2, <2>3, <2>4, <2>5, <2>6, <2>7 DEF Opened, PacketStart
<1>3. DecodeEnds'
  <2> SUFFICES ASSUME packet_pending'
               PROVE  InPayload' \/ udp_packet_abort' \/ udp_payload_end' \/ Decoded'
    BY DEF DecodeEnds
  <2>1. ~Resolving(f) /\ (packet_pending \/ PacketStart)
    BY ControllerMoves DEF Edge, PacketInv, Resolving
  <2>2. CASE packet_pending /\ Decoded
    BY <2>2, ControllerMoves DEF Edge, PacketInv, Decoded
  <2>3. CASE udp_packet_abort
    BY <2>3, DecoderStep DEF Edge, Decoded
  <2>4. CASE udp_payload_end
    <3>1. udp_payload_valid /\ word_index = 3
      BY <2>4 DEF StrobeState, WordState, Coming, One
    <3> QED BY <2>4, <3>1, DecoderStep DEF Edge, Decoded
  <2>5. CASE InPayload
    BY <2>5, ParserMoves DEF Edge, InPayload
  <2>6. CASE ~packet_pending /\ PacketStart
    <3>1. InPayload
      BY <2>6 DEF PacketStart, StrobeState, FrameState, InPayload
    <3> QED BY <2>5, <3>1
  <2> QED BY <2>1, <2>2, <2>3, <2>4, <2>5, <2>6 DEF PacketInv, DecodeEnds
<1>4. AbortedSoon'
  <2> SUFFICES ASSUME packet_pending', fcs_seen'
               PROVE  /\ ~udp_payload_valid' /\ ~payload_started'
                      /\ ~fcs_passed' /\ packet_failed'
                      /\ \/ udp_packet_abort' /\ state' = "IDLE"
                         \/ /\ decoded_packet_abort' /\ ~udp_packet_abort'
                            /\ state' = "IDLE" \/ FirstHeaderBeat'
    BY DEF AbortedSoon
  <2>1. /\ packet_pending /\ ~Resolving(f) /\ (fcs_seen \/ VerdictNow(f))
        /\ fcs_passed' => ~(VerdictNow(f) /\ f.abort) /\ (fcs_passed \/ VerdictNow(f))
        /\ packet_failed \/ f.abort => packet_failed'
    BY ControllerMoves DEF Edge, PacketInv, Resolving
  <2>2. ~Decoded
    BY <2>1 DEF Resolving
  <2>3. CASE fcs_seen
    <3>1. /\ udp_packet_abort /\ state = "IDLE" /\ ~payload_started
          /\ ~fcs_passed /\ packet_failed
      BY <2>1, <2>2, <2>3 DEF PacketInv, AbortedSoon, Decoded
    <3>2. decoded_packet_abort'
      BY <3>1, DecoderStep DEF Edge
    <3>3. ~VerdictNow(f)
      BY <2>3 DEF VerdictNow
    <3> QED BY <2>1, <3>1, <3>2, <3>3, ParserMoves DEF Edge
  <2>4. CASE ~fcs_seen /\ f.abort
    <3>1. /\ state' = "IDLE" /\ ~payload_started' /\ ~udp_payload_valid'
          /\ udp_packet_abort' <=> payload_started
      BY <2>4, ParserMoves DEF Edge
    <3>2. ~fcs_passed' /\ packet_failed'
      BY <2>1, <2>4 DEF VerdictNow
    <3>3. state # "IDLE"
      BY <2>4 DEF Edge, BeatFits, FrameState
    <3>4. ~payload_started => udp_packet_abort
      BY <2>1, <2>2, <3>3 DEF PacketInv, DecodeEnds, InPayload, StrobeState
    <3>5. udp_packet_abort => decoded_packet_abort'
      BY DecoderStep DEF Edge
    <3> QED BY <3>1, <3>2, <3>4, <3>5
  <2>5. CASE ~fcs_seen /\ ~f.abort
    <3>1. ~udp_payload_valid /\ ~udp_packet_abort /\ (state = "IDLE" \/ FirstHeaderBeat)
      BY <2>1, <2>5 DEF VerdictNow, StrobeState
    <3>2. Decoded
      BY <2>1, <3>1 DEF PacketInv, DecodeEnds, InPayload, StrobeState, FirstHeaderBeat
    <3> QED BY <2>2, <3>2
  <2> QED BY <2>3, <2>4, <2>5
<1> QED BY <1>1, <1>2, <1>3, <1>4

(* The log is empty when the header of a frame has come as far as its      *)
(* second beat.                                                            *)
LEMMA FreshAtPayload ==
  ASSUME LineInv, PacketInv, state = "HEADER", header_bytes_discarded > 7, ~Pulse
  PROVE  packet_log = << >> /\ ~decoded_valid
<1>1. ~decoded_valid
  BY DEF LineInv, WordState, LaterHeaderBeat
<1>2. CASE ~packet_pending
  BY <1>1, <1>2 DEF PacketInv, LogClosed
<1>3. CASE packet_pending
  <2>1. ~fcs_seen /\ ~fcs_result_valid /\ ~frame_pipe.end
    BY <1>3 DEF PacketInv, AbortedSoon, LineInv, StrobeState, FirstHeaderBeat,
                ParserTypes
  <2> QED BY <1>1, <1>3, <2>1 DEF PacketInv, VerdictComes
<1> QED BY <1>2, <1>3

(* A clock edge keeps the log of the packet whole.                         *)
LEMMA LogFlow ==
  ASSUME LineInv, PacketInv, decoded_valid => TrackerMessage \in Guard!Message,
         NEW f, NEW words, NEW m, NEW residue_ok, Edge(f, words, m, residue_ok)
  PROVE  VerdictComes' /\ LogClosed' /\ FreshLog'
<1> USE DEF LineInv, ParserTypes, StageTypes
<1>1. LogClosed'
  <2> SUFFICES ASSUME ~packet_pending', ~Pulse' PROVE packet_log' = << >>
    BY DEF LogClosed
  <2>1. ~packet_pending
    BY ControllerMoves DEF Edge, PacketInv
  <2>2. CASE Pulse
    BY <2>2, LogMoves
  <2>3. CASE ~Pulse
    <3>1. packet_log = << >> /\ ~decoded_valid
      BY <2>1, <2>3 DEF PacketInv, LogClosed, Opened, Pulse
    <3> QED BY <2>3, <3>1, LogMoves
  <2> QED BY <2>2, <2>3
<1>2. ASSUME packet_log = << >>, ~decoded_valid
      PROVE  packet_log' = << >>
  BY <1>2, LogMoves
<1>3. decoded_valid' => udp_payload_valid /\ word_index = 3
  BY DecoderStep DEF Edge
<1>4. ASSUME HeaderUnderWay' \/ BeforePayload' PROVE packet_log' = << >> /\ ~decoded_valid'
  <2>1. BeforePayload \/ (state = "HEADER" /\ header_bytes_discarded > 7)
    <3>1. CASE HeaderUnderWay'
      <4>1. \/ state = "HEADER" /\ header_bytes_discarded' \in
                  {header_bytes_discarded, header_bytes_discarded + 8}
            \/ header_bytes_discarded' <= 7
        BY <3>1, ParserMoves DEF Edge, HeaderUnderWay
      <4>2. header_bytes_discarded' \in Nat /\ header_bytes_discarded' > 15
        BY <3>1, ParserStep DEF Edge, HeaderUnderWay
      <4> QED BY <4>1, <4>2
    <3>2. CASE BeforePayload'
      <4>1. \/ state = "PAYLOAD" /\ ~payload_started
            \/ state = "HEADER" /\ header_bytes_discarded > 15
        BY <3>2, ParserMoves DEF Edge, BeforePayload
      <4> QED BY <4>1 DEF BeforePayload
    <3> QED BY <1>4, <3>1, <3>2
  <2>2. ~udp_payload_valid
    BY <2>1 DEF StrobeState
  <2>3. CASE BeforePayload
    BY <1>2, <1>3, <2>2, <2>3 DEF PacketInv, FreshLog
  <2>4. CASE state = "HEADER" /\ header_bytes_discarded > 7 /\ ~Pulse
    BY <1>2, <1>3, <2>2, <2>4, FreshAtPayload
  <2>5. CASE Pulse
    BY <1>3, <2>2, <2>5, LogMoves
  <2> QED BY <2>1, <2>3, <2>4, <2>5
<1>5. ASSUME udp_payload_start' PROVE packet_log' = << >> /\ ~decoded_valid'
  <2>1. udp_payload_valid'
    BY <1>5, ParserStep DEF Edge, StrobeState
  <2>2. BeforePayload
    BY <1>5, <2>1, ParserMoves DEF Edge, BeforePayload
  <2>3. ~udp_payload_valid
    BY <2>2 DEF StrobeState
  <2> QED BY <1>2, <1>3, <2>2, <2>3 DEF PacketInv, FreshLog
<1>6. ASSUME current_message_is_packet_start' PROVE packet_log' = << >> /\ ~decoded_valid'
  <2>1. /\ udp_payload_start \/ current_message_is_packet_start
        /\ udp_payload_valid => word_index # 3
    BY <1>6, AssemblerStep DEF Edge, StrobeState
  <2> QED BY <1>2, <1>3, <2>1 DEF PacketInv, FreshLog
<1>7. ASSUME decoded_valid', decoded_packet_start' PROVE packet_log' = << >>
  <2>1. current_message_is_packet_start
    BY <1>7, DecoderStep DEF Edge
  <2> QED BY <1>2, <2>1 DEF PacketInv, FreshLog
<1>8. FreshLog'
  BY <1>4, <1>5, <1>6, <1>7 DEF FreshLog
<1>9. VerdictComes'
  <2> SUFFICES ASSUME packet_pending'
               PROVE  \/ fcs_seen' \/ fcs_result_valid' \/ frame_pipe.end'
                      \/ state' \in {"PAYLOAD", "DRAIN"}
                      \/ packet_log' = << >> /\ ~decoded_valid'
    BY DEF VerdictComes
  <2>1. /\ ~Resolving(f) /\ (packet_pending \/ PacketStart)
        /\ fcs_seen' <=> packet_pending /\ (fcs_seen \/ VerdictNow(f))
    BY ControllerMoves DEF Edge, PacketInv, Resolving
  <2>2. CASE packet_pending /\ (fcs_seen \/ fcs_result_valid \/ f.abort)
    BY <2>1, <2>2 DEF VerdictNow
  <2>3. CASE frame_pipe.end
    BY <2>3 DEF Edge, Fcs!Clock, StrobeState
  <2>4. frame_pipe.end' <=> f.end
    BY DEF Edge, Fcs!Clock
  <2>5. CASE state \in {"PAYLOAD", "DRAIN"} /\ ~f.abort
    BY <2>4, <2>5, ParserMoves DEF Edge
  <2>6. CASE packet_pending /\ packet_log = << >> /\ ~decoded_valid
    <3>1. CASE udp_payload_valid
      <4>1. state \in {"PAYLOAD", "DRAIN"} \/ frame_pipe.end
        BY <3>1 DEF StrobeState, FrameState
      <4> QED BY <2>2, <2>3, <2>5, <2>6, <4>1
    <3>2. CASE ~udp_payload_valid
      BY <1>2, <1>3, <2>6, <3>2
    <3> QED BY <3>1, <3>2
  <2>7. CASE ~packet_pending
    <3>1. packet_log' = << >>
      BY <1>2, <2>1, <2>7 DEF PacketInv, FreshLog, PacketStart
    <3>2. word_index = 0
      BY <2>1, <2>7 DEF PacketStart, WordState
    <3> QED BY <1>3, <3>1, <3>2
  <2> QED BY <2>1, <2>2, <2>3, <2>5, <2>6, <2>7 DEF PacketInv, VerdictComes
<1> QED BY <1>1, <1>8, <1>9

(* A clock edge keeps the number of messages bounded and their end mark    *)
(* last.                                                                   *)
LEMMA RoomFlow ==
  ASSUME LineInv, PacketInv, decoded_valid => TrackerMessage \in Guard!Message,
         NEW f, NEW words, NEW m, NEW residue_ok, Edge(f, words, m, residue_ok)
  PROVE  RoomLeft' /\ NothingAfterEnd'
<1> USE DEF LineInv, ParserTypes, StageTypes
<1>1. Len(packet_log) \in Nat /\ Len(packet_log') \in Nat
  BY LogMoves DEF PacketInv, ControllerTypes
<1>2. Len(packet_log') <= Len(packet_log) + One(decoded_valid)
  <2>1. CASE Pulse
    BY <1>1, <2>1, LogMoves DEF One
  <2>2. CASE ~Pulse
    BY <1>1, <2>2, LogMoves DEF One
  <2> QED BY <2>1, <2>2
<1>3. decoded_valid' => udp_payload_valid /\ word_index = 3 /\
                        (decoded_packet_end' <=> udp_payload_end)
  BY DecoderStep DEF Edge
<1>4. ASSUME payload_started' \/ udp_payload_valid'
      PROVE  4 * Len(packet_log') + 4 * One(decoded_valid') + word_index' + Coming'
               <= 4 * MaxMessages
  <2>1. CASE ~payload_started
    <3>1. /\ udp_payload_valid' /\ BeforePayload
          /\ payload_words_remaining' = payload_words_remaining - 1
      BY <1>4, <2>1, ParserMoves DEF Edge, BeforePayload
    <3>2. /\ packet_log = << >> /\ ~decoded_valid /\ ~udp_payload_valid
          /\ word_index = 0 /\ ~udp_packet_abort
      BY <2>1, <3>1 DEF PacketInv, FreshLog, StrobeState, WordState
    <3>3. word_index' = 0 /\ ~decoded_valid'
      BY <1>3, <3>2, AssemblerStep DEF Edge
    <3>4. Len(packet_log') = 0
      BY <1>1, <1>2, <3>2 DEF One
    <3>5. payload_words_remaining <= 4 * MaxMessages /\ payload_words_remaining \in Nat
      BY <3>1, LengthShape DEF FrameState, BeforePayload
    <3> QED BY <3>1, <3>3, <3>4, <3>5, Sizes DEF One, Coming
  <2>2. CASE payload_started
    <3>1. Coming' = payload_words_remaining
      <4>1. CASE udp_payload_valid'
        BY <4>1, ParserMoves DEF Edge, Coming, One
      <4>2. CASE ~udp_payload_valid'
        BY <1>4, <4>2, ParserMoves DEF Edge, Coming, One
      <4> QED BY <4>1, <4>2
    <3>2. ~udp_packet_abort
      BY <2>2 DEF StrobeState
    <3>3. 4 * One(decoded_valid') + word_index' <= word_index + One(udp_payload_valid)
      BY <1>3, <3>2, AssemblerStep DEF Edge, One
    <3>4. 4 * Len(packet_log) + 4 * One(decoded_valid) + word_index
            + payload_words_remaining + One(udp_payload_valid) <= 4 * MaxMessages
      BY <1>1, <2>2, Sizes DEF PacketInv, RoomLeft, Coming, One
    <3>5. word_index' \in 0 .. 3
      BY AssemblerStep DEF Edge
    <3>6. /\ One(decoded_valid) \in Nat /\ One(decoded_valid') \in Nat
          /\ One(udp_payload_valid) \in Nat
      BY DEF One
    <3> DEFINE before == 4 * Len(packet_log) + 4 * One(decoded_valid) + word_index
               after  == 4 * Len(packet_log') + 4 * One(decoded_valid') + word_index'
    <3>7. after \in Nat /\ before \in Nat
      BY <1>1, <3>5, <3>6
    <3>8. after <= before + One(udp_payload_valid)
      <4>1. \A l, k, d, e, w, v, u \in Nat :
              k <= l + d /\ 4 * e + v <= w + u => 4 * k + 4 * e + v <= 4 * l + 4 * d + w + u
        OBVIOUS
      <4>2. word_index \in Nat /\ word_index' \in Nat
        BY <3>5
      <4> HIDE DEF after, before
      <4>3. 4 * Len(packet_log') + 4 * One(decoded_valid') + word_index'
              <= 4 * Len(packet_log) + 4 * One(decoded_valid) + word_index
                   + One(udp_payload_valid)
        BY <1>1, <1>2, <3>3, <3>6, <4>1, <4>2
      <4> QED BY <4>3 DEF after, before
    <3>9. before + payload_words_remaining + One(udp_payload_valid) <= 4 * MaxMessages
      BY <3>4
    <3> HIDE DEF before, after
    <3>10. after + payload_words_remaining <= 4 * MaxMessages
      BY <3>6, <3>7, <3>8, <3>9, Sizes
    <3>11. after + Coming' <= 4 * MaxMessages
      BY <3>1, <3>10
    <3> QED BY <3>11 DEF after
  <2> QED BY <2>1, <2>2
<1>5. ASSUME decoded_valid' PROVE Len(packet_log') < MaxMessages
  <2>1. 4 * Len(packet_log) + 4 * One(decoded_valid) + 3 + 1 <= 4 * MaxMessages
    BY <1>1, <1>3, <1>5, Sizes DEF PacketInv, RoomLeft, Coming, One
  <2> QED BY <1>1, <1>2, <2>1, Sizes DEF One
<1>6. (packet_log' # << >> /\ packet_log'[Len(packet_log')].packet_end) => EndSeen
  <2>1. CASE Pulse
    BY <2>1, LogMoves
  <2>2. CASE ~Pulse
    BY <2>2, LogMoves DEF EndSeen
  <2> QED BY <2>1, <2>2
<1>7. ASSUME decoded_valid', packet_log' # << >>
      PROVE  ~packet_log'[Len(packet_log')].packet_end
  BY <1>3, <1>6, <1>7 DEF PacketInv, NothingAfterEnd
<1>8. ASSUME EndSeen' PROVE ~udp_payload_valid' /\ state' # "PAYLOAD"
  <2>1. CASE decoded_valid' /\ decoded_packet_end'
    <3>1. state \notin {"PAYLOAD", "HEADER"}
      BY <1>3, <2>1 DEF StrobeState, FrameState, BeforePayload
    <3> QED BY <3>1, ParserMoves DEF Edge
  <2>2. CASE ~(decoded_valid' /\ decoded_packet_end')
    <3>1. EndSeen
      BY <1>6, <1>8, <2>2 DEF EndSeen
    <3>2. state # "PAYLOAD" /\ ~HeaderUnderWay
      BY <3>1 DEF PacketInv, NothingAfterEnd, FreshLog, EndSeen
    <3> QED BY <3>2, ParserMoves DEF Edge, HeaderUnderWay
  <2> QED BY <2>1, <2>2
<1> QED BY <1>4, <1>5, <1>7, <1>8 DEF RoomLeft, NothingAfterEnd

(* The tracker's message is one the guard knows.                           *)
LEMMA MessageType ==
  ASSUME TheLine
  PROVE  /\ decoded_valid => TrackerMessage \in Guard!Message
         /\ TrackerMessage \in Guard!Message \cup {Guard!NoMessage}
<1>1. CASE decoded_valid
  <2>1. decoded.sequence_number \in 0 .. SeqModulus - 1
    BY <1>1, ConstantsAssumption DEF TheLine, NumberState
  <2>2. /\ decoded_packet_start \in BOOLEAN /\ decoded_packet_end \in BOOLEAN
        /\ Decoder!IsFullResetAll \in BOOLEAN
    BY DEF TheLine, LineInv, StageTypes, Decoder!IsFullResetAll
  <2>3. TrackerMessage =
          [valid |-> TRUE, seq |-> decoded.sequence_number,
           packet_start |-> decoded_packet_start, packet_end |-> decoded_packet_end,
           full_reset |-> Decoder!IsFullResetAll]
    BY <1>1, Zenon DEF TrackerMessage
  <2>4. TrackerMessage \in Guard!Message
    BY <2>1, <2>2, <2>3 DEF Guard!Message, Guard!Tracker!Message,
       Guard!Tracker!SequenceNumber
  <2> QED BY <2>4
<1>2. CASE ~decoded_valid
  BY <1>2 DEF TrackerMessage
<1> QED BY <1>1, <1>2

(* PacketInv is inductive over TheLine.                                    *)
LEMMA PacketStep ==
  ASSUME TheLine, PacketInv, NEW b, NEW words, NEW m, NEW residue_ok, NEW lookup,
         Cycle(b, words, m, residue_ok, lookup)
  PROVE  PacketInv'
<1> DEFINE f == Pcs!Beat(b)
<1>1. LineInv /\ WireTypes
  BY DEF TheLine
<1>2. Edge(f, words, m, residue_ok)
  BY <1>1, CycleParts DEF Edge
<1> HIDE DEF f
<1>3. decoded_valid => TrackerMessage \in Guard!Message
  BY MessageType
<1>4. PulseAtEnd' /\ Opened' /\ DecodeEnds' /\ AbortedSoon'
  BY <1>1, <1>2, PacketFlow
<1>5. VerdictComes' /\ LogClosed' /\ FreshLog'
  BY <1>1, <1>2, <1>3, LogFlow
<1>6. RoomLeft' /\ NothingAfterEnd'
  BY <1>1, <1>2, <1>3, RoomFlow
<1>7. Guard!Controller!TypeOK'
  BY <1>1, <1>2, ControllerMoves DEF Edge, PacketInv
<1>8. packet_log' \in Seq(Guard!Message)
  BY <1>1, <1>2, <1>3, LogMoves
<1> QED BY <1>4, <1>5, <1>6, <1>7, <1>8 DEF PacketInv, ControllerTypes

(* It holds initially.                                                     *)
LEMMA PacketInit == Init => PacketInv
<1> SUFFICES ASSUME Init PROVE PacketInv
  OBVIOUS
<1>1. Guard!Controller!Init /\ packet_log = << >>
  BY DEF Init, Guard!Init
<1>2. /\ state = "IDLE" /\ payload_started = FALSE /\ udp_payload_valid = FALSE
      /\ udp_payload_start = FALSE /\ decoded_valid = FALSE
      /\ current_message_is_packet_start = FALSE
  BY DEF Init, Udp!Init, Decoder!Init, Assembler!Init
<1>3. Guard!Controller!TypeOK
  BY <1>1 DEF Guard!Controller!Init, Guard!Controller!TypeOK
<1>4. packet_log \in Seq(Guard!Message)
  BY <1>1
<1>5. packet_pending = FALSE /\ packet_commit = FALSE /\ packet_discard = FALSE
  BY <1>1 DEF Guard!Controller!Init
<1>6. ~EndSeen
  BY <1>1, <1>2 DEF EndSeen
<1> QED
  BY <1>1, <1>2, <1>3, <1>4, <1>5, <1>6 DEF PacketInv, ControllerTypes, DecodeEnds,
     AbortedSoon, VerdictComes, PulseAtEnd, Opened, LogClosed, FreshLog, RoomLeft,
     NothingAfterEnd, Pulse, HeaderUnderWay, BeforePayload

(* A stuttering step keeps it.                                             *)
LEMMA PacketStutter == PacketInv /\ UNCHANGED vars => PacketInv'
BY DEF PacketInv, ControllerTypes, DecodeEnds, AbortedSoon, VerdictComes, PulseAtEnd,
   Opened, LogClosed, FreshLog, RoomLeft, NothingAfterEnd, EndSeen, Decoded, InPayload,
   FirstHeaderBeat, HeaderUnderWay, BeforePayload, Pulse, Coming, One,
   Guard!Controller!TypeOK, vars, Guard!vars, Guard!Controller!vars, Guard!history,
   Udp!vars, Assembler!vars, Decoder!vars, Fcs!vars

(***************************************************************************)
(* At every clock edge the packet of the controller, its verdict and its   *)
(* log fit the state of the front end (rx_packet_controller.sv).           *)
(***************************************************************************)
THEOREM PacketCorrect == Spec => []PacketInv
<1>1. TheLine /\ PacketInv /\ Next => PacketInv'
  BY NextIsCycle, PacketStep
<1> QED
  BY <1>1, PacketInit, PacketStutter, LineCorrect, PTL DEF Spec

(* The two invariants are what the contract needs.                         *)
LEMMA ContractHolds == TheLine /\ PacketInv => FrontEndContract
<1> SUFFICES ASSUME TheLine, PacketInv, decoded_valid
             PROVE  Guard!FrontEndContract(TrackerMessage)
  BY DEF FrontEndContract, Guard!FrontEndContract, TrackerMessage, Guard!NoMessage,
     Guard!Tracker!NoMessage
<1>1. TrackerMessage.packet_start <=> decoded_packet_start
  BY DEF TrackerMessage
<1> QED
  BY <1>1 DEF Guard!FrontEndContract, PacketInv, Opened, FreshLog, NothingAfterEnd,
     RoomLeft

(***************************************************************************)
(* The real front end keeps the contract that PacketGuard assumes of it: a *)
(* message reaches the sequence tracker only inside a packet that the      *)
(* controller has opened, with its start and end marks where they belong.  *)
(***************************************************************************)
THEOREM FrontEndCorrect == Spec => []FrontEndContract
BY LineCorrect, PacketCorrect, ContractHolds, PTL

(* A clock edge of the receive path is a step of the packet guard.         *)
LEMMA GuardStep == TheLine /\ PacketInv /\ Next => Guard!Next
<1> SUFFICES ASSUME TheLine, PacketInv, Next PROVE Guard!Next
  OBVIOUS
<1>1. PICK b, words, m, residue_ok, lookup : Cycle(b, words, m, residue_ok, lookup)
  BY NextIsCycle
<1> DEFINE f == Pcs!Beat(b)
<1>2. BeatFits(f) /\ Guard!Clock(ControllerStrobes(f), TrackerMessage)
  BY <1>1, CycleParts DEF TheLine
<1> HIDE DEF f
<1>3. ControllerStrobes(f) \in Guard!Strobes
  <2>1. /\ PacketStart \in BOOLEAN /\ f.abort \in BOOLEAN
        /\ decoded_packet_abort \in BOOLEAN /\ fcs_result_valid \in BOOLEAN
        /\ fcs_ok \in BOOLEAN
    BY <1>2 DEF BeatFits, PacketStart, TheLine, LineInv, StageTypes
  <2> QED BY <2>1 DEF ControllerStrobes, Guard!Strobes
<1>4. Guard!FrontEndContract(TrackerMessage)
  BY ContractHolds DEF FrontEndContract
<1> QED BY <1>2, <1>3, <1>4, MessageType DEF Guard!Next

(***************************************************************************)
(* The receive path of xem8320_top.sv implements PacketGuard, and so every *)
(* theorem about the guard holds of it.                                    *)
(***************************************************************************)
THEOREM ImplementsPacketGuard == Spec => Guard!Spec
<1>1. Init => Guard!Init
  BY DEF Init
<1>2. UNCHANGED vars => UNCHANGED Guard!vars
  BY DEF vars
<1>3. TheLine /\ PacketInv /\ [Next]_vars => [Guard!Next]_(Guard!vars)
  BY <1>2, GuardStep
<1> QED
  BY <1>1, <1>3, LineCorrect, PacketCorrect, PTL DEF Spec, Guard!Spec

(* The constants of the receive path fit the guard.                        *)
LEMMA GuardAssumptions == G!ConstantsAssumption
BY ConstantsAssumption DEF G!ConstantsAssumption

(* The guard of the receive path and the one the theorems of               *)
(* PacketGuard_proofs are about are one specification.                     *)
LEMMA SameGuard == Guard!Spec <=> G!Spec
<1>1. Guard!Init <=> G!Init
  BY DEF Guard!Init, G!Init, Guard!Controller!Init, G!Controller!Init,
     Guard!Tracker!Init, G!Tracker!Init
<1>2. Guard!vars = G!vars
  BY DEF Guard!vars, G!vars, Guard!Controller!vars, G!Controller!vars,
     Guard!Tracker!vars, G!Tracker!vars, Guard!history, G!history
<1>3. Guard!Message = G!Message /\ Guard!NoMessage = G!NoMessage /\ Guard!Strobes = G!Strobes
  BY DEF Guard!Message, G!Message, Guard!NoMessage, G!NoMessage, Guard!Strobes, G!Strobes,
     Guard!Tracker!Message, G!Tracker!Message, Guard!Tracker!NoMessage, G!Tracker!NoMessage,
     Guard!Tracker!SequenceNumber, G!Tracker!SequenceNumber
<1>4. ASSUME NEW s, NEW m
      PROVE  /\ Guard!FrontEndContract(m) <=> G!FrontEndContract(m)
             /\ Guard!Clock(s, m) <=> G!Clock(s, m)
  <2>1. Guard!FrontEndContract(m) <=> G!FrontEndContract(m)
    BY DEF Guard!FrontEndContract, G!FrontEndContract
  <2>2. Guard!ControllerInputs(s, m) = G!ControllerInputs(s, m)
    BY DEF Guard!ControllerInputs, G!ControllerInputs, Guard!Tracker!Mismatch, G!Tracker!Mismatch
  <2>3. ASSUME NEW e PROVE Guard!Controller!Clock(e) <=> G!Controller!Clock(e)
    BY DEF Guard!Controller!Clock, G!Controller!Clock, Guard!Controller!Pulses,
       G!Controller!Pulses, Guard!Controller!Open, G!Controller!Open,
       Guard!Controller!CaptureVerdict, G!Controller!CaptureVerdict,
       Guard!Controller!Collect, G!Controller!Collect, Guard!Controller!Resolve,
       G!Controller!Resolve, Guard!Controller!Idle, G!Controller!Idle,
       Guard!Controller!FcsEvent, G!Controller!FcsEvent,
       Guard!Controller!FcsEventPassed, G!Controller!FcsEventPassed,
       Guard!Controller!FailureEvent, G!Controller!FailureEvent,
       Guard!Controller!DecodeReady, G!Controller!DecodeReady,
       Guard!Controller!ResolveEvent, G!Controller!ResolveEvent,
       Guard!Controller!FailureReady, G!Controller!FailureReady
  <2>4. Guard!Tracker!Clock(m, packet_commit, packet_discard, integrity_failure) <=>
          G!Tracker!Clock(m, packet_commit, packet_discard, integrity_failure)
    BY DEF Guard!Tracker!Clock, G!Tracker!Clock, Guard!Tracker!FaultLatch,
       G!Tracker!FaultLatch, Guard!Tracker!RollBack, G!Tracker!RollBack,
       Guard!Tracker!Verify, G!Tracker!Verify, Guard!Tracker!Advance,
       G!Tracker!Advance, Guard!Tracker!Hold, G!Tracker!Hold,
       Guard!Tracker!Mismatch, G!Tracker!Mismatch,
       Guard!Tracker!IsolatedFullReset, G!Tracker!IsolatedFullReset,
       Guard!Tracker!After, G!Tracker!After
  <2>5. Guard!RecordHistory(s, m) <=> G!RecordHistory(s, m)
    BY DEF Guard!RecordHistory, G!RecordHistory, Guard!Spoiled, G!Spoiled,
       Guard!Tracker!Mismatch, G!Tracker!Mismatch
  <2> QED BY <2>1, <2>2, <2>3, <2>4, <2>5 DEF Guard!Clock, G!Clock
<1>5. Guard!Next <=> G!Next
  BY <1>3, <1>4 DEF Guard!Next, G!Next
<1>6. UNCHANGED Guard!vars <=> UNCHANGED G!vars
  BY DEF Guard!vars, G!vars, Guard!Controller!vars, G!Controller!vars,
     Guard!Tracker!vars, G!Tracker!vars, Guard!history, G!history
<1>7. [Guard!Next]_(Guard!vars) <=> [G!Next]_(G!vars)
  BY <1>5, <1>6
<1> QED BY <1>1, <1>7, PTL DEF Guard!Spec, G!Spec
(* So are their invariants.                                                *)
LEMMA SameInvariants ==
  /\ Guard!TypeOK <=> G!TypeOK
  /\ Guard!VerdictMatchesPacket <=> G!VerdictMatchesPacket
  /\ Guard!SpeculationMatchesPacket <=> G!SpeculationMatchesPacket
<1>1. Guard!TypeOK <=> G!TypeOK
  BY DEF Guard!TypeOK, G!TypeOK, Guard!Controller!TypeOK, G!Controller!TypeOK,
     Guard!Tracker!TypeOK, G!Tracker!TypeOK, Guard!Message, G!Message,
     Guard!Tracker!Message, G!Tracker!Message,
     Guard!Tracker!SequenceNumber, G!Tracker!SequenceNumber
<1>2. Guard!VerdictMatchesPacket <=> G!VerdictMatchesPacket
  BY DEF Guard!VerdictMatchesPacket, G!VerdictMatchesPacket
<1>3. Guard!SpeculationMatchesPacket <=> G!SpeculationMatchesPacket
  BY DEF Guard!SpeculationMatchesPacket, G!SpeculationMatchesPacket,
     Guard!NextExpected, G!NextExpected, Guard!IsRecoveryPacket, G!IsRecoveryPacket,
     Guard!Tracker!IsolatedFullReset, G!Tracker!IsolatedFullReset,
     Guard!Tracker!After, G!Tracker!After
<1> QED BY <1>1, <1>2, <1>3

(***************************************************************************)
(* The invariants of the guard hold of the receive path: every packet is   *)
(* resolved once, as what the front end delivered, and the speculative     *)
(* sequence register follows the packet.                                   *)
(***************************************************************************)
THEOREM GuardHolds ==
  Spec => [](/\ Guard!TypeOK /\ Guard!VerdictMatchesPacket
             /\ Guard!SpeculationMatchesPacket)
<1>1. G!Spec => []G!TypeOK
  BY GuardAssumptions, G!TypeCorrect
<1>2. G!Spec => []G!VerdictMatchesPacket
  BY GuardAssumptions, G!VerdictCorrect
<1>3. G!Spec => []G!SpeculationMatchesPacket
  BY GuardAssumptions, G!SpeculationCorrect
<1> QED
  BY <1>1, <1>2, <1>3, SameInvariants, SameGuard, ImplementsPacketGuard, PTL

(***************************************************************************)
(* The stream fault of the receive path falls only with an intact packet   *)
(* that holds one full RESET_ALL and nothing else.                         *)
(***************************************************************************)
THEOREM FaultHolds == Spec => Guard!FaultClearsOnlyByRecovery
<1>1. G!Spec => G!FaultClearsOnlyByRecovery
  BY GuardAssumptions, G!RecoveryOnly
<1>2. Guard!IsRecoveryPacket <=> G!IsRecoveryPacket
  BY DEF Guard!IsRecoveryPacket, G!IsRecoveryPacket,
     Guard!Tracker!IsolatedFullReset, G!Tracker!IsolatedFullReset
<1>3. \A n : Guard!Tracker!After(n) = G!Tracker!After(n)
  BY DEF Guard!Tracker!After, G!Tracker!After
<1>4. UNCHANGED Guard!vars <=> UNCHANGED G!vars
  BY DEF Guard!vars, G!vars, Guard!Controller!vars, G!Controller!vars,
     Guard!Tracker!vars, G!Tracker!vars, Guard!history, G!history
<1>5. [stream_fault /\ ~stream_fault' =>
         /\ packet_commit /\ ~packet_invalid /\ G!IsRecoveryPacket
         /\ verified_next_sequence_number' = G!Tracker!After(packet_log[1].seq)]_(G!vars)
      =>
      [stream_fault /\ ~stream_fault' =>
         /\ packet_commit /\ ~packet_invalid /\ Guard!IsRecoveryPacket
         /\ verified_next_sequence_number' = Guard!Tracker!After(packet_log[1].seq)]_(Guard!vars)
  BY <1>2, <1>3, <1>4
<1> QED
  BY <1>1, <1>5, SameGuard, ImplementsPacketGuard, PTL
     DEF Guard!FaultClearsOnlyByRecovery, G!FaultClearsOnlyByRecovery

(***************************************************************************)
(* Packet by packet, the receive path is the StreamGuard: a packet is      *)
(* counted as a whole or not at all.                                       *)
(***************************************************************************)
THEOREM StreamHolds == Spec => Guard!ImplementsStreamGuard
<1>1. G!Spec => G!ImplementsStreamGuard
  BY GuardAssumptions, G!Refinement
<1>2. G!Abstract!Init <=> Guard!Abstract!Init
  BY DEF G!Abstract!Init, Guard!Abstract!Init
<1>3. G!Abstract!Next <=> Guard!Abstract!Next
  BY DEF Guard!Abstract!Next, G!Abstract!Next, Guard!Abstract!Deliver,
       G!Abstract!Deliver, Guard!Abstract!OutOfSequence,
       G!Abstract!OutOfSequence, Guard!Abstract!NextExpected,
       G!Abstract!NextExpected, Guard!Abstract!IsRecovery,
       G!Abstract!IsRecovery, Guard!Abstract!Spoil, G!Abstract!Spoil,
       Guard!Abstract!Close, G!Abstract!Close, Guard!Abstract!Commit,
       G!Abstract!Commit, Guard!Abstract!Recover, G!Abstract!Recover,
       Guard!Abstract!Ignore, G!Abstract!Ignore, Guard!Abstract!Discard,
       G!Abstract!Discard, Guard!Abstract!Message, G!Abstract!Message,
       Guard!Abstract!After, G!Abstract!After, Guard!Abstract!SequenceNumber,
       G!Abstract!SequenceNumber
<1>4. UNCHANGED G!Abstract!vars <=> UNCHANGED Guard!Abstract!vars
  BY DEF G!Abstract!vars, Guard!Abstract!vars
<1>5. [G!Abstract!Next]_(G!Abstract!vars) => [Guard!Abstract!Next]_(Guard!Abstract!vars)
  BY <1>3, <1>4
<1> QED
  BY <1>1, <1>2, <1>5, SameGuard, ImplementsPacketGuard, PTL
     DEF G!ImplementsStreamGuard, Guard!ImplementsStreamGuard,
         G!Abstract!Spec, Guard!Abstract!Spec

(* A message takes four cycles to arrive, so the decision of an order, two *)
(* cycles after it, meets no other message.                                *)
WritesApart ==
  /\ lookup_valid => word_index \in {0, 1}
  /\ decision_valid => ~decoded_valid

(* It is inductive over TheLine.                                           *)
LEMMA WritesApartStep == TheLine /\ WritesApart /\ [Next]_vars => WritesApart'
<1> SUFFICES ASSUME TheLine, WritesApart, [Next]_vars PROVE WritesApart'
  OBVIOUS
<1>1. CASE UNCHANGED vars
  BY <1>1 DEF WritesApart, vars, Risk!vars, Assembler!vars, Decoder!vars
<1>2. CASE Next
  <2>1. PICK b, words, m, residue_ok, lookup : Cycle(b, words, m, residue_ok, lookup)
    BY <1>2, NextIsCycle
  <2>2. /\ lookup_valid' = Decoder!IsOrderIntent
        /\ decision_valid' = lookup_valid
    BY <2>1 DEF Cycle, Components, Risk!Clock, Risk!Decide
  <2>3. Assembler!Clock(UdpStrobes) /\ Decoder!Clock(AssemblerStrobes, m)
    BY <2>1, CycleParts DEF TheLine
  <2>4. Decoder!IsOrderIntent => word_index = 0
    BY DEF Decoder!IsOrderIntent, TheLine, LineInv, WordState
  <2>5. word_index = 0 => word_index' \in {0, 1}
    BY <2>3, AssemblerStep DEF TheLine
  <2>6. decoded_valid' => word_index = 3
    BY <2>3, DecoderStep DEF TheLine
  <2> QED BY <2>2, <2>4, <2>5, <2>6 DEF WritesApart
<1> QED BY <1>1, <1>2

(***************************************************************************)
(* An order start and a decision are never written to the response FIFO in *)
(* one cycle (rx_to_tx_cdc_fifo.sv:48).                                    *)
(***************************************************************************)
THEOREM ResponseWritesApart == Spec => []OneResponseWrite
<1>1. Init => WritesApart
  BY DEF Init, Risk!Init, WritesApart
<1>2. WritesApart => OneResponseWrite
  BY DEF WritesApart, OneResponseWrite, Decoder!IsOrderIntent
<1> QED
  BY <1>1, <1>2, WritesApartStep, LineCorrect, PTL DEF Spec

-----------------------------------------------------------------------------
(* The frame on the wire and the packet of the controller.                 *)

(* The parser has the alignment of the frame on the wire.                  *)
Aligned == payload_alignment = IF wire.start = "start_0" THEN "START_0" ELSE "START_4"

(* The last message decoded has the number before next.                    *)
LastNumber(next) ==
  IF decoded_valid THEN decoded.sequence_number + 1 = next
  ELSE packet_log # << >> => packet_log[Len(packet_log)].seq + 1 = next

(* The parser is in the header of the frame on the wire, at its block.     *)
InHeader ==
  /\ state = "HEADER" /\ sender_next = arriving_next + wire.messages
  /\ header_bytes_discarded = 8 * wire.position - IF wire.start = "start_0" THEN 1 ELSE 5
  /\ header_bytes_discarded = 47 => payload_words_remaining = 4 * wire.messages

(* The parser is in the payload of the frame on the wire, at its block,    *)
(* and has passed on every message up to there.                            *)
InWords ==
  /\ state = "PAYLOAD" \/ (state = "DRAIN" /\ payload_started)
  /\ payload_words_remaining = 4 * wire.messages + 7 - wire.position
  /\ payload_started <=> payload_words_remaining < 4 * wire.messages
  /\ 4 * (sender_next - arriving_next) = word_index + Coming
  /\ Len(packet_log) + One(decoded_valid) + (sender_next - arriving_next) = wire.messages
  /\ LastNumber(arriving_next)

(* All messages of the frame are decoded, or in the last two stages.       *)
FrameEnded ==
  /\ wire.position = 0 /\ wire.messages > 0 /\ ~Pulse
  /\ sender_next = arriving_next + One(udp_payload_valid)
  /\ udp_payload_valid => word_index = 3
  /\ Len(packet_log) + One(decoded_valid) + One(udp_payload_valid) = wire.messages
  /\ LastNumber(arriving_next)

(* The block counter of the wire is inside the frame.                      *)
FrameOnWire == wire.position > 0 => wire.messages > 0 /\ wire.position <= LastPosition(wire)

(* On an undamaged frame the parser is where the wire is.                  *)
InStep == ~damaged /\ state # "IDLE" => wire.position > 0 /\ Aligned /\ (InHeader \/ InWords)

(* The end of an undamaged frame finds it received whole.                  *)
EndInStep == ~damaged /\ frame_pipe.end => FrameEnded

(* The FCS result and the end of the next frame do not meet, and no        *)
(* verdict is there before its frame ends.                                 *)
VerdictAlone ==
  /\ fcs_result_valid => ~frame_pipe.end /\ ~Pulse
  /\ frame_pipe.end => ~(packet_pending /\ fcs_seen)

(* A good FCS result is about an intact frame, all of whose messages are   *)
(* in the packet.                                                          *)
GoodVerdict ==
  fcs_result_valid /\ fcs_ok =>
    /\ last_frame.intact /\ last_frame.messages > 0
    /\ Len(packet_log) + One(decoded_valid) = last_frame.messages
    /\ LastNumber(last_frame.next)

(* A commit is about an intact frame, all of whose messages are in the     *)
(* packet.                                                                 *)
CommitIsFrame ==
  packet_commit => 
    /\ last_frame.intact /\ last_frame.messages > 0
    /\ Len(packet_log) = last_frame.messages
    /\ packet_log[Len(packet_log)].seq + 1 = last_frame.next

(* The invariant that ties the packet to the frame.                        *)
SyncInv == FrameOnWire /\ InStep /\ EndInStep /\ VerdictAlone /\ GoodVerdict /\ CommitIsFrame

(* What the host sends carries the next number and is well formed          *)
(* (internal_protocol_decoder.sv).                                         *)
LEMMA SentIsValid ==
  ASSUME NEW m \in SentMessages
  PROVE  /\ m.sequence_number = arriving_next
         /\ Decoder!FormatValid(m, Assembler!MessagePacketEnd(UdpStrobes))
<1> DEFINE last == Assembler!MessagePacketEnd(UdpStrobes)
<1>1. CASE m = Update(arriving_next)
  <2>1. /\ m.type = 2 /\ m.flags = 0 /\ m.reserved = 0 /\ m.symbol_id = 1
        /\ m.sequence_number = arriving_next
        /\ m["payload_0"] = 0 /\ m["payload_1"] = 0
        /\ m["payload_2"] = 0 /\ m["payload_3"] = 0
    BY <1>1 DEF Update, Fields, Decoder!TOB_UPDATE, Decoder!CONFIG_CONTROL
  <2>2. /\ Decoder!Zero(m, {"payload_0", "payload_1"})
        /\ Decoder!Zero(m, {"payload_2", "payload_3"})
    BY <2>1 DEF Decoder!Zero
  <2>3. Decoder!TopOfBookFieldsValid(m)
    <3>1. m.flags < 4 /\ m.symbol_id # 0
      BY <2>1
    <3> QED BY <3>1, <2>2, Zenon DEF Decoder!TopOfBookFieldsValid
  <2>4. Decoder!TypeFieldsValid(m, last) = Decoder!TopOfBookFieldsValid(m)
    BY <2>1 DEF Decoder!TypeFieldsValid,
     Decoder!TOB_UPDATE, Decoder!ORDER_INTENT, Decoder!CONFIG_CONTROL,
     Decoder!SESSION_STATUS, Decoder!SYMBOL_STATUS
  <2> QED BY <2>1, <2>3, <2>4, Zenon DEF Decoder!FormatValid
<1>2. CASE m = Intent(arriving_next) /\ last
  <2>1. /\ m.type = 4 /\ m.flags = 0 /\ m.reserved = 0 /\ m.symbol_id = 1
        /\ m.payload_0 = 1 /\ m.sequence_number = arriving_next
    BY <1>2 DEF Intent, Fields, Risk!ORDER_SIDE_BUY, Decoder!ORDER_INTENT,
       Decoder!CONFIG_CONTROL
  <2> QED BY <1>2, <2>1 DEF Decoder!FormatValid, Decoder!TypeFieldsValid,
     Decoder!TOB_UPDATE, Decoder!ORDER_INTENT, Decoder!SYMBOL_STATUS,
     Decoder!CONFIG_CONTROL, Decoder!SESSION_STATUS
<1>3. CASE m = FullReset(arriving_next)
  <2>1. /\ m.type = 5 /\ m.flags = 0 /\ m.reserved = 0 /\ m["symbol_id"] = 0
        /\ m.sequence_number = arriving_next
        /\ m.payload_0 = 1 /\ m.payload_1 = 0 /\ m["payload_2"] = 0
    BY <1>3 DEF FullReset, Fields, Decoder!CONFIG_CONTROL, Decoder!CONFIG_RESET_ALL
  <2>2. Decoder!Zero(m, {"symbol_id", "payload_2"}) /\ m.payload_1 < 16
    BY <2>1 DEF Decoder!Zero
  <2>3. Decoder!ConfigFieldsValid(m) =
          (Decoder!Zero(m, {"symbol_id", "payload_2"}) /\ m.payload_1 < 16)
    BY <2>1 DEF Decoder!ConfigFieldsValid, Decoder!CONFIG_RESET_ALL, Decoder!CONFIG_RESET_SYMBOL,
       Decoder!CONFIG_SET_SYMBOL_ENABLED, Decoder!CONFIG_SET_MAX_ORDER_QTY,
       Decoder!CONFIG_SET_PRICE_BAND_TICKS, Decoder!CONFIG_SET_MAX_NOTIONAL,
     Decoder!CONFIG_NOP
  <2>4. Decoder!TypeFieldsValid(m, last) = (m.flags = 0 /\ Decoder!ConfigFieldsValid(m))
    BY <2>1 DEF Decoder!TypeFieldsValid,
     Decoder!TOB_UPDATE, Decoder!ORDER_INTENT, Decoder!CONFIG_CONTROL,
     Decoder!SESSION_STATUS, Decoder!SYMBOL_STATUS
  <2> QED BY <2>1, <2>2, <2>3, <2>4, Zenon DEF Decoder!FormatValid
<1> QED BY <1>1, <1>2, <1>3 DEF SentMessages

(* What the host sends is decoded and no protocol error is found.          *)
LEMMA SentIsDecoded ==
  ASSUME LineInv, NEW m, Decoder!Clock(AssemblerStrobes, m),
         AssemblerStrobes.valid => m \in SentMessages
  PROVE  /\ AssemblerStrobes.valid <=> udp_payload_valid /\ word_index = 3
         /\ decoded_valid' <=> udp_payload_valid /\ word_index = 3
         /\ decoded_valid' => decoded'.sequence_number = arriving_next
         /\ decoded_packet_abort' <=> udp_packet_abort
         /\ ~protocol_error'
<1> DEFINE a == AssemblerStrobes
<1>1. /\ a.abort <=> udp_packet_abort
      /\ a.valid <=> udp_payload_valid /\ word_index = 3
      /\ a.valid => ~a.abort
      /\ a.packet_end = Assembler!MessagePacketEnd(UdpStrobes)
      /\ a.abort \in BOOLEAN
  BY DEF AssemblerStrobes, UdpStrobes, Assembler!MessageValid, LineInv, StageTypes,
     ParserTypes, StrobeState
<1> HIDE DEF a
<1>2. CASE Decoder!PassAbort(a)
  BY <1>1, <1>2 DEF Decoder!PassAbort, Decoder!Quiet, a
<1>3. CASE Decoder!Decode(a, m)
  <2>1. /\ m.sequence_number = arriving_next /\ Decoder!FormatValid(m, a.packet_end)
        /\ udp_payload_valid /\ word_index = 3
    BY <1>1, <1>3, SentIsValid DEF Decoder!Decode, a
  <2>2. /\ decoded_valid' = TRUE /\ decoded' = m
    BY <1>3, <2>1 DEF Decoder!Decode
  <2>3. decoded_packet_abort' = ~Decoder!FormatValid(m, a.packet_end)
    BY <1>3, <2>1 DEF Decoder!Decode
  <2>4. protocol_error' = ~Decoder!FormatValid(m, a.packet_end)
    BY <1>3, <2>1 DEF Decoder!Decode
  <2>5. ~udp_packet_abort
    BY <1>1, <1>3 DEF Decoder!Decode
  <2> QED BY <1>1, <2>1, <2>2, <2>3, <2>4, <2>5 DEF a
<1>4. CASE Decoder!NoMessage(a)
  BY <1>1, <1>4 DEF Decoder!NoMessage, Decoder!Quiet, a
<1> QED
  BY <1>2, <1>3, <1>4 DEF Decoder!Clock, a

(* The assembler completes a message in this cycle.                        *)
Message == udp_payload_valid /\ word_index = 3

(* A clock edge keeps the count of the messages and their numbers.         *)
LEMMA CountStep ==
  ASSUME LineInv, PacketInv, decoded_valid => TrackerMessage \in Guard!Message,
         NEW f, NEW words, NEW m, NEW residue_ok, Edge(f, words, m, residue_ok),
         ~Pulse, AssemblerStrobes.valid => m \in SentMessages,
         arriving_next \in Nat, LastNumber(arriving_next)
  PROVE  /\ decoded_valid' <=> Message
         /\ decoded_packet_abort' <=> udp_packet_abort
         /\ Len(packet_log) \in Nat /\ Len(packet_log') \in Nat
         /\ Len(packet_log') = Len(packet_log) + One(decoded_valid)
         /\ IF decoded_valid' THEN decoded'.sequence_number = arriving_next
            ELSE packet_log' # << >> =>
                   packet_log'[Len(packet_log')].seq + 1 = arriving_next
<1>1. /\ decoded_valid' <=> Message
      /\ decoded_packet_abort' <=> udp_packet_abort
      /\ decoded_valid' => decoded'.sequence_number = arriving_next
  BY SentIsDecoded DEF Edge, Message
<1>2. Len(packet_log) \in Nat /\ Len(packet_log') \in Nat
  BY LogMoves DEF PacketInv, ControllerTypes
<1>3. CASE decoded_valid
  BY <1>1, <1>2, <1>3, LogMoves DEF One, LastNumber
<1>4. CASE ~decoded_valid
  BY <1>1, <1>2, <1>4, LogMoves DEF One, LastNumber
<1> QED BY <1>1, <1>2, <1>3, <1>4 DEF LineInv, StageTypes

(* What a clock edge does to the frame on the wire.                        *)
LEMMA FrameMoves ==
  ASSUME WireTypes, FrameOnWire,
         NEW b, NEW words, NEW m, NEW residue_ok, NEW lookup,
         Cycle(b, words, m, residue_ok, lookup)
  PROVE  /\ Starting =>
              /\ wire'.position = 1 /\ wire'.start \in {"start_0", "start_4"}
              /\ wire'.messages \in 1 .. MaxMessages
              /\ sender_next' = sender_next + wire'.messages
              /\ damaged' <=> b.kind = "idle"
              /\ b.kind = wire'.start \/ b.kind = "idle"
         /\ ~Starting /\ wire.position = 0 => wire'.position = 0 /\ b.kind \in {"none", "idle"}
         /\ ~Starting /\ wire.position > 0 => 
              /\ wire'.start = wire.start /\ wire'.messages = wire.messages
              /\ b.kind = "none" => wire'.position = wire.position
              /\ b.kind # "none" => wire'.position =
                   IF wire.position = LastPosition(wire) THEN 0 ELSE wire.position + 1
         /\ ~Starting /\ ~damaged' =>
              /\ ~damaged /\ (AssemblerStrobes.valid => m \in SentMessages)
              /\ wire.position > 0 =>
                   /\ words = 4 * wire.messages
                   /\ b = Blk("none") \/ b = ScriptedBlock(wire)
<1> USE DEF WireTypes, FrameOnWire
<1>1. CASE Gap(b)
  <2>1. ~Starting /\ b = Blk("none") /\ b.kind = "none" /\ wire' = wire
    BY <1>1 DEF Gap, Starting, Blk
  <2>2. damaged' = (damaged \/ DamagedNow(b, words, m))
    BY <2>1 DEF Cycle, WireDamage, Starting
  <2>3. ~damaged' => /\ ~damaged /\ (AssemblerStrobes.valid => m \in SentMessages)
                     /\ wire.position > 0 => words = 4 * wire.messages
    BY <2>2 DEF DamagedNow
  <2> QED BY <2>1, <2>3
<1>2. CASE IdleLine(b)
  <2>1. ~Starting /\ b.kind = "idle" /\ wire'.position = 0 /\ wire.position = 0
    BY <1>2 DEF IdleLine, Starting, Blk, NoFrame
  <2>2. damaged' = (damaged \/ DamagedNow(b, words, m))
    BY <2>1 DEF Cycle, WireDamage, Starting
  <2>3. ~damaged' => ~damaged /\ (AssemblerStrobes.valid => m \in SentMessages)
    BY <2>2 DEF DamagedNow
  <2> QED BY <2>1, <2>3
<1>3. CASE StartFrame(b)
  <2>1. PICK start \in {"start_0", "start_4"}, n \in 1 .. MaxMessages :
          /\ b \in {Blk(start), Blk("idle")}
          /\ wire' = [position |-> 1, start |-> start, messages |-> n,
                      idle_seen |-> FALSE]
          /\ sender_next' = sender_next + n
    BY <1>3 DEF StartFrame
  <2>2. Starting /\ b.kind \in {start, "idle"} /\ (b = Blk("idle") <=> b.kind = "idle")
    BY <1>3, <2>1 DEF StartFrame, Starting, Blk
  <2>3. damaged' = (b = Blk("idle"))
    BY <2>2 DEF Cycle, WireDamage, Starting
  <2> QED BY <2>1, <2>2, <2>3
<1>4. CASE SendBlock(b)
  <2>1. ~Starting /\ wire.position > 0
    BY <1>4 DEF SendBlock, Starting
  <2>2. b.kind # "none"
    BY <1>4 DEF SendBlock, ScriptedBlock, DamagedBlocks, Blk, Term
  <2>3. /\ wire'.start = wire.start /\ wire'.messages = wire.messages
        /\ wire'.position = IF wire.position = LastPosition(wire) THEN 0 ELSE wire.position + 1
    BY <1>4 DEF SendBlock
  <2>4. damaged' = (damaged \/ DamagedNow(b, words, m))
    BY <2>1 DEF Cycle, WireDamage, Starting
  <2>5. ~damaged' => /\ ~damaged /\ (AssemblerStrobes.valid => m \in SentMessages)
                     /\ words = 4 * wire.messages
                     /\ b = Blk("none") \/ b = ScriptedBlock(wire)
    BY <2>1, <2>4 DEF DamagedNow
  <2> QED BY <2>1, <2>2, <2>3, <2>5
<1> QED
  BY <1>1, <1>2, <1>3, <1>4 DEF Cycle

(* The counts of a payload under way, whichever way the parser moves.      *)
LEMMA CountsStay ==
  ASSUME TheLine, PacketInv, InStep, FrameOnWire, NEW f,
         NEW words, NEW m, NEW residue_ok, Edge(f, words, m, residue_ok),
         AssemblerStrobes.valid => m \in SentMessages,
         ~damaged, InWords, wire.position > 0,
         arriving_next' = arriving_next + One(Message), sender_next' = sender_next,
         wire'.messages = wire.messages,
         ~f.abort, udp_payload_valid' => payload_words_remaining' = payload_words_remaining - 1,
         ~udp_payload_valid' => payload_words_remaining' = payload_words_remaining
  PROVE  /\ 4 * (sender_next' - arriving_next') = word_index' + Coming'
         /\ Len(packet_log') + One(decoded_valid') + (sender_next' - arriving_next')
              = wire'.messages
         /\ LastNumber(arriving_next)'
<1> USE DEF TheLine
<1>1. ~Pulse
  BY DEF InWords, PacketInv, PulseAtEnd
<1>2. decoded_valid => TrackerMessage \in Guard!Message
  BY MessageType
<1>3. arriving_next \in Nat /\ sender_next \in Nat
  BY DEF WireTypes
<1>4. LastNumber(arriving_next)
  BY DEF InWords
<1>5. /\ decoded_valid' <=> Message
      /\ Len(packet_log) \in Nat /\ Len(packet_log') \in Nat
      /\ Len(packet_log') = Len(packet_log) + One(decoded_valid)
      /\ IF decoded_valid' THEN decoded'.sequence_number = arriving_next
         ELSE packet_log' # << >> =>
                packet_log'[Len(packet_log')].seq + 1 = arriving_next
  BY <1>1, <1>2, <1>3, <1>4, CountStep
<1>6. LastNumber(arriving_next)'
  BY <1>3, <1>5 DEF LastNumber, One
<1>7. Len(packet_log) + One(decoded_valid) + (sender_next - arriving_next) = wire.messages
  BY DEF InWords
<1>8. Len(packet_log') + One(decoded_valid') + (sender_next' - arriving_next')
              = wire'.messages
  <2>1. One(decoded_valid') = One(Message)
    BY <1>5 DEF One
  <2>2. One(Message) \in Int /\ One(decoded_valid) \in Int
    BY DEF One
  <2> QED BY <1>3, <1>5, <1>7, <2>1, <2>2
<1>9. word_index' = IF ~udp_payload_valid THEN word_index
                    ELSE IF word_index = 3 THEN 0 ELSE word_index + 1
  <2>1. ~udp_packet_abort \/ (~payload_started /\ state = "PAYLOAD")
    BY DEF InWords, LineInv, StrobeState
  <2>2. ~udp_packet_abort
    BY <2>1 DEF LineInv, StrobeState, BeforePayload
  <2> QED BY <2>2, AssemblerStep DEF Edge
<1>10. Coming' = payload_words_remaining
  BY DEF Coming, One, LineInv, ParserTypes
<1>11. 4 * (sender_next - arriving_next) =
         word_index + payload_words_remaining + One(udp_payload_valid)
  BY DEF InWords, Coming, One, LineInv, ParserTypes, StageTypes
<1>12. 4 * (sender_next' - arriving_next') = word_index' + payload_words_remaining
  BY <1>3, <1>9, <1>11 DEF Message, One, LineInv, ParserTypes, StageTypes
<1> QED BY <1>6, <1>8, <1>10, <1>12

(* The beats of the blocks an undamaged frame has.                         *)
LEMMA BlockBeats ==
  ASSUME inside_frame \in BOOLEAN, NEW b
  PROVE  LET f == Pcs!Beat(b)
         IN  /\ b = Blk("none") => ~f.valid /\ ~f.abort
             /\ inside_frame /\ b = Blk("data") =>
                  f.valid /\ f.keep = 8 /\ ~f.end /\ ~f.abort
             /\ inside_frame /\ b = Term(6) => f.valid /\ f.keep = 6 /\ f.end /\ ~f.abort
             /\ inside_frame /\ b = Term(2) => f.valid /\ f.keep = 2 /\ f.end /\ ~f.abort
             /\ ~inside_frame /\ b.kind = "start_0" => f.valid /\ f.keep = 7 /\ f.start
             /\ ~inside_frame /\ b.kind = "start_4" => f.valid /\ f.keep = 3 /\ f.start
<1> DEFINE f == Pcs!Beat(b)
           start == Pcs!FrameStart(b)
           end   == Pcs!FrameEnd(b)
           abort == Pcs!FrameAbort(b)
<1>1. /\ f.valid = (start \/ end \/ (inside_frame /\ b.kind = "data"))
      /\ f.start = start /\ f.end = end /\ f.abort = abort
      /\ f.keep = IF f.valid THEN Pcs!Keep(b) ELSE 0
  BY DEF Pcs!Beat
<1>2. /\ start <=> ~inside_frame /\ b.kind \in {"start_0", "start_4"}
      /\ end <=> inside_frame /\ b.kind = "term"
      /\ inside_frame /\ b.kind \in {"data", "term"} => ~abort
      /\ b.kind = "none" => ~abort
      /\ start \in BOOLEAN /\ end \in BOOLEAN /\ abort \in BOOLEAN
  BY DEF Pcs!FrameStart, Pcs!FrameEnd, Pcs!FrameAbort, Pcs!BadBlock, Pcs!SequenceError
<1>3. /\ Blk("none").kind = "none" /\ Blk("data").kind = "data"
      /\ Term(6).kind = "term" /\ Term(2).kind = "term"
      /\ Term(6).bytes = 6 /\ Term(2).bytes = 2
  BY DEF Blk, Term
<1>4. /\ b.kind = "data" => Pcs!Keep(b) = 8
      /\ b.kind = "start_0" => Pcs!Keep(b) = 7
      /\ b.kind = "start_4" => Pcs!Keep(b) = 3
      /\ b.kind = "term" => Pcs!Keep(b) = b.bytes
  BY DEF Pcs!Keep
<1> HIDE DEF f, start, end, abort
<1>5. b = Blk("none") => ~f.valid /\ ~f.abort
  BY <1>1, <1>2, <1>3
<1>6. inside_frame /\ b = Blk("data") => f.valid /\ f.keep = 8 /\ ~f.end /\ ~f.abort
  BY <1>1, <1>2, <1>3, <1>4
<1>7. /\ inside_frame /\ b = Term(6) => f.valid /\ f.keep = 6 /\ f.end /\ ~f.abort
      /\ inside_frame /\ b = Term(2) => f.valid /\ f.keep = 2 /\ f.end /\ ~f.abort
  BY <1>1, <1>2, <1>3, <1>4
<1>8. /\ ~inside_frame /\ b.kind = "start_0" => f.valid /\ f.keep = 7 /\ f.start
      /\ ~inside_frame /\ b.kind = "start_4" => f.valid /\ f.keep = 3 /\ f.start
  BY <1>1, <1>2, <1>4
<1> QED BY <1>5, <1>6, <1>7, <1>8 DEF f

(* An undamaged cycle in the middle of a frame.                            *)
MidFrame(b, f, words, m, residue_ok) ==
  /\ Edge(f, words, m, residue_ok)
  /\ f.valid \/ f.abort => ~(b = Blk("none"))
  /\ ~f.abort /\ ~f.start
  /\ b = Blk("none") => ~f.valid
  /\ b = Blk("data") => f.valid /\ f.keep = 8 /\ ~f.end
  /\ b = Term(6) => f.valid /\ f.keep = 6 /\ f.end
  /\ b = Term(2) => f.valid /\ f.keep = 2 /\ f.end
  /\ b = Blk("none") \/ b = ScriptedBlock(wire)
  /\ words = 4 * wire.messages
  /\ AssemblerStrobes.valid => m \in SentMessages
  /\ wire'.start = wire.start /\ wire'.messages = wire.messages
  /\ wire'.position = IF b = Blk("none") THEN wire.position
                      ELSE IF wire.position = LastPosition(wire) THEN 0
                      ELSE wire.position + 1
  /\ sender_next' = sender_next /\ arriving_next' = arriving_next + One(Message)
  /\ wire.position > 0 /\ wire.messages > 0 /\ wire.position <= LastPosition(wire)
  /\ ~damaged /\ Aligned

(* A clock edge of an undamaged frame is one of those.                     *)
LEMMA MidFrameStep ==
  ASSUME TheLine, SyncInv, NEW b, NEW words, NEW m, NEW residue_ok, NEW lookup,
         Cycle(b, words, m, residue_ok, lookup), ~Starting, ~damaged', state # "IDLE"
  PROVE  MidFrame(b, Pcs!Beat(b), words, m, residue_ok)
<1> DEFINE f == Pcs!Beat(b)
<1>1. Edge(f, words, m, residue_ok)
  BY CycleParts DEF Edge, TheLine
<1>2. /\ ~damaged /\ (AssemblerStrobes.valid => m \in SentMessages)
      /\ wire.position > 0 =>
           /\ words = 4 * wire.messages
           /\ b = Blk("none") \/ b = ScriptedBlock(wire)
           /\ wire'.start = wire.start /\ wire'.messages = wire.messages
           /\ b.kind = "none" => wire'.position = wire.position
           /\ b.kind # "none" => wire'.position =
                   IF wire.position = LastPosition(wire) THEN 0 ELSE wire.position + 1
  BY FrameMoves DEF TheLine, SyncInv
<1>3. /\ wire.position > 0 /\ wire.messages > 0 /\ wire.position <= LastPosition(wire)
      /\ Aligned
  BY <1>2 DEF SyncInv, InStep, FrameOnWire
<1>4. sender_next' = sender_next /\ arriving_next' = arriving_next + One(Message)
  BY WireStep DEF TheLine, Message
<1>5. inside_frame /\ inside_frame \in BOOLEAN
  BY DEF TheLine, LineInv, FrameState, ParserTypes
<1>6. /\ b = Blk("none") => ~f.valid /\ ~f.abort
      /\ b = Blk("data") => f.valid /\ f.keep = 8 /\ ~f.end /\ ~f.abort
      /\ b = Term(6) => f.valid /\ f.keep = 6 /\ f.end /\ ~f.abort
      /\ b = Term(2) => f.valid /\ f.keep = 2 /\ f.end /\ ~f.abort
  BY <1>5, BlockBeats
<1>7. ~f.start
  BY <1>1, <1>5 DEF Edge, BeatFits
<1> HIDE DEF f
<1>8. b = Blk("none") <=> b.kind = "none"
  BY <1>2, <1>3 DEF ScriptedBlock, Blk, Term
<1>9. ~f.abort
  BY <1>2, <1>3, <1>6 DEF ScriptedBlock
<1> QED
  BY <1>1, <1>2, <1>3, <1>4, <1>6, <1>7, <1>8, <1>9 DEF MidFrame, f

(* In the header, the parser moves with the wire.                          *)
LEMMA HeaderInStep ==
  ASSUME TheLine, PacketInv, PacketInv', SyncInv, NEW b, NEW f, NEW words, NEW m,
         NEW residue_ok, MidFrame(b, f, words, m, residue_ok), InHeader
  PROVE  /\ ~f.end /\ wire'.position > 0 /\ Aligned' /\ (InHeader' \/ InWords')
<1> USE DEF MidFrame, TheLine, LineInv, ParserTypes, StageTypes, WireTypes
<1>1. state = "HEADER" /\ ~udp_payload_valid /\ sender_next = arriving_next + wire.messages
  BY DEF InHeader, StrobeState
<1>2. /\ arriving_next' = arriving_next /\ sender_next' = sender_next
      /\ arriving_next \in Nat /\ sender_next \in Nat /\ wire.messages \in Nat
  BY <1>1 DEF Message, One
<1>3. CASE b = Blk("none")
  <2>1. Udp!Wait(f)
    BY <1>1, <1>3 DEF Edge, Udp!Clock, Udp!Abort, Udp!Wait, Udp!StartFrame,
       Udp!RejectHeader, Udp!SkipHeader, Udp!RejectPayload, Udp!NextWord, Udp!LastWord,
       Udp!CheckTail, Udp!Drain
  <2>2. ~f.end
    BY <1>3 DEF Edge, BeatFits
  <2> QED BY <1>1, <1>2, <1>3, <2>1, <2>2 DEF Udp!Wait, InHeader, Aligned
<1>4. CASE b # Blk("none")
  <2>1. /\ wire.position <= 6 /\ wire.position \in Nat
        /\ header_bytes_discarded \in {3, 7, 11, 15, 19, 23, 27, 31, 35, 39, 43, 47}
        /\ header_bytes_discarded = 8 * wire.position - IF wire.start = "start_0" THEN 1 ELSE 5
        /\ payload_alignment = IF wire.start = "start_0" THEN "START_0" ELSE "START_4"
    BY <1>1 DEF InHeader, FrameState, Aligned
  <2>2. wire.position # LastPosition(wire)
    BY <2>1, <1>2 DEF LastPosition
  <2>3. f.valid /\ f.keep = 8 /\ ~f.end /\ wire'.position = wire.position + 1
    BY <1>4, <2>2 DEF ScriptedBlock
  <2>4. Udp!SkipHeader(f, words)
    BY <1>1, <2>3 DEF Edge, Udp!Clock, Udp!Abort, Udp!Wait, Udp!StartFrame,
       Udp!RejectHeader, Udp!SkipHeader, Udp!RejectPayload, Udp!NextWord, Udp!LastWord,
       Udp!CheckTail, Udp!Drain, Udp!FullBeat
  <2>5. Aligned' /\ wire'.position > 0
    BY <2>1, <2>3, <2>4 DEF Udp!SkipHeader, Aligned
  <2>6. CASE header_bytes_discarded \in {43, 47}
    <3>1. wire.position = 6
      BY <2>1, <2>6
    <3>2. state' = "PAYLOAD" /\ ~payload_started' /\ ~udp_payload_valid'
      BY <1>1, <2>4, <2>6 DEF Udp!SkipHeader, Udp!EmitNothing, FrameState
    <3>3. payload_words_remaining' = 4 * wire.messages
      BY <2>1, <2>4, <2>6 DEF Udp!SkipHeader, Udp!UdpLengthPresent, InHeader
    <3>4. packet_log' = << >> /\ ~decoded_valid'
      BY <3>2 DEF PacketInv, FreshLog, BeforePayload
    <3>5. word_index' = 0
      <4>1. word_index = 0 /\ ~udp_packet_abort
        BY <1>1 DEF WordState, StrobeState, FrameState
      <4> QED BY <1>1, <4>1, AssemblerStep DEF Edge
    <3>6. Coming' = 4 * wire.messages
      BY <1>2, <3>2, <3>3 DEF Coming, One
    <3>7. 4 * (sender_next' - arriving_next') = word_index' + Coming'
      BY <1>1, <1>2, <3>5, <3>6
    <3>8. Len(packet_log') + One(decoded_valid') + (sender_next' - arriving_next')
            = wire'.messages
      BY <1>1, <1>2, <3>4 DEF One
    <3>9. payload_words_remaining' = 4 * wire'.messages + 7 - wire'.position
      BY <1>2, <2>3, <3>1, <3>3
    <3>10. payload_started' <=> payload_words_remaining' < 4 * wire'.messages
      BY <1>2, <3>2, <3>3
    <3>11. LastNumber(arriving_next)'
      BY <3>4 DEF LastNumber
    <3> QED BY <2>3, <2>5, <3>2, <3>7, <3>8, <3>9, <3>10, <3>11 DEF InWords
  <2>7. CASE header_bytes_discarded \notin {43, 47}
    <3>1. /\ state' = "HEADER" /\ header_bytes_discarded' = header_bytes_discarded + 8
      BY <1>1, <2>1, <2>4, <2>7 DEF Udp!SkipHeader
    <3>2. header_bytes_discarded' = 8 * wire'.position - IF wire'.start = "start_0" THEN 1 ELSE 5
      BY <2>1, <2>3, <3>1
    <3>3. header_bytes_discarded' = 47 => payload_words_remaining' = 4 * wire'.messages
      BY <2>1, <2>4, <3>1 DEF Udp!SkipHeader, Udp!UdpLengthPresent
    <3> QED BY <1>1, <1>2, <2>3, <2>5, <3>1, <3>2, <3>3 DEF InHeader
  <2> QED BY <2>6, <2>7
<1> QED BY <1>3, <1>4

(* In the payload, the parser moves with the wire, and at the end of the   *)
(* frame every message is there.                                           *)
LEMMA WordsInStep ==
  ASSUME TheLine, PacketInv, SyncInv, NEW b, NEW f, NEW words, NEW m,
         NEW residue_ok, MidFrame(b, f, words, m, residue_ok), InWords
  PROVE  /\ state' # "IDLE" => wire'.position > 0 /\ Aligned' /\ InWords'
         /\ f.end => FrameEnded' /\ ~udp_packet_abort'
<1> USE DEF MidFrame, TheLine, LineInv, ParserTypes, StageTypes, WireTypes
<1> DEFINE n == wire.messages
           p == wire.position
           left == payload_words_remaining
<1>1. /\ left = 4 * n + 7 - p /\ left \in Nat /\ n \in Nat /\ p \in Nat /\ n > 0
      /\ payload_started <=> left < 4 * n
      /\ payload_alignment = IF wire.start = "start_0" THEN "START_0" ELSE "START_4"
  BY DEF InWords, Aligned
<1>2. left <= 4 * n
  <2>1. /\ 4 * (sender_next - arriving_next) = word_index + Coming
        /\ Len(packet_log) + One(decoded_valid) + (sender_next - arriving_next) = n
    BY DEF InWords
  <2>2. Len(packet_log) \in Nat /\ One(decoded_valid) \in Nat
    BY DEF PacketInv, ControllerTypes, One
  <2>3. Coming \in Nat /\ Coming >= left /\ word_index \in Nat
    BY DEF Coming, One
  <2>4. sender_next - arriving_next \in Int
    OBVIOUS
  <2> DEFINE due == sender_next - arriving_next
  <2>7. Len(packet_log) + One(decoded_valid) + due = n
    BY <2>1
  <2>5. due <= n
    <3>1. \A i, j \in Nat, k, l \in Int : i + j + k = l => k <= l
      OBVIOUS
    <3> HIDE DEF due, n
    <3>2. due \in Int /\ n \in Int
      BY <1>1, <2>4 DEF due
    <3> QED BY <2>2, <2>7, <3>1, <3>2
  <2>6. left <= 4 * due
    BY <1>1, <2>1, <2>3, <2>4
  <2> HIDE DEF left, n, due
  <2> QED BY <1>1, <2>4, <2>5, <2>6 DEF due
<1>3. ASSUME /\ udp_payload_valid' => payload_words_remaining' = left - 1
             /\ ~udp_payload_valid' => payload_words_remaining' = left
      PROVE  /\ 4 * (sender_next' - arriving_next') = word_index' + Coming'
             /\ Len(packet_log') + One(decoded_valid') + (sender_next' - arriving_next')
                  = wire'.messages
             /\ LastNumber(arriving_next)'
  BY <1>3, CountsStay DEF SyncInv
<1> HIDE DEF n, p, left
<1>4. CASE b = Blk("none")
  <2>1. Udp!Wait(f)
    BY <1>4 DEF InWords, Edge, Udp!Clock, Udp!Abort, Udp!Wait, Udp!StartFrame,
       Udp!RejectHeader, Udp!SkipHeader, Udp!RejectPayload, Udp!NextWord, Udp!LastWord,
       Udp!CheckTail, Udp!Drain
  <2>2. ~f.end /\ wire'.position = p /\ wire'.messages = n
    BY <1>4 DEF Edge, BeatFits, p, n
  <2>3. ~udp_payload_valid' /\ payload_words_remaining' = left
    BY <2>1 DEF Udp!Wait, Udp!EmitNothing, left
  <2>4. /\ state' = "PAYLOAD" \/ (state' = "DRAIN" /\ payload_started')
        /\ payload_started' = payload_started /\ Aligned'
    BY <2>1 DEF Udp!Wait, InWords, Aligned
  <2> QED BY <1>1, <1>3, <2>2, <2>3, <2>4 DEF InWords, p
<1>5. CASE b # Blk("none") /\ wire.position # LastPosition(wire)
  <2>1. f.valid /\ f.keep = 8 /\ ~f.end /\ wire'.position = p + 1 /\ wire'.messages = n
    BY <1>5 DEF ScriptedBlock, p, n
  <2>2. state = "PAYLOAD" /\ left >= 1 /\ (left = 1 => payload_alignment = "START_4")
    <3>1. p < LastPosition(wire)
      BY <1>5, <1>1 DEF p, LastPosition
    <3>2. left >= 1 /\ (left = 1 => payload_alignment = "START_4")
      BY <1>1, <3>1 DEF LastPosition, n, p
    <3>3. state = "DRAIN" => left = 0
      BY DEF FrameState, left
    <3> QED BY <3>2, <3>3 DEF InWords
  <2>3. ~Udp!BadPayload(f)
    BY <2>1, <2>2 DEF Udp!BadPayload, Udp!FullBeat, Udp!FinalPayloadInput, FrameState, left
  <2>4. \/ Udp!NextWord(f) /\ left # 1
        \/ Udp!LastWord(f) /\ left = 1
    BY <2>1, <2>2, <2>3 DEF Edge, Udp!Clock, Udp!Abort, Udp!Wait, Udp!StartFrame,
       Udp!RejectHeader, Udp!SkipHeader, Udp!RejectPayload, Udp!NextWord, Udp!LastWord,
       Udp!CheckTail, Udp!Drain, left
  <2>5. udp_payload_valid' /\ payload_words_remaining' = left - 1
    BY <2>4 DEF Udp!NextWord, Udp!LastWord, Udp!EmitWord, left
  <2>6. /\ payload_started'
        /\ state' = "PAYLOAD" \/ state' = "DRAIN"
        /\ payload_alignment' = payload_alignment
    BY <2>2, <2>4 DEF Udp!NextWord, Udp!LastWord
  <2>7. Aligned'
    BY <2>6 DEF Aligned
  <2>8. payload_words_remaining' = 4 * wire'.messages + 7 - wire'.position
    BY <1>1, <2>1, <2>5
  <2>9. payload_words_remaining' < 4 * wire'.messages
    BY <1>1, <1>2, <2>1, <2>5
  <2>10. wire'.position > 0
    BY <1>1, <2>1
  <2>11. InWords'
    BY <1>3, <2>5, <2>6, <2>8, <2>9 DEF InWords
  <2> QED BY <2>1, <2>7, <2>10, <2>11
<1>6. CASE b # Blk("none") /\ wire.position = LastPosition(wire)
  <2>1. /\ f.valid /\ f.end /\ wire'.position = 0 /\ wire'.messages = n
        /\ f.keep = IF wire.start = "start_0" THEN 6 ELSE 2
    BY <1>6 DEF ScriptedBlock, n
  <2>2. left = IF wire.start = "start_0" THEN 1 ELSE 0
    BY <1>1, <1>6 DEF LastPosition, p, n
  <2>3. ASSUME wire.start = "start_0"
        PROVE  /\ state' = "IDLE" /\ udp_payload_valid' /\ payload_words_remaining' = 0
               /\ ~udp_packet_abort'
               /\ payload_words_remaining' = left - 1
    <3>1. state = "PAYLOAD" /\ left = 1 /\ payload_alignment = "START_0"
      <4>1. state = "DRAIN" => left = 0
        BY DEF FrameState, left
      <4> QED BY <1>1, <2>2, <2>3, <4>1 DEF InWords
    <3>2. ~Udp!BadPayload(f)
      BY <2>1, <2>3, <3>1 DEF Udp!BadPayload, Udp!FinalPayloadInput, FrameState, left
    <3>3. Udp!LastWord(f)
      BY <2>1, <3>1, <3>2 DEF Edge, Udp!Clock, Udp!Abort, Udp!Wait, Udp!StartFrame,
       Udp!RejectHeader, Udp!SkipHeader, Udp!RejectPayload, Udp!NextWord, Udp!LastWord,
       Udp!CheckTail, Udp!Drain, left
    <3>4. /\ state' = "IDLE" /\ udp_payload_valid' /\ payload_words_remaining' = 0
          /\ ~udp_packet_abort'
      BY <3>1, <3>3 DEF Udp!LastWord, Udp!EmitWord
    <3>5. payload_words_remaining' = left - 1
      BY <3>1, <3>4
    <3> QED BY <3>4, <3>5
  <2>4. ASSUME wire.start # "start_0"
        PROVE  /\ state' = "IDLE" /\ ~udp_payload_valid' /\ payload_words_remaining' = 0
               /\ ~udp_packet_abort'
               /\ payload_words_remaining' = left
    <3>1. state = "DRAIN" /\ payload_started /\ left = 0
      <4>1. payload_started
        BY <1>1, <2>2, <2>4
      <4>2. state # "PAYLOAD"
        BY <2>2, <2>4, <4>1 DEF FrameState, left
      <4> QED BY <2>2, <2>4, <4>1, <4>2 DEF InWords
    <3>2. Udp!CheckTail(f)
      BY <2>1, <3>1 DEF Edge, Udp!Clock, Udp!Abort, Udp!Wait, Udp!StartFrame,
       Udp!RejectHeader, Udp!SkipHeader, Udp!RejectPayload, Udp!NextWord, Udp!LastWord,
       Udp!CheckTail, Udp!Drain
    <3>3. /\ state' = "IDLE" /\ ~udp_payload_valid' /\ payload_words_remaining' = 0
      BY <2>1, <3>2 DEF Udp!CheckTail, Udp!EmitNothing
    <3>4. f.end /\ f.keep = 2
      BY <2>1, <2>4
    <3>5. udp_packet_abort' = ~(f.end /\ f.keep = 2)
      BY <3>2 DEF Udp!CheckTail, Udp!EmitNothing
    <3>6. ~udp_packet_abort'
      BY <3>4, <3>5
    <3> QED BY <3>1, <3>3, <3>6, Zenon
  <2>5. /\ state' = "IDLE" /\ payload_words_remaining' = 0 /\ ~udp_packet_abort'
        /\ udp_payload_valid' => payload_words_remaining' = left - 1
        /\ ~udp_payload_valid' => payload_words_remaining' = left
    BY <2>3, <2>4, Zenon
  <2>6. /\ 4 * (sender_next' - arriving_next') = word_index' + Coming'
        /\ Len(packet_log') + One(decoded_valid') + (sender_next' - arriving_next') = n
        /\ LastNumber(arriving_next)'
    BY <1>3, <2>1, <2>5
  <2>7. word_index' \in 0 .. 3 /\ udp_payload_valid' \in BOOLEAN
    BY AssemblerStep, ParserStep DEF Edge
  <2>8. /\ sender_next' = arriving_next' + One(udp_payload_valid')
        /\ udp_payload_valid' => word_index' = 3
    <3> DEFINE due == sender_next' - arriving_next'
    <3>1. due \in Int /\ sender_next' = arriving_next' + due
      BY DEF One
    <3>2. 4 * due = word_index' + One(udp_payload_valid')
      BY <2>5, <2>6 DEF Coming, One
    <3> HIDE DEF due
    <3>3. \A w \in 0 .. 3, o \in {0, 1}, d \in Int :
            4 * d = w + o => d = o /\ (o = 1 => w = 3)
      OBVIOUS
    <3>4. One(udp_payload_valid') \in {0, 1} /\ (udp_payload_valid' => One(udp_payload_valid') = 1)
      BY DEF One
    <3> QED BY <2>7, <3>1, <3>2, <3>3, <3>4
  <2>9. Len(packet_log') + One(decoded_valid') + One(udp_payload_valid') = n
    <3>1. sender_next' - arriving_next' = One(udp_payload_valid')
      BY <2>8 DEF One
    <3> QED BY <2>6, <3>1
  <2>10. ~Pulse'
    <3>1. state \in {"PAYLOAD", "DRAIN"}
      BY DEF InWords
    <3>2. ~Resolving(f)
      BY <3>1 DEF Resolving, VerdictNow, PacketInv, AbortedSoon, StrobeState, FirstHeaderBeat
    <3> QED BY <3>2, ControllerMoves DEF Edge, PacketInv
  <2>11. FrameEnded'
    BY <1>1, <2>1, <2>6, <2>8, <2>9, <2>10 DEF FrameEnded, n
  <2> QED BY <2>5, <2>11
<1> QED BY <1>4, <1>5, <1>6

(* The frame that begins, undamaged, in this cycle.                        *)
LEMMA StartInStep ==
  ASSUME TheLine, SyncInv, NEW b, NEW words, NEW m, NEW residue_ok, NEW lookup,
         Cycle(b, words, m, residue_ok, lookup), Starting, ~damaged'
  PROVE  /\ state' # "IDLE" => wire'.position > 0 /\ Aligned' /\ InHeader'
         /\ ~Pcs!Beat(b).end
<1> DEFINE f == Pcs!Beat(b)
<1> USE DEF TheLine, LineInv, ParserTypes, StageTypes, WireTypes
<1>1. /\ BeatFits(f) /\ Udp!Clock(f, words)
      /\ inside_frame /\ b.kind \in {"start_0", "start_4", "idle"} => f.abort
  BY CycleParts
<1>2. /\ wire'.position = 1 /\ wire'.start \in {"start_0", "start_4"}
      /\ wire'.messages \in 1 .. MaxMessages
      /\ sender_next' = sender_next + wire'.messages
      /\ b.kind = wire'.start
  BY FrameMoves DEF SyncInv
<1>3. arriving_next' = sender_next
  BY WireStep
<1>4. CASE inside_frame
  <2>1. f.abort
    BY <1>1, <1>2, <1>4
  <2> HIDE DEF f
  <2> QED BY <1>1, <2>1 DEF BeatFits, Udp!Clock, Udp!Abort, Udp!Wait, Udp!StartFrame,
       Udp!RejectHeader, Udp!SkipHeader, Udp!RejectPayload, Udp!NextWord, Udp!LastWord,
       Udp!CheckTail, Udp!Drain, f
<1>5. CASE ~inside_frame
  <2>1. f.valid /\ f.start /\ f.keep = IF wire'.start = "start_0" THEN 7 ELSE 3
    BY <1>2, <1>5, BlockBeats
  <2>2. ~f.abort /\ ~f.end /\ state = "IDLE"
    BY <1>1, <1>5 DEF BeatFits, FrameState
  <2> HIDE DEF f
  <2>3. Udp!StartFrame(f)
    BY <1>1, <2>1, <2>2 DEF Udp!Clock, Udp!Abort, Udp!Wait, Udp!StartFrame,
       Udp!RejectHeader, Udp!SkipHeader, Udp!RejectPayload, Udp!NextWord, Udp!LastWord,
       Udp!CheckTail, Udp!Drain
  <2>4. /\ state' = "HEADER"
        /\ header_bytes_discarded' = IF wire'.start = "start_0" THEN 7 ELSE 3
        /\ payload_alignment' = IF wire'.start = "start_0" THEN "START_0" ELSE "START_4"
    BY <2>1, <2>3 DEF Udp!StartFrame
  <2>5. InHeader'
    BY <1>2, <1>3, <2>4, Sizes DEF InHeader
  <2> QED BY <1>2, <2>2, <2>4, <2>5 DEF Aligned, f
<1> QED BY <1>4, <1>5

(* A clock edge keeps the parser in step with an undamaged frame.          *)
LEMMA InStepFlow ==
  ASSUME TheLine, PacketInv, PacketInv', SyncInv,
         NEW b, NEW words, NEW m, NEW residue_ok, NEW lookup,
         Cycle(b, words, m, residue_ok, lookup)
  PROVE  FrameOnWire' /\ InStep' /\ EndInStep'
<1> DEFINE f == Pcs!Beat(b)
<1> USE DEF TheLine
<1>1. /\ Edge(f, words, m, residue_ok)
      /\ f.start <=> ~inside_frame /\ b.kind \in {"start_0", "start_4"}
  BY CycleParts DEF Edge
<1>2. frame_pipe'.end = f.end
  BY <1>1 DEF Edge, Fcs!Clock
<1>3. FrameOnWire'
  <2>1. CASE Starting
    <3>1. wire'.position = 1 /\ wire'.messages \in 1 .. MaxMessages
      BY <2>1, FrameMoves DEF SyncInv
    <3> QED BY <3>1, Sizes DEF FrameOnWire, LastPosition
  <2>2. CASE ~Starting /\ wire.position = 0
    BY <2>2, FrameMoves DEF SyncInv, FrameOnWire
  <2>3. CASE ~Starting /\ wire.position # 0
    <3>1. wire.position > 0 /\ wire.messages > 0 /\ wire.position <= LastPosition(wire)
      BY <2>3 DEF SyncInv, FrameOnWire, WireTypes
    <3>2. /\ wire'.start = wire.start /\ wire'.messages = wire.messages
          /\ wire'.position \in {wire.position, 0} \/
               (wire.position # LastPosition(wire) /\ wire'.position = wire.position + 1)
      BY <2>3, <3>1, FrameMoves DEF SyncInv
    <3>3. LastPosition(wire') = LastPosition(wire) /\ LastPosition(wire) \in Nat
      BY <3>2, Sizes DEF LastPosition, WireTypes
    <3>4. wire.position \in Nat
      BY DEF WireTypes
    <3> QED BY <3>1, <3>2, <3>3, <3>4 DEF FrameOnWire
  <2> QED BY <2>1, <2>2, <2>3 DEF WireTypes
<1>4. ASSUME ~damaged'
      PROVE  /\ state' # "IDLE" => wire'.position > 0 /\ Aligned' /\ (InHeader' \/ InWords')
             /\ f.end => FrameEnded'
  <2>1. CASE Starting
    BY <1>4, <2>1, StartInStep
  <2>2. CASE ~Starting /\ state = "IDLE"
    <3>1. ~f.start
      BY <2>2, WireStep, <1>1
    <3>2. ~f.end /\ BeatFits(f)
      BY <1>1, <2>2 DEF Edge, BeatFits, LineInv, FrameState
    <3>3. state' = "IDLE"
      <4> HIDE DEF f
      <4> QED BY <1>1, <2>2, <3>1, <3>2 DEF Edge, Udp!Clock, Udp!Abort, Udp!Wait, Udp!StartFrame,
       Udp!RejectHeader, Udp!SkipHeader, Udp!RejectPayload, Udp!NextWord, Udp!LastWord,
       Udp!CheckTail, Udp!Drain
    <3> QED BY <3>2, <3>3
  <2>3. CASE ~Starting /\ state # "IDLE"
    <3>1. MidFrame(b, f, words, m, residue_ok)
      BY <1>4, <2>3, MidFrameStep
    <3>2. InHeader \/ InWords
      BY <2>3, <3>1 DEF MidFrame, SyncInv, InStep
    <3> HIDE DEF f
    <3> QED BY <3>1, <3>2, HeaderInStep, WordsInStep
  <2> QED BY <2>1, <2>2, <2>3
<1> QED BY <1>2, <1>3, <1>4 DEF InStep, EndInStep

(* A clock edge keeps the verdict with its frame: a good FCS result, which *)
(* only an undamaged frame has, finds all messages in the packet, and only *)
(* then is it committed.                                                   *)
LEMMA VerdictFlow ==
  ASSUME TheLine, PacketInv, SyncInv,
         NEW b, NEW words, NEW m, NEW residue_ok, NEW lookup,
         Cycle(b, words, m, residue_ok, lookup)
  PROVE  VerdictAlone' /\ GoodVerdict' /\ CommitIsFrame'
<1> DEFINE f == Pcs!Beat(b)
<1> USE DEF TheLine, LineInv, ParserTypes, StageTypes
<1>1. Edge(f, words, m, residue_ok)
  BY CycleParts DEF Edge
<1>2. RecordHistory(f, residue_ok) /\ residue_ok \in Residues(b, words, m)
  BY DEF Cycle, Components
<1> HIDE DEF f
<1>3. /\ frame_pipe'.end <=> f.end
      /\ fcs_result_valid' <=> frame_pipe.end
      /\ fcs_ok' => frame_pipe.end /\ residue_ok
  BY <1>1 DEF Edge, Fcs!Clock, StrobeState, BeatFits
<1>4. ASSUME frame_pipe.end
      PROVE  ~f.end /\ ~Pulse'
  <2>1. state = "IDLE" /\ ~f.abort /\ ~f.end
    BY <1>1, <1>4 DEF Edge, BeatFits, StrobeState, FrameState
  <2>2. ~Resolving(f)
    BY <1>4, <2>1 DEF Resolving, VerdictNow, SyncInv, VerdictAlone
  <2> QED BY <1>1, <2>1, <2>2, ControllerMoves DEF Edge, PacketInv
<1>5. ASSUME f.end, packet_pending', fcs_seen'
      PROVE  FALSE
  <2>1. inside_frame /\ ~f.abort /\ state # "IDLE"
    BY <1>1, <1>5 DEF Edge, BeatFits, FrameState
  <2>2. packet_pending /\ ~Resolving(f) /\ (fcs_seen \/ VerdictNow(f))
    BY <1>1, <1>5, ControllerMoves DEF Edge, PacketInv, Resolving
  <2>3. CASE fcs_seen
    BY <2>1, <2>2, <2>3 DEF PacketInv, AbortedSoon, Resolving, Decoded
  <2>4. CASE ~fcs_seen
    <3>1. ~udp_payload_valid /\ ~udp_packet_abort /\ FirstHeaderBeat
      BY <2>1, <2>2, <2>4 DEF VerdictNow, StrobeState
    <3>2. Decoded
      BY <2>2, <3>1 DEF PacketInv, DecodeEnds, InPayload, StrobeState, FirstHeaderBeat
    <3> QED BY <2>2, <3>2 DEF Resolving
  <2> QED BY <2>3, <2>4
<1>6. VerdictAlone'
  BY <1>3, <1>4, <1>5 DEF VerdictAlone
<1>7. decoded_valid => TrackerMessage \in Guard!Message
  BY MessageType
<1>8. arriving_next \in Nat /\ sender_next \in Nat
  BY DEF WireTypes
<1>9. ASSUME fcs_ok'
      PROVE  /\ last_frame'.intact /\ last_frame'.messages > 0
             /\ Len(packet_log') + One(decoded_valid') = last_frame'.messages
             /\ IF decoded_valid' THEN decoded'.sequence_number + 1 = last_frame'.next
                ELSE packet_log' # << >> =>
                       packet_log'[Len(packet_log')].seq + 1 = last_frame'.next
  <2>1. frame_pipe.end /\ frame_pipe.valid /\ residue_ok
    BY <1>3, <1>9 DEF StrobeState
  <2>2. ~damaged /\ (AssemblerStrobes.valid => m \in SentMessages)
    BY <1>2, <2>1 DEF Residues
  <2>3. FrameEnded
    BY <2>1, <2>2 DEF SyncInv, EndInStep
  <2>4. /\ last_frame'.intact = residue_ok /\ last_frame'.messages = wire.messages
        /\ last_frame'.next = sender_next
    BY <1>2, <2>1 DEF RecordHistory
  <2>5. /\ decoded_valid' <=> Message
        /\ Len(packet_log) \in Nat /\ Len(packet_log') \in Nat
        /\ Len(packet_log') = Len(packet_log) + One(decoded_valid)
        /\ IF decoded_valid' THEN decoded'.sequence_number = arriving_next
           ELSE packet_log' # << >> =>
                  packet_log'[Len(packet_log')].seq + 1 = arriving_next
    BY <1>1, <1>7, <1>8, <2>2, <2>3, CountStep DEF FrameEnded
  <2>6. decoded_valid' <=> udp_payload_valid
    BY <2>3, <2>5 DEF FrameEnded, Message
  <2>7. Len(packet_log') + One(decoded_valid') = wire.messages
    <3>1. One(decoded_valid') = One(udp_payload_valid)
      BY <2>6 DEF One
    <3> QED BY <2>3, <2>5, <3>1 DEF FrameEnded
  <2>8. sender_next = arriving_next + One(decoded_valid')
    BY <2>3, <2>6 DEF FrameEnded, One
  <2>9. /\ decoded_valid' => sender_next = arriving_next + 1
        /\ ~decoded_valid' => sender_next = arriving_next
    BY <1>8, <2>8 DEF One
  <2> QED BY <2>1, <2>3, <2>4, <2>5, <2>7, <2>9 DEF FrameEnded
<1>10. GoodVerdict'
  BY <1>9 DEF GoodVerdict, LastNumber
<1>11. ASSUME packet_commit'
       PROVE  /\ last_frame'.intact /\ last_frame'.messages > 0
              /\ Len(packet_log') = last_frame'.messages
              /\ packet_log'[Len(packet_log')].seq + 1 = last_frame'.next
  <2>1. /\ Resolving(f) /\ ~packet_failed /\ ~f.abort
        /\ ~(VerdictNow(f) /\ ~fcs_ok)
    BY <1>1, <1>11, ControllerMoves DEF Edge, PacketInv
  <2>2. fcs_result_valid /\ fcs_ok
    BY <2>1 DEF Resolving, VerdictNow, PacketInv, AbortedSoon
  <2>3. /\ last_frame.intact /\ last_frame.messages > 0
        /\ Len(packet_log) + One(decoded_valid) = last_frame.messages
        /\ LastNumber(last_frame.next)
    BY <2>2 DEF SyncInv, GoodVerdict
  <2>4. ~frame_pipe.end /\ ~Pulse
    BY <2>2 DEF SyncInv, VerdictAlone
  <2>5. last_frame' = last_frame
    BY <1>2, <2>4 DEF RecordHistory
  <2>6. Len(packet_log) \in Nat /\ Len(packet_log') \in Nat
    BY <1>1, <1>7, LogMoves DEF PacketInv, ControllerTypes
  <2>7. CASE decoded_valid
    <3>1. /\ Len(packet_log') = Len(packet_log) + 1
          /\ packet_log'[Len(packet_log')].seq = decoded.sequence_number
      BY <1>1, <1>7, <2>4, <2>7, LogMoves
    <3>2. decoded.sequence_number + 1 = last_frame.next
      BY <2>3, <2>7 DEF LastNumber
    <3> QED BY <2>3, <2>5, <2>6, <2>7, <3>1, <3>2 DEF One
  <2>8. CASE ~decoded_valid
    <3>1. packet_log' = packet_log
      BY <1>1, <1>7, <2>4, <2>8, LogMoves
    <3>2. Len(packet_log) = last_frame.messages /\ packet_log # << >>
      BY <2>3, <2>6, <2>8 DEF One
    <3> QED BY <2>3, <2>5, <2>8, <3>1, <3>2 DEF LastNumber
  <2> QED BY <2>7, <2>8
<1>12. CommitIsFrame'
  BY <1>11 DEF CommitIsFrame
<1> QED BY <1>6, <1>10, <1>12

(* The invariant holds initially.                                          *)
LEMMA SyncInit == Init => SyncInv
<1> SUFFICES ASSUME Init PROVE SyncInv
  OBVIOUS
<1>1. /\ wire.position = 0 /\ state = "IDLE" /\ ~frame_pipe.end /\ ~fcs_result_valid
      /\ ~packet_commit /\ ~packet_discard
  BY DEF Init, NoFrame, Udp!Init, Fcs!Init, Fcs!NoBeat, Guard!Init, Guard!Controller!Init
<1> QED BY <1>1 DEF SyncInv, FrameOnWire, InStep, EndInStep, VerdictAlone, GoodVerdict,
       CommitIsFrame

(* A stuttering step keeps it.                                             *)
LEMMA SyncStutter == SyncInv /\ UNCHANGED vars => SyncInv'
<1> SUFFICES ASSUME SyncInv, UNCHANGED vars PROVE SyncInv'
  OBVIOUS
<1>1. /\ UNCHANGED << Udp!vars, Assembler!vars, Decoder!vars, Fcs!vars >>
      /\ UNCHANGED << Guard!vars, wire_vars, history >>
  BY DEF vars
<1>2. /\ UNCHANGED << state, payload_alignment, header_bytes_discarded, payload_started,
                      payload_words_remaining, udp_payload_valid, word_index >>
      /\ UNCHANGED << decoded_valid, decoded, frame_pipe, fcs_result_valid, fcs_ok >>
      /\ UNCHANGED << packet_pending, fcs_seen, packet_commit, packet_discard, packet_log >>
      /\ UNCHANGED << wire, damaged, sender_next, arriving_next, last_frame >>
  BY <1>1 DEF Udp!vars, Assembler!vars, Decoder!vars, Fcs!vars, Guard!vars,
     Guard!Controller!vars, Guard!history, wire_vars, history
<1>3. FrameOnWire' /\ InStep'
  BY <1>2 DEF SyncInv, FrameOnWire, InStep, LastPosition, Aligned, InHeader, InWords,
     LastNumber, Coming, One
<1>4. EndInStep' /\ VerdictAlone'
  BY <1>2 DEF SyncInv, EndInStep, VerdictAlone, FrameEnded, LastNumber, Pulse, One
<1>5. GoodVerdict' /\ CommitIsFrame'
  BY <1>2 DEF SyncInv, GoodVerdict, CommitIsFrame, LastNumber, One
<1> QED BY <1>3, <1>4, <1>5 DEF SyncInv

(***************************************************************************)
(* An undamaged frame and the parser move together, and a good verdict or  *)
(* a commit is about an intact frame with all its messages.                *)
(***************************************************************************)
THEOREM SyncCorrect == Spec => []SyncInv
<1>1. TheLine /\ PacketInv /\ PacketInv' /\ SyncInv /\ Next => SyncInv'
  <2> SUFFICES ASSUME TheLine, PacketInv, PacketInv', SyncInv, Next PROVE SyncInv'
    OBVIOUS
  <2>1. PICK b, words, m, residue_ok, lookup : Cycle(b, words, m, residue_ok, lookup)
    BY NextIsCycle
  <2>2. FrameOnWire' /\ InStep' /\ EndInStep'
    BY <2>1, InStepFlow
  <2>3. VerdictAlone' /\ GoodVerdict' /\ CommitIsFrame'
    BY <2>1, VerdictFlow
  <2> QED BY <2>2, <2>3 DEF SyncInv
<1> QED
  BY <1>1, SyncInit, SyncStutter, LineCorrect, PacketCorrect, PTL DEF Spec

(***************************************************************************)
(* A committed packet is an intact frame and exactly the messages the host *)
(* put into it (rx_packet_controller.sv).                                  *)
(***************************************************************************)
THEOREM CommitCorrect == Spec => []CommitMeansIntactFrame
<1>1. SyncInv => CommitMeansIntactFrame
  BY DEF SyncInv, CommitIsFrame, CommitMeansIntactFrame
<1> QED BY <1>1, SyncCorrect, PTL

-----------------------------------------------------------------------------
(* Sequence numbers, and decisions on the messages of a packet.            *)

(* A pending packet that has failed has met a number ahead of the stream,  *)
(* or the stream is faulted.                                               *)
SoundPacket ==
  packet_pending /\ packet_failed =>
    \/ stream_fault
    \/ /\ packet_log = << >>
       /\ IF decoded_valid THEN decoded.sequence_number > verified_next_sequence_number
                           ELSE verified_next_sequence_number < arriving_next

(* The parser is in the payload of a frame.                                *)
IntactSoFar == state # "IDLE" /\ InWords

(* On an undamaged frame only the stream can make a packet fail: no        *)
(* decoding error and no other reason is possible.                         *)
SoundInv ==
  /\ ~damaged /\ IntactSoFar => ~decoded_packet_abort /\ SoundPacket
  /\ ~damaged /\ frame_pipe.end => ~decoded_packet_abort /\ ~udp_packet_abort /\ SoundPacket
  /\ fcs_result_valid /\ fcs_ok => ~decoded_packet_abort /\
       (packet_pending /\ packet_failed =>
          \/ stream_fault
          \/ /\ packet_log = << >> /\ decoded_valid
            /\ decoded.sequence_number > verified_next_sequence_number)

(* The numbers counted as verified do not run ahead of the frames          *)
(* resolved, nor those of the frames sent.                                 *)
CountedInv ==
  /\ last_frame.next \in Nat /\ last_frame.next <= sender_next
  /\ verified_next_sequence_number <= last_frame.next
  /\ state # "IDLE" => last_frame.next < sender_next
  /\ /\ packet_pending /\ ~fcs_seen /\ ~fcs_result_valid /\ ~frame_pipe.end
     /\ state \in {"IDLE", "HEADER"}
     =>
       last_frame.next < IF state = "HEADER" /\ ~damaged THEN arriving_next ELSE sender_next

(* What a discard says of the stream and of the verdict it came with.      *)
CapturedInv ==
  /\ packet_discard /\ fcs_seen /\ fcs_passed => stream_fault
  /\ packet_discard /\ decoded_valid => ~fcs_passed
  /\ integrity_failure => fcs_seen /\ ~fcs_passed

(* The order seq is the last message of the open packet, and healthy.      *)
OrderOpen(seq) ==
  /\ packet_pending /\ decode_done /\ ~fcs_seen /\ ~decoded_valid /\ packet_log # << >>
  /\ ~Pulse /\ ~stream_fault /\ ~integrity_failure
  /\ current_packet_next_sequence_number = seq + 1

(* The packet of the order seq has been committed, and nothing has been    *)
(* counted since.                                                          *)
OrderCommitted(seq) ==
  /\ ~packet_pending /\ ~packet_discard /\ (packet_commit \/ outcome = "commit")
  /\ ~stream_fault /\ ~integrity_failure
  /\ current_packet_next_sequence_number = seq + 1

(* The packet has been resolved without a good FCS, so that no answer      *)
(* leaves with one.                                                        *)
OrderLost == ~packet_pending /\ ~(fcs_seen /\ fcs_passed)

(* What may have become of the order seq.                                  *)
OrderStage(seq) == OrderOpen(seq) \/ OrderCommitted(seq) \/ OrderLost

(* The next payload is still at least this many header bytes away.         *)
Headroom(hb) ==
  ~udp_payload_valid /\ state # "PAYLOAD" /\ (state = "HEADER" => header_bytes_discarded <= hb)

(* An order on its way through the risk engine: looked up, decided and     *)
(* answered.                                                               *)
OrderInv ==
  /\ lookup_valid /\ ~pending_order.stream_fault /\ ~pending_order.protocol_violation =>
       Headroom(15) /\ OrderStage(pending_order.sequence_number)
  /\ decision_valid /\ decision.decision = "ACCEPT" =>
       Headroom(23) /\ OrderStage(decision.sequence_number)
  /\ answer # << >> /\ answer.source_frame_ok /\ answer.decision = "ACCEPT" =>
       OrderCommitted(answer.sequence_number)

(* The invariants of the guard, which hold of the receive path.            *)
TheGuard ==
  Guard!TypeOK /\ Guard!VerdictMatchesPacket /\ Guard!SpeculationMatchesPacket

(* A good verdict arrives in this cycle.                                   *)
Passing(f) == fcs_result_valid /\ fcs_ok /\ ~f.abort

(* What one clock edge does to the registers of the integrity verdict, and *)
(* what the answer takes from them.                                        *)
LEMMA VerdictRegisters ==
  ASSUME LineInv, ControllerTypes, NEW f, BeatFits(f),
         Guard!Clock(ControllerStrobes(f), TrackerMessage)
  PROVE  /\ integrity_failure' <=> packet_pending /\ VerdictNow(f) /\ ~Passing(f)
         /\ packet_pending =>
              /\ fcs_seen' <=> fcs_seen \/ VerdictNow(f)
              /\ fcs_passed' <=> IF VerdictNow(f) THEN Passing(f) ELSE fcs_passed
         /\ packet_pending /\ packet_failed' =>
              \/ packet_failed \/ decoded_packet_abort \/ f.abort
              \/ Guard!Tracker!Mismatch(TrackerMessage)
              \/ VerdictNow(f) /\ ~fcs_ok
         /\ ~packet_pending /\ ~PacketStart =>
              (fcs_seen' <=> fcs_seen) /\ (fcs_passed' <=> fcs_passed)
         /\ ~packet_pending /\ PacketStart => ~packet_failed'
         /\ Guard!Controller!IntegrityOk(ControllerInputs(f)) <=>
              \/ fcs_seen /\ fcs_passed
              \/ packet_pending /\ VerdictNow(f) /\ Passing(f)
<1> DEFINE e == ControllerInputs(f)
<1>1. /\ e.packet_start = PacketStart /\ e.frame_abort = f.abort
      /\ e.decode_abort = decoded_packet_abort
      /\ e.fcs_result_valid = fcs_result_valid /\ e.fcs_ok = fcs_ok
      /\ e.decode_complete = (TrackerMessage.valid /\ TrackerMessage.packet_end)
      /\ e.packet_failure_event = Guard!Tracker!Mismatch(TrackerMessage)
  BY DEF ControllerInputs, Guard!ControllerInputs, ControllerStrobes
<1>2. Guard!Controller!Clock(e)
  BY DEF Guard!Clock, ControllerInputs
<1>3. /\ e.packet_start <=> PacketStart
      /\ e.frame_abort <=> f.abort
      /\ e.decode_abort <=> decoded_packet_abort
      /\ e.fcs_result_valid <=> fcs_result_valid
      /\ e.fcs_ok <=> fcs_ok
      /\ e.packet_failure_event <=> Guard!Tracker!Mismatch(TrackerMessage)
  BY <1>1
<1> HIDE DEF e
<1> DEFINE event   == Guard!Controller!FcsEvent(e)
           passed  == Guard!Controller!FcsEventPassed(e)
           failed  == Guard!Controller!FailureReady(e)
           resolve == Guard!Controller!ResolveEvent(e)
<1>4. /\ event <=> packet_pending /\ VerdictNow(f)
      /\ passed <=> Passing(f)
  BY <1>3 DEF Guard!Controller!FcsEvent, Guard!Controller!FcsEventPassed, VerdictNow, Passing
<1>5. failed => \/ packet_failed \/ decoded_packet_abort \/ f.abort
                \/ Guard!Tracker!Mismatch(TrackerMessage)
                \/ VerdictNow(f) /\ ~fcs_ok
  BY <1>3, <1>4 DEF Guard!Controller!FailureReady, Guard!Controller!FailureEvent,
     VerdictNow, Passing
<1>6. /\ packet_pending \in BOOLEAN /\ fcs_seen \in BOOLEAN
      /\ fcs_passed \in BOOLEAN /\ packet_failed \in BOOLEAN
  BY DEF ControllerTypes, Guard!Controller!TypeOK
<1>7. integrity_failure' = (event /\ ~passed)
  BY <1>2 DEF Guard!Controller!Clock, Guard!Controller!Pulses
<1>8. event \in BOOLEAN /\ passed \in BOOLEAN /\ failed \in BOOLEAN /\ (resolve => packet_pending)
  BY <1>3 DEF Guard!Controller!FcsEvent, Guard!Controller!FcsEventPassed,
     Guard!Controller!FailureReady, Guard!Controller!ResolveEvent
<1>9. \/ /\ PacketStart /\ ~packet_pending /\ packet_failed' = FALSE
      \/ /\ packet_pending /\ ~resolve
         /\ fcs_seen' = (fcs_seen \/ event) /\ packet_failed' = failed
         /\ fcs_passed' = IF event THEN passed ELSE fcs_passed
      \/ /\ resolve /\ fcs_seen' = (fcs_seen \/ event) /\ packet_failed' = FALSE
         /\ fcs_passed' = IF event THEN passed ELSE fcs_passed
      \/ /\ ~packet_pending /\ ~PacketStart
         /\ UNCHANGED << fcs_seen, fcs_passed, packet_failed >>
  BY <1>2, <1>3 DEF Guard!Controller!Clock, Guard!Controller!Open,
     Guard!Controller!Collect, Guard!Controller!Resolve, Guard!Controller!Idle,
     Guard!Controller!CaptureVerdict
<1>10. Guard!Controller!IntegrityOk(e) <=> (fcs_seen /\ fcs_passed) \/ (event /\ passed)
  BY DEF Guard!Controller!IntegrityOk
<1> HIDE DEF event, passed, failed, resolve
<1>11. CASE packet_pending
  <2>1. /\ fcs_seen' = (fcs_seen \/ event)
        /\ packet_failed' = FALSE \/ packet_failed' = failed
        /\ fcs_passed' = IF event THEN passed ELSE fcs_passed
    BY <1>9, <1>11
  <2>2. fcs_seen' <=> fcs_seen \/ event
    BY <1>6, <1>8, <2>1
  <2>3. fcs_passed' <=> IF event THEN passed ELSE fcs_passed
    BY <1>6, <1>8, <2>1
  <2>4. packet_failed' => failed
    BY <1>8, <2>1
  <2> QED BY <1>4, <1>5, <1>7, <1>8, <1>10, <1>11, <2>2, <2>3, <2>4 DEF e
<1>12. CASE ~packet_pending
  <2>1. ~event
    BY <1>4, <1>12
  <2>2. PacketStart => packet_failed' = FALSE
    BY <1>8, <1>9, <1>12
  <2>3. ~PacketStart => fcs_seen' = fcs_seen /\ fcs_passed' = fcs_passed
    BY <1>8, <1>9, <1>12
  <2> QED BY <1>6, <1>7, <1>10, <1>12, <2>1, <2>2, <2>3 DEF e
<1> QED BY <1>11, <1>12

(* What one clock edge does to the sequence tracker.                       *)
LEMMA TrackerMoves ==
  ASSUME TheGuard, NEW f, Guard!Clock(ControllerStrobes(f), TrackerMessage)
  PROVE  LET mismatch == Guard!Tracker!Mismatch(TrackerMessage)
         IN  /\ mismatch <=> /\ decoded_valid /\ ~stream_fault
                             /\ decoded.sequence_number # current_packet_next_sequence_number
             /\ stream_fault' <=>
                  \/ integrity_failure \/ mismatch \/ packet_discard
                  \/ stream_fault /\ ~(packet_commit /\ full_reset_recovery_pending)
             /\ ~Pulse => verified_next_sequence_number' = verified_next_sequence_number
             /\ ~Pulse /\ ~decoded_valid =>
                  current_packet_next_sequence_number' = current_packet_next_sequence_number
             /\ ~Pulse /\ decoded_valid /\ ~stream_fault /\ ~mismatch =>
                  current_packet_next_sequence_number' =
                    Guard!Tracker!After(decoded.sequence_number)
             /\ packet_commit =>
                  /\ current_packet_next_sequence_number' = current_packet_next_sequence_number
                  /\ verified_next_sequence_number' =
                       IF ~stream_fault \/ full_reset_recovery_pending
                         THEN current_packet_next_sequence_number
                         ELSE verified_next_sequence_number
             /\ packet_discard =>
                  verified_next_sequence_number' = verified_next_sequence_number
<1> DEFINE t == TrackerMessage
           mismatch == Guard!Tracker!Mismatch(t)
<1>1. Guard!Tracker!Clock(t, packet_commit, packet_discard, integrity_failure)
  BY DEF Guard!Clock
<1>2. /\ t.valid <=> decoded_valid
      /\ decoded_valid => t.seq = decoded.sequence_number
  BY DEF TrackerMessage, Guard!NoMessage, Guard!Tracker!NoMessage
<1>3. /\ packet_commit \in BOOLEAN /\ packet_discard \in BOOLEAN /\ ~(packet_commit /\ packet_discard)
      /\ stream_fault \in BOOLEAN /\ integrity_failure \in BOOLEAN
      /\ full_reset_recovery_pending \in BOOLEAN
  BY DEF TheGuard, Guard!TypeOK, Guard!Controller!TypeOK, Guard!Tracker!TypeOK,
     Guard!VerdictMatchesPacket
<1> HIDE DEF t
<1>4. mismatch <=> /\ decoded_valid /\ ~stream_fault
                   /\ decoded.sequence_number # current_packet_next_sequence_number
  BY <1>2 DEF Guard!Tracker!Mismatch
<1>5. stream_fault' = \/ integrity_failure \/ mismatch \/ packet_discard
                      \/ stream_fault /\ ~(packet_commit /\ full_reset_recovery_pending)
  BY <1>1 DEF Guard!Tracker!Clock, Guard!Tracker!FaultLatch
<1>6. mismatch \in BOOLEAN
  BY DEF Guard!Tracker!Mismatch
<1> HIDE DEF mismatch
<1>7. stream_fault' <=>
                  \/ integrity_failure \/ mismatch \/ packet_discard
                  \/ stream_fault /\ ~(packet_commit /\ full_reset_recovery_pending)
  BY <1>3, <1>5, <1>6
<1>8. packet_discard => verified_next_sequence_number' = verified_next_sequence_number
  BY <1>1, <1>3 DEF Guard!Tracker!Clock, Guard!Tracker!RollBack,
     Guard!Tracker!Verify, Guard!Tracker!Advance, Guard!Tracker!Hold
<1>9. packet_commit =>
        /\ current_packet_next_sequence_number' = current_packet_next_sequence_number
        /\ verified_next_sequence_number' =
             IF ~stream_fault \/ full_reset_recovery_pending
               THEN current_packet_next_sequence_number
               ELSE verified_next_sequence_number
  BY <1>1, <1>3 DEF Guard!Tracker!Clock, Guard!Tracker!RollBack,
     Guard!Tracker!Verify, Guard!Tracker!Advance, Guard!Tracker!Hold
<1>10. ASSUME ~Pulse
       PROVE  /\ verified_next_sequence_number' = verified_next_sequence_number
              /\ ~decoded_valid =>
                   current_packet_next_sequence_number' = current_packet_next_sequence_number
              /\ decoded_valid /\ ~stream_fault /\ ~mismatch =>
                   current_packet_next_sequence_number' =
                     Guard!Tracker!After(decoded.sequence_number)
  <2>1. Guard!Tracker!Advance(t, packet_commit, packet_discard) \/
        Guard!Tracker!Hold(t, packet_commit, packet_discard)
    BY <1>1, <1>10 DEF Guard!Tracker!Clock, Guard!Tracker!RollBack, Guard!Tracker!Verify, Pulse
  <2>2. CASE Guard!Tracker!Advance(t, packet_commit, packet_discard)
    BY <1>2, <1>10, <2>2 DEF Guard!Tracker!Advance, Pulse
  <2>3. CASE Guard!Tracker!Hold(t, packet_commit, packet_discard)
    BY <1>2, <1>10, <2>3 DEF Guard!Tracker!Hold, Pulse, mismatch
  <2> QED BY <2>1, <2>2, <2>3
<1> QED BY <1>4, <1>7, <1>8, <1>9, <1>10 DEF mismatch, t

(* Without a commit a faulted stream stays faulted.                        *)
LEMMA FaultStays ==
  ASSUME TheGuard, NEW f, Guard!Clock(ControllerStrobes(f), TrackerMessage),
         ~packet_commit, stream_fault \/ Guard!Tracker!Mismatch(TrackerMessage)
  PROVE  stream_fault'
BY TrackerMoves

(* A first message other than the one verified next is a mismatch.         *)
LEMMA AheadIsMismatch ==
  ASSUME TheGuard, NEW f, Guard!Clock(ControllerStrobes(f), TrackerMessage),
         packet_log = << >>, decoded_valid, ~stream_fault,
         decoded.sequence_number # verified_next_sequence_number
  PROVE  Guard!Tracker!Mismatch(TrackerMessage)
<1>1. current_packet_next_sequence_number = verified_next_sequence_number
  BY DEF TheGuard, Guard!SpeculationMatchesPacket, Guard!NextExpected
<1> QED BY <1>1, TrackerMoves

(* CapturedInv is inductive.                                               *)
LEMMA CapturedStep ==
  ASSUME TheLine, PacketInv, SyncInv, TheGuard, SoundInv,
         NEW b, NEW words, NEW m, NEW residue_ok, NEW lookup,
         Cycle(b, words, m, residue_ok, lookup)
  PROVE  CapturedInv'
<1> DEFINE f == Pcs!Beat(b)
<1> USE DEF TheLine
<1>1. Edge(f, words, m, residue_ok)
  BY CycleParts DEF Edge
<1> HIDE DEF f
<1>2. /\ integrity_failure' <=> packet_pending /\ VerdictNow(f) /\ ~Passing(f)
      /\ packet_pending =>
           /\ fcs_seen' <=> fcs_seen \/ VerdictNow(f)
           /\ fcs_passed' <=> IF VerdictNow(f) THEN Passing(f) ELSE fcs_passed
  BY <1>1, VerdictRegisters DEF Edge, PacketInv
<1>3. packet_discard' <=> Resolving(f) /\
        \/ packet_failed \/ decoded_packet_abort \/ f.abort
        \/ Guard!Tracker!Mismatch(TrackerMessage)
        \/ VerdictNow(f) /\ ~fcs_ok
  BY <1>1, ControllerMoves DEF Edge, PacketInv
<1>4. integrity_failure' => fcs_seen' /\ ~fcs_passed'
  BY <1>2
<1>5. ASSUME packet_discard', decoded_valid' PROVE ~fcs_passed'
  <2>1. udp_payload_valid /\ f.abort
    BY <1>1, <1>3, <1>5, DecoderStep, ResolvingAtEnd DEF Edge
  <2>2. packet_pending /\ ~fcs_seen
    BY <1>3, <1>5, <2>1 DEF Resolving, PacketInv, AbortedSoon
  <2> QED BY <1>2, <2>1, <2>2 DEF VerdictNow, Passing
<1>6. ASSUME packet_discard', fcs_passed' PROVE stream_fault'
  <2>1. packet_pending /\ (fcs_seen \/ VerdictNow(f))
    BY <1>3, <1>6 DEF Resolving
  <2>2. VerdictNow(f) /\ Passing(f)
    BY <1>2, <1>6, <2>1 DEF PacketInv, AbortedSoon
  <2>3. fcs_result_valid /\ fcs_ok /\ ~f.abort
    BY <2>2 DEF Passing
  <2>4. /\ ~Pulse /\ ~decoded_packet_abort
        /\ packet_failed => \/ stream_fault
                            \/ /\ packet_log = << >> /\ decoded_valid
                               /\ decoded.sequence_number > verified_next_sequence_number
    BY <2>1, <2>3 DEF SyncInv, VerdictAlone, SoundInv
  <2>5. packet_failed \/ Guard!Tracker!Mismatch(TrackerMessage)
    BY <1>3, <1>6, <2>2, <2>3, <2>4
  <2>6. stream_fault \/ Guard!Tracker!Mismatch(TrackerMessage)
    <3>1. ASSUME packet_log = << >>, decoded_valid, ~stream_fault,
                 decoded.sequence_number > verified_next_sequence_number
          PROVE  Guard!Tracker!Mismatch(TrackerMessage)
      <4>1. decoded.sequence_number # verified_next_sequence_number
        BY <3>1 DEF NumberState, TheGuard, Guard!TypeOK, Guard!Tracker!TypeOK,
                    Guard!Tracker!SequenceNumber
      <4> QED BY <1>1, <3>1, <4>1, AheadIsMismatch DEF Edge
    <3> QED BY <2>4, <2>5, <3>1
  <2> QED BY <1>1, <2>4, <2>6, FaultStays DEF Edge, Pulse
<1> QED BY <1>4, <1>5, <1>6 DEF CapturedInv

(* The parser leaves IDLE only with the frame the host begins.             *)
LEMMA LeavesIdle ==
  ASSUME TheLine, NEW b, NEW words, NEW m, NEW residue_ok, NEW lookup,
         Cycle(b, words, m, residue_ok, lookup), ~Starting
  PROVE  /\ state = "IDLE" => state' = "IDLE"
         /\ state' = "HEADER" => state = "HEADER"
<1> DEFINE f == Pcs!Beat(b)
<1>1. /\ BeatFits(f) /\ Udp!Clock(f, words)
      /\ f.start <=> ~inside_frame /\ b.kind \in {"start_0", "start_4"}
  BY CycleParts DEF TheLine
<1> HIDE DEF f
<1>2. ~f.start
  BY <1>1, WireStep DEF TheLine
<1>3. state = "IDLE" => ~f.abort /\ ~f.end
  BY <1>1 DEF BeatFits, TheLine, LineInv, FrameState
<1> QED BY <1>1, <1>2, <1>3 DEF Udp!Clock, Udp!Abort, Udp!Wait, Udp!StartFrame,
       Udp!RejectHeader, Udp!SkipHeader, Udp!RejectPayload, Udp!NextWord, Udp!LastWord,
       Udp!CheckTail, Udp!Drain

(* CountedInv is inductive: a commit counts up to the frame it is about.   *)
LEMMA CountedStep ==
  ASSUME TheLine, PacketInv, SyncInv, TheGuard, CountedInv,
         NEW b, NEW words, NEW m, NEW residue_ok, NEW lookup,
         Cycle(b, words, m, residue_ok, lookup)
  PROVE  CountedInv'
<1> DEFINE f == Pcs!Beat(b)
<1> USE DEF TheLine, LineInv, ParserTypes, StageTypes
<1>1. Edge(f, words, m, residue_ok)
  BY CycleParts DEF Edge
<1>2. RecordHistory(f, residue_ok)
  BY DEF Cycle, Components
<1> HIDE DEF f
<1>3. /\ last_frame'.next = IF frame_pipe.end THEN sender_next ELSE last_frame.next
      /\ fcs_result_valid' <=> frame_pipe.end
  BY <1>1, <1>2 DEF RecordHistory, StrobeState, Edge, Fcs!Clock
<1>4. /\ sender_next \in Nat /\ arriving_next \in Nat /\ last_frame.next \in Nat
      /\ sender_next' \in Nat /\ arriving_next' \in Nat
      /\ last_frame.next <= sender_next
      /\ Starting => sender_next' > sender_next /\ arriving_next' = sender_next
      /\ ~Starting => sender_next' = sender_next /\ arriving_next' >= arriving_next
  <2>1. /\ WireTypes'
        /\ Starting => sender_next' > sender_next /\ arriving_next' = sender_next
        /\ ~Starting => /\ sender_next' = sender_next
                        /\ arriving_next' = arriving_next +
                             One(udp_payload_valid /\ word_index = 3)
    BY WireStep
  <2>2. sender_next \in Nat /\ arriving_next \in Nat /\ sender_next' \in Nat /\ arriving_next' \in Nat
    BY <2>1 DEF WireTypes
  <2>3. ~Starting => arriving_next' >= arriving_next
    BY <2>1, <2>2 DEF One
  <2> QED BY <2>1, <2>2, <2>3 DEF CountedInv
<1>5. last_frame'.next \in Nat /\ last_frame'.next <= sender_next'
      /\ last_frame'.next >= last_frame.next /\ last_frame'.next <= sender_next
  <2>1. last_frame'.next \in {sender_next, last_frame.next}
    BY <1>3
  <2>2. sender_next' >= sender_next
    BY <1>4
  <2> DEFINE new == last_frame'.next
             later == sender_next'
  <2>3. new \in {sender_next, last_frame.next} /\ later >= sender_next /\ later \in Nat
    BY <1>4, <2>1, <2>2
  <2> HIDE DEF new, later
  <2>4. new \in Nat /\ new <= later /\ new >= last_frame.next /\ new <= sender_next
    BY <1>4, <2>3
  <2> QED BY <2>4 DEF new, later
<1>6. verified_next_sequence_number' <= last_frame'.next
  <2>1. verified_next_sequence_number \in Nat /\ verified_next_sequence_number <= last_frame.next
    BY DEF TheGuard, Guard!TypeOK, Guard!Tracker!TypeOK, Guard!Tracker!SequenceNumber, CountedInv
  <2>2. CASE ~packet_commit
    <3>1. verified_next_sequence_number' = verified_next_sequence_number
      BY <1>1, <2>2, TrackerMoves DEF Edge, Pulse
    <3> QED BY <1>4, <1>5, <2>1, <3>1
  <2>3. CASE packet_commit
    <3>1. verified_next_sequence_number' =
            IF ~stream_fault \/ full_reset_recovery_pending
              THEN current_packet_next_sequence_number ELSE verified_next_sequence_number
      BY <1>1, <2>3, TrackerMoves DEF Edge
    <3>2. /\ packet_log # << >>
          /\ packet_log[Len(packet_log)].seq + 1 = last_frame.next
          /\ packet_log[Len(packet_log)].seq \in Nat
      <4>1. /\ last_frame.messages > 0 /\ Len(packet_log) = last_frame.messages
            /\ packet_log[Len(packet_log)].seq + 1 = last_frame.next
        BY <2>3 DEF SyncInv, CommitIsFrame
      <4>2. packet_log \in Seq(Guard!Message) /\ Len(packet_log) \in Nat
        BY DEF PacketInv, ControllerTypes
      <4>3. packet_log # << >> /\ Len(packet_log) \in 1 .. Len(packet_log)
        BY <4>1, <4>2
      <4>4. packet_log[Len(packet_log)] \in Guard!Message
        BY <4>2, <4>3
      <4>5. packet_log[Len(packet_log)].seq \in 0 .. SeqModulus - 1
        BY <4>4 DEF Guard!Message, Guard!Tracker!Message, Guard!Tracker!SequenceNumber
      <4>6. packet_log[Len(packet_log)].seq \in Nat
        BY <4>5, ConstantsAssumption
      <4> QED BY <4>1, <4>3, <4>6
    <3>3. ~stream_fault \/ full_reset_recovery_pending =>
            current_packet_next_sequence_number <= last_frame.next
      <4>1. ~stream_fault \/ full_reset_recovery_pending =>
              current_packet_next_sequence_number =
                Guard!Tracker!After(packet_log[Len(packet_log)].seq)
        BY <3>2 DEF TheGuard, Guard!SpeculationMatchesPacket, Guard!NextExpected
      <4>2. Guard!Tracker!After(packet_log[Len(packet_log)].seq) <= last_frame.next
        BY <1>4, <3>2 DEF Guard!Tracker!After
      <4> QED BY <4>1, <4>2
    <3>4. current_packet_next_sequence_number \in Nat
      BY DEF TheGuard, Guard!TypeOK, Guard!Tracker!TypeOK, Guard!Tracker!SequenceNumber
    <3>5. /\ verified_next_sequence_number' <= last_frame.next
          /\ verified_next_sequence_number' \in Nat
      BY <2>1, <3>1, <3>3, <3>4
    <3> DEFINE new == last_frame'.next
               after == verified_next_sequence_number'
    <3>6. after <= last_frame.next /\ after \in Nat /\ new >= last_frame.next /\ new \in Nat
      BY <1>5, <3>5
    <3> HIDE DEF new, after
    <3>7. after <= new
      BY <1>4, <3>6
    <3> QED BY <3>7 DEF new, after
  <2> QED BY <2>2, <2>3
<1>7. ASSUME state # "IDLE" PROVE last_frame'.next < sender_next
  <2>1. ~frame_pipe.end
    BY <1>7 DEF StrobeState
  <2> QED BY <1>3, <1>7, <2>1 DEF CountedInv
<1>8. ASSUME state' # "IDLE" PROVE last_frame'.next < sender_next'
  <2>1. CASE Starting
    <3>1. last_frame'.next <= sender_next /\ sender_next < sender_next'
      BY <1>4, <1>5, <2>1
    <3>2. \A i, j, k \in Nat : i <= j /\ j < k => i < k
      OBVIOUS
    <3> QED BY <1>4, <1>5, <3>1, <3>2
  <2>2. CASE ~Starting
    <3>1. state # "IDLE"
      BY <1>8, <2>2, LeavesIdle
    <3> QED BY <1>4, <1>7, <2>2, <3>1
  <2> QED BY <2>1, <2>2
<1>9. ASSUME packet_pending', ~fcs_seen', ~fcs_result_valid', state' \in {"IDLE", "HEADER"}
      PROVE  last_frame'.next <
               IF state' = "HEADER" /\ ~damaged' THEN arriving_next' ELSE sender_next'
  <2>1. ~frame_pipe.end /\ last_frame'.next = last_frame.next
    BY <1>3, <1>9
  <2>2. /\ packet_pending \/ PacketStart
        /\ packet_pending => ~fcs_seen /\ ~VerdictNow(f)
    BY <1>1, <1>9, ControllerMoves DEF Edge, PacketInv
  <2>3. PacketStart => state # "IDLE" /\ state # "HEADER"
    BY DEF PacketStart, StrobeState, FrameState
  <2>4. packet_pending => ~fcs_result_valid
    BY <2>2 DEF VerdictNow
  <2>5. last_frame.next < sender_next
    <3>1. CASE state # "IDLE"
      BY <3>1 DEF CountedInv
    <3>2. CASE state = "IDLE"
      BY <2>1, <2>2, <2>3, <2>4, <3>2 DEF CountedInv
    <3> QED BY <3>1, <3>2
  <2>6. CASE Starting
    <3>1. last_frame'.next < arriving_next'
      BY <1>4, <2>1, <2>5, <2>6
    <3>2. last_frame'.next < sender_next'
      <4>1. \A i, j, k \in Nat : i < j /\ j < k => i < k
        OBVIOUS
      <4> QED BY <1>4, <2>1, <2>5, <2>6, <4>1
    <3> QED BY <3>1, <3>2
  <2>7. CASE ~Starting /\ ~(state' = "HEADER" /\ ~damaged')
    BY <1>4, <2>1, <2>5, <2>7
  <2>8. CASE ~Starting /\ state' = "HEADER" /\ ~damaged'
    <3>1. state = "HEADER" /\ ~damaged
      BY <2>8, LeavesIdle, FrameMoves DEF SyncInv
    <3>2. last_frame.next < arriving_next
      BY <2>1, <2>2, <2>3, <2>4, <3>1 DEF CountedInv
    <3>3. arriving_next' >= arriving_next
      BY <1>4, <2>8
    <3>4. \A i, j, k \in Nat : i < j /\ k >= j => i < k
      OBVIOUS
    <3> QED BY <1>4, <2>1, <2>8, <3>2, <3>3, <3>4
  <2> QED BY <2>6, <2>7, <2>8
<1> QED BY <1>5, <1>6, <1>8, <1>9 DEF CountedInv

-----------------------------------------------------------------------------
(* A packet that fails on an undamaged frame.                              *)

(* A failed packet stays failed for the same reason.                       *)
LEMMA SoundMoves ==
  ASSUME TheLine, PacketInv, TheGuard,
         NEW f, NEW words, NEW m, NEW residue_ok, Edge(f, words, m, residue_ok),
         ~Pulse, ~f.abort, ~fcs_result_valid, ~decoded_packet_abort, SoundPacket,
         AssemblerStrobes.valid => m \in SentMessages
  PROVE  packet_pending' /\ packet_failed' =>
           \/ stream_fault'
           \/ /\ packet_log' = << >>
              /\ IF decoded_valid'
                   THEN decoded'.sequence_number > verified_next_sequence_number'
                   ELSE verified_next_sequence_number' < arriving_next + One(Message)
<1> USE DEF TheLine
<1> SUFFICES ASSUME packet_pending', packet_failed', ~stream_fault'
             PROVE  /\ packet_log' = << >>
                    /\ IF decoded_valid'
                         THEN decoded'.sequence_number > verified_next_sequence_number'
                         ELSE verified_next_sequence_number' < arriving_next + One(Message)
  OBVIOUS
<1>1. ~stream_fault /\ ~Guard!Tracker!Mismatch(TrackerMessage)
  BY FaultStays DEF Edge, Pulse
<1>2. packet_pending /\ packet_failed
  <2>1. packet_pending \/ PacketStart
    BY ControllerMoves DEF Edge, PacketInv
  <2>2. /\ ~packet_pending /\ PacketStart => ~packet_failed'
        /\ packet_pending /\ packet_failed' =>
              \/ packet_failed \/ decoded_packet_abort \/ f.abort
              \/ Guard!Tracker!Mismatch(TrackerMessage)
              \/ VerdictNow(f) /\ ~fcs_ok
    BY VerdictRegisters DEF Edge, PacketInv
  <2>3. ~VerdictNow(f)
    BY DEF VerdictNow
  <2> QED BY <1>1, <2>1, <2>2, <2>3
<1>3. verified_next_sequence_number \in Nat /\ arriving_next \in Nat
  BY DEF TheGuard, Guard!TypeOK, Guard!Tracker!TypeOK, Guard!Tracker!SequenceNumber, WireTypes
<1>4. ~decoded_valid
  <2> SUFFICES ASSUME decoded_valid PROVE FALSE
    OBVIOUS
  <2>1. packet_log = << >> /\ decoded.sequence_number > verified_next_sequence_number
    BY <1>1, <1>2 DEF SoundPacket
  <2>2. decoded.sequence_number # verified_next_sequence_number
    BY <1>3, <2>1 DEF NumberState
  <2> QED BY <1>1, <2>1, <2>2, AheadIsMismatch DEF Edge
<1>5. packet_log = << >> /\ verified_next_sequence_number < arriving_next
  BY <1>1, <1>2, <1>4 DEF SoundPacket
<1>6. packet_log' = << >>
  BY <1>4, <1>5, MessageType, LogMoves
<1>7. verified_next_sequence_number' = verified_next_sequence_number
  BY TrackerMoves DEF Edge
<1>8. /\ decoded_valid' <=> Message
      /\ decoded_valid' => decoded'.sequence_number = arriving_next
  BY SentIsDecoded DEF Edge, Message
<1>9. CASE Message
  BY <1>3, <1>5, <1>6, <1>7, <1>8, <1>9
<1>10. CASE ~Message
  <2>1. One(Message) = 0
    BY <1>10 DEF One
  <2> QED BY <1>3, <1>5, <1>6, <1>7, <1>8, <1>10, <2>1
<1> QED BY <1>9, <1>10

(* The messages of an undamaged payload give no other reason.              *)
LEMMA SoundInWords ==
  ASSUME TheLine, PacketInv, SyncInv, TheGuard, SoundInv,
         NEW b, NEW f, NEW words, NEW m, NEW residue_ok,
         MidFrame(b, f, words, m, residue_ok), InWords, state # "IDLE"
  PROVE  /\ ~decoded_packet_abort'
         /\ packet_pending' /\ packet_failed' =>
              \/ stream_fault'
              \/ /\ packet_log' = << >>
                 /\ IF decoded_valid'
                      THEN decoded'.sequence_number > verified_next_sequence_number'
                      ELSE verified_next_sequence_number' < arriving_next'
<1> USE DEF TheLine, MidFrame
<1>1. ~Pulse
  BY DEF InWords, PacketInv, PulseAtEnd
<1>2. ~fcs_result_valid /\ ~udp_packet_abort
  BY DEF LineInv, StrobeState, InWords, BeforePayload, FirstHeaderBeat
<1>3. ~decoded_packet_abort /\ SoundPacket
  BY DEF SoundInv, IntactSoFar
<1>4. decoded_packet_abort' <=> udp_packet_abort
  BY SentIsDecoded DEF Edge
<1>5. packet_pending' /\ packet_failed' =>
           \/ stream_fault'
           \/ /\ packet_log' = << >>
              /\ IF decoded_valid'
                   THEN decoded'.sequence_number > verified_next_sequence_number'
                   ELSE verified_next_sequence_number' < arriving_next + One(Message)
  BY <1>1, <1>2, <1>3, SoundMoves
<1> QED BY <1>2, <1>4, <1>5

(* A payload starts with a packet that has no failure, or with one whose   *)
(* frame was lost before it.                                               *)
LEMMA SoundAtPayload ==
  ASSUME TheLine, TheLine', PacketInv, PacketInv', SyncInv, TheGuard, CountedInv,
         NEW b, NEW f, NEW words, NEW m, NEW residue_ok,
         MidFrame(b, f, words, m, residue_ok), InHeader, InWords'
  PROVE  ~decoded_packet_abort' /\ SoundPacket'
<1> USE DEF TheLine, MidFrame, LineInv, ParserTypes
<1>1. /\ state = "HEADER" /\ header_bytes_discarded > 15 /\ BeforePayload'
  <2>1. state = "HEADER"
    BY DEF InHeader
  <2>2. state' # "DRAIN" \/ ~payload_started'
    BY <2>1, ParserMoves DEF Edge
  <2>3. state' = "PAYLOAD"
    BY <2>2 DEF InWords
  <2> QED BY <2>1, <2>3, ParserMoves DEF Edge, BeforePayload
<1>2. packet_log' = << >> /\ ~decoded_valid' /\ ~decoded_packet_abort'
  BY <1>1 DEF PacketInv, FreshLog, WordState
<1>3. ~Pulse /\ ~udp_payload_valid
  BY <1>1 DEF PacketInv, PulseAtEnd, HeaderUnderWay, StrobeState
<1>4. packet_pending' => packet_pending
  BY <1>3, ControllerMoves DEF Edge, PacketInv, PacketStart
<1>5. packet_pending => verified_next_sequence_number < arriving_next
  <2>1. ~fcs_result_valid /\ ~frame_pipe.end
    BY <1>1 DEF StrobeState, FirstHeaderBeat
  <2>2. packet_pending => ~fcs_seen
    BY <1>1 DEF PacketInv, AbortedSoon, FirstHeaderBeat
  <2>3. packet_pending => last_frame.next < arriving_next
    BY <1>1, <2>1, <2>2 DEF CountedInv
  <2>4. /\ verified_next_sequence_number \in Nat /\ last_frame.next \in Nat
        /\ arriving_next \in Nat /\ verified_next_sequence_number <= last_frame.next
    <3>1. verified_next_sequence_number \in Nat
      BY DEF TheGuard, Guard!TypeOK, Guard!Tracker!TypeOK, Guard!Tracker!SequenceNumber
    <3>2. arriving_next \in Nat
      BY DEF WireTypes
    <3> QED BY <3>1, <3>2 DEF CountedInv
  <2> QED BY <2>3, <2>4
<1>6. verified_next_sequence_number' = verified_next_sequence_number
  BY <1>3, TrackerMoves DEF Edge
<1>7. arriving_next' = arriving_next
  BY <1>3 DEF Message, One, WireTypes
<1> QED BY <1>2, <1>4, <1>5, <1>6, <1>7 DEF SoundPacket

(* SoundInv is inductive.                                                  *)
LEMMA SoundStep ==
  ASSUME TheLine, TheLine', PacketInv, PacketInv', SyncInv, TheGuard, CountedInv, SoundInv,
         NEW b, NEW words, NEW m, NEW residue_ok, NEW lookup,
         Cycle(b, words, m, residue_ok, lookup)
  PROVE  SoundInv'
<1> DEFINE f == Pcs!Beat(b)
<1> USE DEF TheLine
<1>1. Edge(f, words, m, residue_ok)
  BY CycleParts DEF Edge
<1>2. residue_ok \in Residues(b, words, m)
  BY DEF Cycle
<1>3. ~damaged' /\ ~Starting /\ state # "IDLE" =>
        MidFrame(b, f, words, m, residue_ok) /\ (InHeader \/ InWords)
  BY MidFrameStep DEF MidFrame, SyncInv, InStep
<1>4. Starting /\ ~damaged' => ~f.end /\ (state' # "IDLE" => InHeader')
  BY StartInStep
<1> HIDE DEF f
<1>5. /\ frame_pipe'.end <=> f.end
      /\ fcs_result_valid' <=> frame_pipe.end
      /\ fcs_ok' => frame_pipe.end /\ residue_ok
  BY <1>1 DEF Edge, Fcs!Clock, LineInv, StageTypes, StrobeState, BeatFits
<1>6. ASSUME ~damaged', state' # "IDLE", InWords'
      PROVE  ~decoded_packet_abort' /\ SoundPacket'
  <2>1. ~Starting
    BY <1>4, <1>6 DEF InHeader, InWords
  <2>2. state # "IDLE"
    BY <1>6, <2>1, LeavesIdle
  <2>3. MidFrame(b, f, words, m, residue_ok) /\ (InHeader \/ InWords)
    BY <1>3, <1>6, <2>1, <2>2
  <2>4. CASE InHeader
    BY <1>6, <2>3, <2>4, SoundAtPayload
  <2>5. CASE InWords
    BY <2>2, <2>3, <2>5, SoundInWords DEF SoundPacket
  <2> QED BY <2>3, <2>4, <2>5
<1>7. ASSUME ~damaged', f.end
      PROVE  ~decoded_packet_abort' /\ ~udp_packet_abort' /\ SoundPacket'
  <2>1. ~Starting
    BY <1>4, <1>7
  <2>2. state # "IDLE"
    BY <1>1, <1>7 DEF Edge, BeatFits, LineInv, FrameState
  <2>3. MidFrame(b, f, words, m, residue_ok) /\ InWords
    BY <1>3, <1>7, <2>1, <2>2, HeaderInStep
  <2>4. ~udp_packet_abort'
    BY <1>7, <2>3, WordsInStep
  <2>5. ~decoded_packet_abort' /\ SoundPacket'
    BY <2>2, <2>3, SoundInWords DEF SoundPacket
  <2> QED BY <2>4, <2>5
<1>8. ASSUME fcs_ok'
      PROVE  /\ ~decoded_packet_abort'
             /\ packet_pending' /\ packet_failed' =>
                  \/ stream_fault'
                  \/ /\ packet_log' = << >> /\ decoded_valid'
                     /\ decoded'.sequence_number > verified_next_sequence_number'
  <2>1. frame_pipe.end /\ frame_pipe.valid /\ residue_ok
    BY <1>5, <1>8 DEF LineInv, StrobeState
  <2>2. ~damaged /\ (AssemblerStrobes.valid => m \in SentMessages)
    BY <1>2, <2>1 DEF Residues
  <2>3. ~decoded_packet_abort /\ ~udp_packet_abort /\ SoundPacket
    BY <2>1, <2>2 DEF SoundInv
  <2>4. ~fcs_result_valid /\ ~Pulse
    BY <2>1, <2>2 DEF SyncInv, VerdictAlone, EndInStep, FrameEnded
  <2>5. ~f.abort
    BY <1>1, <2>1 DEF Edge, BeatFits, LineInv, StrobeState, FrameState
  <2>6. decoded_packet_abort' <=> udp_packet_abort
    BY <1>1, <2>2, SentIsDecoded DEF Edge
  <2>7. packet_log' # << >> \/ decoded_valid'
    <3>1. GoodVerdict'
      BY VerdictFlow
    <3>2. last_frame'.messages > 0 /\ Len(packet_log') + One(decoded_valid') = last_frame'.messages
      BY <1>5, <1>8, <2>1, <3>1 DEF GoodVerdict
    <3>3. packet_log' = << >> => Len(packet_log') = 0
      OBVIOUS
    <3> QED BY <3>2, <3>3 DEF One
  <2> QED BY <1>1, <2>2, <2>3, <2>4, <2>5, <2>6, <2>7, SoundMoves
<1> QED BY <1>5, <1>6, <1>7, <1>8 DEF SoundInv, IntactSoFar

-----------------------------------------------------------------------------
(* The packet of an order, from its decoding to the answer.                *)

(* An ORDER_INTENT without a protocol error is the end of its packet.      *)
IntentAtEnd ==
  Decoder!IsOrderIntent =>
    IF protocol_error THEN decoded_packet_abort
                      ELSE decoded_packet_end /\ ~decoded_packet_abort

(* Every clock edge of the decoder ends like that.                         *)
LEMMA IntentAtEndStep ==
  ASSUME TheLine, NEW m, Decoder!Clock(AssemblerStrobes, m)
  PROVE  IntentAtEnd'
<1> DEFINE a == AssemblerStrobes
<1>1. a.packet_end \in BOOLEAN
  BY DEF AssemblerStrobes, UdpStrobes, Assembler!MessagePacketEnd, Assembler!MessageValid
<1> HIDE DEF a
<1> SUFFICES ASSUME Decoder!IsOrderIntent'
             PROVE  IF protocol_error' THEN decoded_packet_abort'
                                       ELSE decoded_packet_end' /\ ~decoded_packet_abort'
  BY DEF IntentAtEnd
<1>2. decoded_valid' /\ decoded'.type = Decoder!ORDER_INTENT
  BY DEF Decoder!IsOrderIntent
<1>3. Decoder!Decode(a, m)
  BY <1>2 DEF Decoder!Clock, Decoder!PassAbort, Decoder!NoMessage, Decoder!Quiet, a
<1> DEFINE format == Decoder!FormatValid(m, a.packet_end)
<1>4. protocol_error' = ~format /\ format \in BOOLEAN
  BY <1>3 DEF Decoder!Decode, Decoder!FormatValid
<1>5. format \/ m.type = Decoder!ORDER_INTENT
  BY <1>2, <1>3 DEF Decoder!Decode, Decoder!Quiet
<1>6. /\ decoded' = m /\ decoded_packet_end' = a.packet_end
      /\ decoded_packet_abort' = ~format
  BY <1>3, <1>5 DEF Decoder!Decode
<1>7. format => a.packet_end
  BY <1>1, <1>2, <1>6 DEF Decoder!FormatValid, Decoder!TypeFieldsValid,
     Decoder!TOB_UPDATE, Decoder!ORDER_INTENT, Decoder!SYMBOL_STATUS,
     Decoder!CONFIG_CONTROL, Decoder!SESSION_STATUS
<1> HIDE DEF format
<1> QED BY <1>4, <1>6, <1>7

(* A cycle in which the integrity verdict of the open packet of an order   *)
(* may arrive: the packet commits, loses its integrity or stays open.      *)
LEMMA OpenResolves ==
  ASSUME TheLine, PacketInv, TheGuard, SoundInv, NEW seq,
         NEW f, NEW words, NEW m, NEW residue_ok, Edge(f, words, m, residue_ok),
         packet_pending, Decoded, ~fcs_seen,
         ~udp_payload_valid,
         ~Pulse, ~stream_fault, ~integrity_failure,
         ~Guard!Tracker!Mismatch(TrackerMessage),
         packet_log # << >> \/ decoded_valid,
         current_packet_next_sequence_number' = seq + 1
  PROVE  /\ OrderStage(seq)'
         /\ Guard!Controller!IntegrityOk(ControllerInputs(f)) => OrderCommitted(seq)'
<1> USE DEF TheLine, Pulse
<1>1. /\ Pulse' <=> VerdictNow(f)
      /\ packet_discard' <=> /\ VerdictNow(f)
                             /\ packet_failed \/ decoded_packet_abort \/ f.abort \/ ~fcs_ok
      /\ packet_commit' <=> VerdictNow(f) /\ ~packet_discard'
      /\ packet_pending' <=> ~VerdictNow(f)
      /\ packet_pending' => decode_done' /\ ~fcs_seen'
  BY ControllerMoves DEF Edge, PacketInv, Resolving
<1>2. /\ integrity_failure' <=> VerdictNow(f) /\ ~Passing(f)
      /\ fcs_passed' <=> IF VerdictNow(f) THEN Passing(f) ELSE fcs_passed
      /\ Guard!Controller!IntegrityOk(ControllerInputs(f)) <=> VerdictNow(f) /\ Passing(f)
  BY VerdictRegisters DEF Edge, PacketInv
<1>3. ~decoded_valid'
  BY DecoderStep DEF Edge
<1>4. packet_log' # << >>
  BY MessageType, LogMoves
<1>5. ~stream_fault'
  BY TrackerMoves DEF Edge
<1>6. CASE ~VerdictNow(f)
  <2>1. OrderOpen(seq)'
    BY <1>1, <1>2, <1>3, <1>4, <1>5, <1>6 DEF OrderOpen
  <2> QED BY <1>2, <1>6, <2>1 DEF OrderStage
<1>7. CASE VerdictNow(f) /\ ~Passing(f)
  <2>1. OrderLost'
    BY <1>1, <1>2, <1>7 DEF OrderLost
  <2> QED BY <1>2, <1>7, <2>1 DEF OrderStage
<1>8. CASE VerdictNow(f) /\ Passing(f)
  <2>1. fcs_result_valid /\ fcs_ok /\ ~f.abort
    BY <1>8 DEF Passing
  <2>2. /\ ~decoded_packet_abort
        /\ packet_failed => packet_log = << >> /\ decoded_valid /\
                            decoded.sequence_number > verified_next_sequence_number
    BY <2>1 DEF SoundInv
  <2>3. ~packet_failed
    <3> SUFFICES ASSUME packet_failed PROVE FALSE
      OBVIOUS
    <3>1. decoded.sequence_number # verified_next_sequence_number
      BY <2>2 DEF NumberState, TheGuard, Guard!TypeOK, Guard!Tracker!TypeOK,
                  Guard!Tracker!SequenceNumber
    <3> QED BY <2>2, <3>1, AheadIsMismatch DEF Edge
  <2>4. OrderCommitted(seq)'
    BY <1>1, <1>2, <1>5, <1>8, <2>1, <2>2, <2>3 DEF OrderCommitted
  <2> QED BY <2>4 DEF OrderStage
<1> QED BY <1>6, <1>7, <1>8

(* A committed order stays committed until the next payload starts.        *)
LEMMA CommittedStays ==
  ASSUME TheLine, PacketInv, TheGuard, NEW seq,
         NEW f, NEW words, NEW m, NEW residue_ok, Edge(f, words, m, residue_ok),
         RecordHistory(f, residue_ok),
         ~PacketStart, OrderCommitted(seq)
  PROVE  OrderCommitted(seq)'
<1> USE DEF TheLine, OrderCommitted
<1>1. ~decoded_valid
  BY DEF PacketInv, Opened
<1>2. ~packet_pending' /\ ~packet_discard' /\ ~packet_commit'
  BY ControllerMoves DEF Edge, PacketInv, Resolving
<1>3. ~integrity_failure'
  BY VerdictRegisters DEF Edge, PacketInv
<1>4. outcome' = "commit"
  BY DEF RecordHistory
<1>5. ~stream_fault'
  BY <1>1, TrackerMoves DEF Edge
<1>6. current_packet_next_sequence_number' = current_packet_next_sequence_number
  BY <1>1, TrackerMoves DEF Edge, Pulse
<1> QED BY <1>2, <1>3, <1>4, <1>5, <1>6

(* An order whose packet has been or is being resolved stays in one of its *)
(* stages, and an answer with a good FCS is about a commit.                *)
LEMMA StageMoves ==
  ASSUME TheLine, PacketInv, TheGuard, SoundInv, NEW seq,
         NEW f, NEW words, NEW m, NEW residue_ok, Edge(f, words, m, residue_ok),
         RecordHistory(f, residue_ok),
         ~udp_payload_valid, OrderStage(seq)
  PROVE  /\ OrderStage(seq)'
         /\ Guard!Controller!IntegrityOk(ControllerInputs(f)) => OrderCommitted(seq)'
<1> USE DEF TheLine
<1>1. ~PacketStart
  BY DEF PacketStart
<1>2. CASE OrderOpen(seq)
  <2> USE <1>2 DEF OrderOpen
  <2>1. ~Guard!Tracker!Mismatch(TrackerMessage)
    BY TrackerMoves DEF Edge
  <2>2. current_packet_next_sequence_number' = seq + 1
    BY TrackerMoves DEF Edge
  <2>3. Decoded
    BY DEF Decoded
  <2> QED BY <2>1, <2>2, <2>3, OpenResolves
<1>3. CASE OrderCommitted(seq)
  BY <1>1, <1>3, CommittedStays DEF OrderStage
<1>4. CASE OrderLost
  <2>1. OrderLost'
    <3>1. ~packet_pending'
      BY <1>1, <1>4, ControllerMoves DEF Edge, PacketInv, OrderLost
    <3> QED BY <1>1, <1>4, <3>1, VerdictRegisters DEF Edge, PacketInv, OrderLost
  <2>2. ~Guard!Controller!IntegrityOk(ControllerInputs(f))
    BY <1>4, VerdictRegisters DEF Edge, PacketInv, OrderLost
  <2> QED BY <2>1, <2>2 DEF OrderStage
<1> QED BY <1>2, <1>3, <1>4 DEF OrderStage

-----------------------------------------------------------------------------
(* The steps of an order through the risk engine.                          *)

(* An order decoded without a fault starts in one of its stages.           *)
LEMMA OrderDecoded ==
  ASSUME TheLine, PacketInv, TheGuard, SoundInv, CapturedInv, IntentAtEnd,
         NEW f, NEW words, NEW m, NEW residue_ok, Edge(f, words, m, residue_ok),
         Decoder!IsOrderIntent, ~protocol_error,
         ~Guard!Tracker!EffectiveStreamFault(TrackerMessage, integrity_failure),
         NEW seq, seq = decoded.sequence_number
  PROVE  Headroom(15)' /\ OrderStage(seq)'
<1> USE DEF TheLine, LineInv
<1>1. /\ decoded_valid /\ decoded_packet_end /\ ~decoded_packet_abort
      /\ ~stream_fault /\ ~integrity_failure /\ ~Guard!Tracker!Mismatch(TrackerMessage)
  BY DEF IntentAtEnd, Decoder!IsOrderIntent, Guard!Tracker!EffectiveStreamFault
<1>2. ~udp_payload_valid /\ state # "PAYLOAD"
  BY <1>1 DEF PacketInv, NothingAfterEnd, EndSeen
<1>3. state = "HEADER" => header_bytes_discarded \in Nat /\ header_bytes_discarded <= 7
  BY <1>1 DEF WordState, LaterHeaderBeat, FrameState
<1>4. Headroom(15)'
  <2>1. ~udp_payload_valid'
    BY <1>2, ParserMoves DEF Edge
  <2>2. state' # "PAYLOAD"
    BY <1>2, <1>3, ParserMoves DEF Edge
  <2>3. state' = "HEADER" => \/ header_bytes_discarded' <= 7
                             \/ /\ state = "HEADER" /\ header_bytes_discarded' \in
                                     {header_bytes_discarded, header_bytes_discarded + 8}
    BY ParserMoves DEF Edge
  <2>4. state' = "HEADER" => header_bytes_discarded' \in Nat
    BY ParserStep DEF Edge, ParserTypes
  <2>5. state' = "HEADER" => header_bytes_discarded' <= 15
    BY <1>3, <2>3, <2>4
  <2> QED BY <2>1, <2>2, <2>5 DEF Headroom
<1>5. ~PacketStart
  BY <1>2 DEF PacketStart
<1>6. CASE packet_pending
  <2>1. ~Pulse
    BY <1>6 DEF TheGuard, Guard!VerdictMatchesPacket, Pulse
  <2>2. current_packet_next_sequence_number' = seq + 1
    <3>1. current_packet_next_sequence_number' =
            Guard!Tracker!After(decoded.sequence_number)
      BY <1>1, <2>1, TrackerMoves DEF Edge
    <3>2. decoded.sequence_number \in 0 .. SeqModulus - 2
      BY <1>1 DEF NumberState
    <3>3. decoded.sequence_number # SeqModulus - 1
      BY <3>2, ConstantsAssumption
    <3> QED BY <3>1, <3>3 DEF Guard!Tracker!After
  <2>3. Decoded
    BY <1>1 DEF Decoded
  <2>4. CASE ~fcs_seen
    BY <1>1, <1>4, <1>2, <1>6, <2>1, <2>2, <2>3, <2>4, OpenResolves
  <2>5. CASE fcs_seen
    <3>1. ~fcs_passed
      BY <1>6, <2>5 DEF PacketInv, AbortedSoon
    <3>2. ~packet_pending'
      BY <1>6, <2>3, <2>5, ControllerMoves DEF Edge, PacketInv, Resolving
    <3>3. ~fcs_passed'
      BY <1>6, <2>5, <3>1, VerdictRegisters DEF Edge, PacketInv, VerdictNow
    <3> QED BY <1>4, <3>2, <3>3 DEF OrderStage, OrderLost
  <2> QED BY <2>4, <2>5
<1>7. CASE ~packet_pending
  <2>1. packet_discard
    BY <1>1, <1>7 DEF PacketInv, Opened
  <2>2. ~fcs_passed
    BY <1>1, <2>1 DEF CapturedInv
  <2>3. ~packet_pending' /\ ~fcs_passed'
    BY <1>5, <1>7, <2>2, ControllerMoves, VerdictRegisters DEF Edge, PacketInv
  <2> QED BY <1>4, <2>3 DEF OrderStage, OrderLost
<1> QED BY <1>4, <1>6, <1>7

(* An ACCEPT is about an order that had neither fault.                     *)
LEMMA AcceptHasNoFault ==
  ASSUME NEW o, NEW l, Risk!SelectedRejectReason(o, l) = "NONE"
  PROVE  ~o.stream_fault /\ ~o.protocol_violation
<1> DEFINE c == Risk!RejectConditions(o, l)
           First == {i \in DOMAIN c : c[i].holds /\ \A j \in 1 .. i - 1 : ~c[j].holds}
<1>1. /\ DOMAIN c = 1 .. 13
      /\ c[1].holds = o.stream_fault /\ c[2].holds = o.protocol_violation
  BY DEF Risk!RejectConditions
<1>2. \A i \in DOMAIN c : c[i].reason # "NONE"
  BY DEF Risk!RejectConditions
<1>3. Risk!SelectedRejectReason(o, l) =
        IF First = {} THEN "NONE" ELSE c[CHOOSE i \in First : TRUE].reason
  BY DEF Risk!SelectedRejectReason
<1> HIDE DEF c
<1>4. First # {} => (CHOOSE i \in First : TRUE) \in DOMAIN c
  OBVIOUS
<1>5. First = {}
  BY <1>2, <1>3, <1>4
<1>6. ~c[1].holds
  <2>1. 1 \in DOMAIN c /\ \A j \in 1 .. 1 - 1 : ~c[j].holds
    BY <1>1
  <2> QED BY <1>5, <2>1
<1>7. ~c[2].holds
  <2>1. 2 \in DOMAIN c /\ \A j \in 1 .. 2 - 1 : j = 1
    BY <1>1
  <2> QED BY <1>5, <1>6, <2>1
<1> QED BY <1>1, <1>6, <1>7

(* A clock edge uses up at most one beat of the header.                    *)
LEMMA HeadroomMoves ==
  ASSUME LineInv, NEW f, NEW words, NEW m, NEW residue_ok,
         Edge(f, words, m, residue_ok), Headroom(15)
  PROVE  Headroom(23)'
<1>1. state = "HEADER" => header_bytes_discarded \in Nat /\ header_bytes_discarded <= 15
  BY DEF Headroom, LineInv, FrameState
<1>2. ~udp_payload_valid' /\ state' # "PAYLOAD"
  BY <1>1, ParserMoves DEF Edge, Headroom
<1>3. state' = "HEADER" => \/ header_bytes_discarded' <= 7
                           \/ /\ state = "HEADER" /\ header_bytes_discarded' \in
                                   {header_bytes_discarded, header_bytes_discarded + 8}
  BY ParserMoves DEF Edge
<1>4. state' = "HEADER" => header_bytes_discarded' \in Nat
  BY ParserStep DEF Edge, ParserTypes
<1>5. state' = "HEADER" => header_bytes_discarded' <= 23
  BY <1>1, <1>3, <1>4
<1> QED BY <1>2, <1>5 DEF Headroom

(* OrderInv is inductive: the decision comes two cycles after the order,   *)
(* before the next payload can start.                                      *)
LEMMA OrderStep ==
  ASSUME TheLine, PacketInv, TheGuard, SoundInv, CapturedInv, IntentAtEnd, OrderInv,
         NEW b, NEW words, NEW m, NEW residue_ok, NEW lookup,
         Cycle(b, words, m, residue_ok, lookup)
  PROVE  OrderInv'
<1> DEFINE f == Pcs!Beat(b)
<1> USE DEF TheLine
<1>1. Edge(f, words, m, residue_ok)
  BY CycleParts DEF Edge
<1>2. RecordHistory(f, residue_ok)
  BY DEF Cycle, Components
<1>3. /\ lookup_valid' = Decoder!IsOrderIntent
      /\ Risk!Capture(Decoder!IsOrderIntent, Order)
      /\ Risk!Decide(lookup_valid, lookup)
  BY DEF Cycle, Components, Risk!Clock
<1> HIDE DEF f
<1>4. ASSUME lookup_valid', ~pending_order'.stream_fault, ~pending_order'.protocol_violation
      PROVE  Headroom(15)' /\ OrderStage(pending_order.sequence_number)'
  <2>1. Decoder!IsOrderIntent
    BY <1>3, <1>4
  <2>2. /\ pending_order'.stream_fault = Order.stream_fault
        /\ pending_order'.protocol_violation = Order.protocol_violation
        /\ pending_order'.sequence_number = Order.sequence_number
    BY <1>3, <2>1 DEF Risk!Capture
  <2>3. /\ pending_order'.stream_fault =
             Guard!Tracker!EffectiveStreamFault(TrackerMessage, integrity_failure)
        /\ pending_order'.protocol_violation = protocol_error
        /\ pending_order'.sequence_number = decoded.sequence_number
    BY <2>2 DEF Order
  <2>4. PICK seq : seq = decoded.sequence_number
    OBVIOUS
  <2>5. Headroom(15)' /\ OrderStage(seq)'
    BY <1>1, <1>4, <2>1, <2>3, <2>4, OrderDecoded
  <2>6. pending_order'.sequence_number = seq
    BY <2>3, <2>4
  <2> QED BY <2>5, <2>6 DEF OrderStage, OrderOpen, OrderCommitted
<1>5. ASSUME decision_valid', decision'.decision = "ACCEPT"
      PROVE  Headroom(23)' /\ OrderStage(decision.sequence_number)'
  <2>1. lookup_valid
    BY <1>3, <1>5 DEF Risk!Decide
  <2>2. /\ Risk!SelectedRejectReason(pending_order, lookup) = "NONE"
        /\ decision'.sequence_number = pending_order.sequence_number
    BY <1>3, <1>5, <2>1 DEF Risk!Decide
  <2>3. PICK seq : seq = pending_order.sequence_number
    OBVIOUS
  <2>4. Headroom(15) /\ OrderStage(seq)
    BY <2>1, <2>2, <2>3, AcceptHasNoFault DEF OrderInv
  <2>5. Headroom(23)'
    BY <1>1, <2>4, HeadroomMoves
  <2>6. OrderStage(seq)'
    BY <1>1, <1>2, <2>4, StageMoves DEF Headroom
  <2>7. decision'.sequence_number = seq
    BY <2>2, <2>3
  <2> QED BY <2>5, <2>6, <2>7 DEF OrderStage, OrderOpen, OrderCommitted
<1>6. ASSUME answer' # << >>, answer'.source_frame_ok, answer'.decision = "ACCEPT"
      PROVE  OrderCommitted(answer.sequence_number)'
  <2>1. CASE decision_valid
    <3>1. /\ answer'.decision = decision.decision
          /\ answer'.sequence_number = decision.sequence_number
          /\ answer'.source_frame_ok = Guard!Controller!IntegrityOk(ControllerInputs(f))
      BY <1>2, <2>1 DEF RecordHistory
    <3>2. PICK seq : seq = decision.sequence_number
      OBVIOUS
    <3>3. Headroom(23) /\ OrderStage(seq)
      BY <1>6, <2>1, <3>1, <3>2 DEF OrderInv
    <3>4. OrderCommitted(seq)'
      BY <1>1, <1>2, <1>6, <3>1, <3>3, StageMoves DEF Headroom
    <3>5. answer'.sequence_number = seq
      BY <3>1, <3>2
    <3> QED BY <3>4, <3>5 DEF OrderCommitted
  <2>2. CASE ~decision_valid
    <3>1. ~PacketStart /\ answer' = answer
      BY <1>2, <1>6, <2>2 DEF RecordHistory
    <3>2. PICK seq : seq = answer.sequence_number
      OBVIOUS
    <3>3. OrderCommitted(seq)
      BY <1>6, <3>1, <3>2 DEF OrderInv
    <3>4. OrderCommitted(seq)'
      BY <1>1, <1>2, <3>1, <3>3, CommittedStays
    <3>5. answer'.sequence_number = seq
      BY <3>1, <3>2
    <3> QED BY <3>4, <3>5 DEF OrderCommitted
  <2> QED BY <2>1, <2>2
<1> QED BY <1>4, <1>5, <1>6 DEF OrderInv

(* The invariant of the orders.                                            *)
OrdersInv == CountedInv /\ SoundInv /\ CapturedInv /\ IntentAtEnd /\ OrderInv

(* It holds initially.                                                     *)
LEMMA OrdersInit == Init => OrdersInv
<1> SUFFICES ASSUME Init PROVE OrdersInv
  OBVIOUS
<1>1. /\ state = "IDLE" /\ ~frame_pipe.end /\ ~fcs_result_valid /\ ~packet_pending
      /\ ~packet_commit /\ ~packet_discard /\ ~integrity_failure /\ ~decoded_valid
      /\ verified_next_sequence_number = 1
      /\ sender_next = 1 /\ last_frame.next = 1
      /\ ~lookup_valid /\ ~decision_valid /\ answer = << >>
  BY DEF Init, Udp!Init, Fcs!Init, Fcs!NoBeat, Guard!Init, Guard!Controller!Init,
     Guard!Tracker!Init, Decoder!Init, Risk!Init
<1>2. CountedInv
  BY <1>1 DEF CountedInv
<1>3. SoundInv /\ CapturedInv /\ IntentAtEnd
  BY <1>1 DEF SoundInv, IntactSoFar, CapturedInv, IntentAtEnd, Decoder!IsOrderIntent
<1>4. OrderInv
  BY <1>1 DEF OrderInv
<1> QED BY <1>2, <1>3, <1>4 DEF OrdersInv

(* A stuttering step keeps it.                                             *)
LEMMA OrdersStutter == OrdersInv /\ UNCHANGED vars => OrdersInv'
<1> SUFFICES ASSUME OrdersInv, UNCHANGED vars PROVE OrdersInv'
  OBVIOUS
<1>1. /\ UNCHANGED << Udp!vars, Assembler!vars, Decoder!vars, Fcs!vars >>
      /\ UNCHANGED << Guard!vars, Risk!vars, lookup_valid, wire_vars, history >>
  BY DEF vars
<1>2. /\ UNCHANGED << state, header_bytes_discarded, payload_started,
                      payload_words_remaining, udp_payload_valid, udp_packet_abort, word_index >>
      /\ UNCHANGED << decoded_valid, decoded, decoded_packet_end, decoded_packet_abort,
                      protocol_error, frame_pipe, fcs_result_valid, fcs_ok >>
      /\ UNCHANGED << packet_pending, decode_done, fcs_seen, fcs_passed, packet_failed,
                      packet_commit, packet_discard, integrity_failure, packet_log >>
      /\ UNCHANGED << stream_fault, verified_next_sequence_number,
                      current_packet_next_sequence_number >>
      /\ UNCHANGED << pending_order, decision_valid, decision, lookup_valid >>
      /\ UNCHANGED << wire, damaged, sender_next, arriving_next, last_frame, outcome, answer >>
  BY <1>1 DEF Udp!vars, Assembler!vars, Decoder!vars, Fcs!vars, Guard!vars,
     Guard!Controller!vars, Guard!Tracker!vars, Guard!history, Risk!vars, wire_vars, history
<1>3. CountedInv'
  BY <1>2 DEF OrdersInv, CountedInv
<1>4. SoundInv'
  BY <1>2 DEF OrdersInv, SoundInv, SoundPacket, IntactSoFar, InWords, LastNumber, Coming, One
<1>5. CapturedInv' /\ IntentAtEnd'
  BY <1>2 DEF OrdersInv, CapturedInv, IntentAtEnd, Decoder!IsOrderIntent
<1>6. OrderInv'
  BY <1>2 DEF OrdersInv, OrderInv, Headroom, OrderStage, OrderOpen, OrderCommitted,
     OrderLost, Pulse
<1> QED BY <1>3, <1>4, <1>5, <1>6 DEF OrdersInv

(***************************************************************************)
(* The numbers, the verdicts and the orders on their way through the risk  *)
(* engine fit the packets.                                                 *)
(***************************************************************************)
THEOREM OrdersCorrect == Spec => []OrdersInv
<1>1. TheLine /\ TheLine' /\ PacketInv /\ PacketInv' /\ SyncInv /\ TheGuard /\ OrdersInv /\ Next
        => OrdersInv'
  <2> SUFFICES ASSUME TheLine, TheLine', PacketInv, PacketInv', SyncInv, TheGuard,
                      OrdersInv, Next
               PROVE  OrdersInv'
    OBVIOUS
  <2>1. PICK b, words, m, residue_ok, lookup : Cycle(b, words, m, residue_ok, lookup)
    BY NextIsCycle
  <2>2. CountedInv /\ SoundInv /\ CapturedInv /\ IntentAtEnd /\ OrderInv
    BY DEF OrdersInv
  <2>3. CountedInv'
    BY <2>1, <2>2, CountedStep
  <2>4. SoundInv'
    BY <2>1, <2>2, SoundStep
  <2>5. CapturedInv'
    BY <2>1, <2>2, CapturedStep
  <2>6. IntentAtEnd'
    BY <2>1, CycleParts, IntentAtEndStep DEF TheLine
  <2>7. OrderInv'
    BY <2>1, <2>2, OrderStep
  <2> QED BY <2>3, <2>4, <2>5, <2>6, <2>7 DEF OrdersInv
<1>2. Spec => []TheGuard
  BY GuardHolds, PTL DEF TheGuard
<1> QED
  BY <1>1, <1>2, OrdersInit, OrdersStutter, LineCorrect, PacketCorrect, SyncCorrect, PTL
     DEF Spec

(***************************************************************************)
(* An ACCEPT that leaves with a good FCS belongs to a packet that commits, *)
(* and its number is the last one counted (order_risk_engine.sv,           *)
(* rx_packet_controller.sv).                                               *)
(***************************************************************************)
THEOREM AcceptedCorrect == Spec => []AcceptedOrderIsCommitted
<1>1. OrdersInv => AcceptedOrderIsCommitted
  BY DEF OrdersInv, OrderInv, OrderCommitted, AcceptedOrderIsCommitted
<1> QED BY <1>1, OrdersCorrect, PTL

-----------------------------------------------------------------------------
(* The verdict is there when the answer is written.                        *)

(* The open packet can no longer be committed.                             *)
WillFail ==
  \/ packet_failed \/ decoded_packet_abort
  \/ damaged /\ (frame_pipe.end \/ state \in {"PAYLOAD", "DRAIN"})
  \/ fcs_result_valid /\ ~fcs_ok

(* The last block of an undamaged frame is overdue by a cycle.             *)
EndWaits == ~damaged /\ state = "DRAIN" /\ payload_started /\ gaps >= 1

(* The next payload is still at least this many header bytes away, and     *)
(* none starts.                                                            *)
Calm(hb) ==
  ~PacketStart /\ ~BeforePayload /\ (state = "HEADER" => header_bytes_discarded <= hb)

(* What is known of the packet of an order when its answer is awaited;     *)
(* in_time says that the verdict comes before the answer.                  *)
AnswerStage(in_time) ==
  \/ packet_pending /\ decode_done /\ (WillFail \/ in_time)
  \/ ~packet_pending /\ fcs_seen /\ fcs_passed
  \/ ~packet_pending /\ ~packet_commit /\ outcome # "commit"

(* The packet of the latest answer has not been committed and will not be. *)
Doomed == ~packet_commit /\ outcome # "commit" /\ (packet_pending => WillFail)

(* Verdicts come in time for the answers, except for a packet that will    *)
(* fail.                                                                   *)
StompInv ==
  /\ packet_pending => outcome = "none"
  /\ decoded_valid /\ decoded_packet_end /\ packet_pending =>
       WillFail \/ fcs_result_valid \/ frame_pipe.end \/ EndWaits
  /\ lookup_valid => Calm(15) /\ AnswerStage(fcs_result_valid \/ frame_pipe.end)
  /\ decision_valid => Calm(23) /\ AnswerStage(fcs_result_valid)
  /\ answer # << >> /\ ~answer.source_frame_ok => Doomed

(* A packet that will fail fails.                                          *)
LEMMA DoomStays ==
  ASSUME TheLine, PacketInv, SyncInv,
         NEW b, NEW words, NEW m, NEW residue_ok, NEW lookup,
         Cycle(b, words, m, residue_ok, lookup), packet_pending, WillFail
  PROVE  ~packet_commit' /\ (packet_pending' => WillFail')
<1> DEFINE f == Pcs!Beat(b)
<1> USE DEF TheLine
<1>1. /\ Edge(f, words, m, residue_ok)
      /\ inside_frame /\ b.kind \in {"start_0", "start_4", "idle"} => f.abort
  BY CycleParts DEF Edge
<1>2. residue_ok \in Residues(b, words, m)
  BY DEF Cycle
<1> HIDE DEF f
<1>3. /\ frame_pipe'.end <=> f.end
      /\ fcs_result_valid' <=> frame_pipe.end
      /\ fcs_ok' => frame_pipe.end /\ residue_ok
  BY <1>1 DEF Edge, Fcs!Clock, LineInv, StageTypes, StrobeState, BeatFits
<1>4. ASSUME \/ packet_failed \/ f.abort \/ decoded_packet_abort
             \/ VerdictNow(f) /\ ~fcs_ok
      PROVE  ~packet_commit' /\ (packet_pending' => packet_failed')
  BY <1>1, <1>4, ControllerMoves DEF Edge, PacketInv
<1>5. ASSUME ~VerdictNow(f), ~fcs_seen PROVE ~packet_commit'
  BY <1>1, <1>5, ControllerMoves DEF Edge, PacketInv, Resolving
<1>6. fcs_seen => packet_failed
  BY DEF PacketInv, AbortedSoon
<1>7. CASE packet_failed \/ decoded_packet_abort \/ f.abort
  BY <1>4, <1>7 DEF WillFail
<1>8. CASE ~packet_failed /\ fcs_result_valid /\ ~fcs_ok
  BY <1>4, <1>6, <1>8 DEF WillFail, VerdictNow
<1>9. CASE ~packet_failed /\ ~f.abort /\ damaged /\ frame_pipe.end
  <2>1. ~VerdictNow(f)
    BY <1>9 DEF VerdictNow, SyncInv, VerdictAlone
  <2>2. ~residue_ok
    BY <1>2, <1>9 DEF Residues
  <2>3. fcs_result_valid' /\ ~fcs_ok'
    BY <1>3, <1>9, <2>2
  <2> QED BY <1>5, <1>6, <1>9, <2>1, <2>3 DEF WillFail
<1>10. CASE ~packet_failed /\ ~f.abort /\ damaged /\ state \in {"PAYLOAD", "DRAIN"}
  <2>1. ~fcs_result_valid
    BY <1>10 DEF LineInv, StrobeState, FirstHeaderBeat
  <2>2. ~VerdictNow(f)
    BY <1>10, <2>1 DEF VerdictNow
  <2>3. inside_frame
    BY <1>10 DEF LineInv, FrameState
  <2>4. ~Starting
    BY <1>1, <1>10, <2>3, WireStep
  <2>5. damaged'
    BY <1>10, <2>4, FrameMoves DEF SyncInv
  <2>6. state' \in {"PAYLOAD", "DRAIN"} \/ f.end
    BY <1>1, <1>10, ParserMoves DEF Edge
  <2> QED BY <1>3, <1>5, <1>6, <1>10, <2>2, <2>5, <2>6 DEF WillFail
<1> QED BY <1>7, <1>8, <1>9, <1>10 DEF WillFail

(* A clock edge uses up at most one beat of the header.                    *)
LEMMA CalmStep ==
  ASSUME LineInv, NEW f, NEW words, NEW m, NEW residue_ok, Edge(f, words, m, residue_ok),
         NEW hb \in {7, 15}, Calm(hb)
  PROVE  Calm(hb + 8)'
<1>1. state = "HEADER" => header_bytes_discarded \in Nat /\ header_bytes_discarded <= hb
  BY DEF Calm, LineInv, FrameState
<1>2. ~PacketStart'
  BY ParserMoves DEF Edge, Calm, PacketStart, BeforePayload
<1>3. ~(state = "HEADER" /\ header_bytes_discarded > 15)
  BY <1>1
<1>4. ~BeforePayload'
  BY <1>3, ParserMoves DEF Edge, Calm, BeforePayload
<1>5. state' = "HEADER" => \/ header_bytes_discarded' <= 7
                           \/ /\ state = "HEADER" /\ header_bytes_discarded' \in
                                   {header_bytes_discarded, header_bytes_discarded + 8}
  BY ParserMoves DEF Edge
<1>6. state' = "HEADER" => header_bytes_discarded' \in Nat
  BY ParserStep DEF Edge, ParserTypes
<1>7. state' = "HEADER" => header_bytes_discarded' <= hb + 8
  BY <1>1, <1>5, <1>6
<1> QED BY <1>2, <1>4, <1>7 DEF Calm

(* While the end of a frame is awaited, the frame is damaged or the line   *)
(* pauses.                                                                 *)
LEMMA TailStep ==
  ASSUME TheLine, PacketInv, SyncInv,
         NEW b, NEW words, NEW m, NEW residue_ok, NEW lookup,
         Cycle(b, words, m, residue_ok, lookup),
         state = "DRAIN", payload_started, ~Pcs!Beat(b).abort, ~Pcs!Beat(b).end
  PROVE  \/ damaged' /\ state' \in {"PAYLOAD", "DRAIN"}
         \/ Gap(b) /\ ~damaged' /\ state' = "DRAIN" /\ payload_started'
<1> DEFINE f == Pcs!Beat(b)
<1> USE DEF TheLine
<1>1. /\ Edge(f, words, m, residue_ok)
      /\ inside_frame /\ b.kind \in {"start_0", "start_4", "idle"} => f.abort
  BY CycleParts DEF Edge
<1>2. inside_frame
  BY DEF LineInv, FrameState
<1>3. ~Starting
  BY <1>1, <1>2, WireStep
<1>4. ~f.abort /\ ~f.end
  OBVIOUS
<1>5. ~damaged' => MidFrame(b, f, words, m, residue_ok)
  BY <1>3, MidFrameStep
<1> HIDE DEF f
<1>6. state' \in {"PAYLOAD", "DRAIN"}
  BY <1>1, <1>4, ParserMoves DEF Edge
<1>7. ASSUME ~damaged'
      PROVE  Gap(b) /\ state' = "DRAIN" /\ payload_started'
  <2>1. MidFrame(b, f, words, m, residue_ok)
    BY <1>5, <1>7
  <2>2. InWords /\ payload_words_remaining = 0
    BY <2>1 DEF MidFrame, SyncInv, InStep, InHeader, LineInv, FrameState
  <2>3. wire.position = LastPosition(wire)
    <3>1. 4 * wire.messages + 7 - wire.position = 0
      BY <2>2 DEF InWords
    <3>2. wire.position \in Nat /\ wire.messages \in Nat
      BY DEF WireTypes
    <3>3. wire.position <= LastPosition(wire)
      BY <2>1 DEF MidFrame
    <3>4. /\ LastPosition(wire) \in Nat
          /\ LastPosition(wire) <= 4 * wire.messages + 7
      BY <3>2 DEF LastPosition
    <3> QED BY <3>1, <3>2, <3>3, <3>4
  <2>4. b = Blk("none")
    BY <1>4, <2>1, <2>3 DEF MidFrame, ScriptedBlock
  <2>5. Gap(b)
    <3>1. ~IdleLine(b)
      BY <2>4 DEF IdleLine, Blk
    <3>2. ~StartFrame(b)
      BY <2>1 DEF MidFrame, StartFrame, WireTypes
    <3>3. ~SendBlock(b)
      BY <2>4 DEF SendBlock, ScriptedBlock, DamagedBlocks, Blk, Term
    <3> QED BY <3>1, <3>2, <3>3 DEF Cycle
  <2>6. ~f.valid
    BY <2>1, <2>4 DEF MidFrame
  <2>7. Udp!Wait(f)
    BY <1>1, <1>4, <2>6 DEF Edge, Udp!Clock, Udp!Abort, Udp!Wait, Udp!StartFrame,
       Udp!RejectHeader, Udp!SkipHeader, Udp!RejectPayload, Udp!NextWord, Udp!LastWord,
       Udp!CheckTail, Udp!Drain
  <2> QED BY <2>5, <2>7 DEF Udp!Wait
<1> QED BY <1>6, <1>7

(* The end of a frame under way is here at the latest one gap after it was due. *)
LEMMA EndArrives ==
  ASSUME TheLine, PacketInv, SyncInv,
         NEW b, NEW words, NEW m, NEW residue_ok, NEW lookup,
         Cycle(b, words, m, residue_ok, lookup),
         packet_pending, packet_pending', state = "DRAIN", payload_started
  PROVE  \/ WillFail' \/ frame_pipe'.end \/ EndWaits'
<1> DEFINE f == Pcs!Beat(b)
<1> USE DEF TheLine
<1>1. Edge(f, words, m, residue_ok)
  BY CycleParts DEF Edge
<1>2. ~f.abort /\ ~f.end =>
         \/ damaged' /\ state' \in {"PAYLOAD", "DRAIN"}
         \/ Gap(b) /\ ~damaged' /\ state' = "DRAIN" /\ payload_started'
  BY TailStep
<1> HIDE DEF f
<1>3. frame_pipe'.end <=> f.end
  BY <1>1 DEF Edge, Fcs!Clock, BeatFits
<1>4. f.abort => packet_failed'
  BY <1>1, ControllerMoves DEF Edge, PacketInv
<1>5. Gap(b) => gaps' >= 1
  BY DEF Gap, WireTypes
<1> QED BY <1>2, <1>3, <1>4, <1>5 DEF WillFail, EndWaits

(* One pause is the longest, so that the end of the frame comes then.      *)
LEMMA WaitEnds ==
  ASSUME MaxGaps <= 1, TheLine, PacketInv, SyncInv,
         NEW b, NEW words, NEW m, NEW residue_ok, NEW lookup,
         Cycle(b, words, m, residue_ok, lookup),
         packet_pending, packet_pending', EndWaits
  PROVE  WillFail' \/ frame_pipe'.end
<1> DEFINE f == Pcs!Beat(b)
<1> USE DEF TheLine
<1>1. Edge(f, words, m, residue_ok)
  BY CycleParts DEF Edge
<1>2. ~f.abort /\ ~f.end => (damaged' /\ state' \in {"PAYLOAD", "DRAIN"}) \/ Gap(b)
  BY TailStep DEF EndWaits
<1> HIDE DEF f
<1>3. frame_pipe'.end <=> f.end
  BY <1>1 DEF Edge, Fcs!Clock, BeatFits
<1>4. f.abort => packet_failed'
  BY <1>1, ControllerMoves DEF Edge, PacketInv
<1>5. ~Gap(b)
  BY ConstantsAssumption DEF Gap, EndWaits, WireTypes
<1> QED BY <1>2, <1>3, <1>4, <1>5 DEF WillFail

(* The last message of a packet is decoded not earlier than one pause      *)
(* before the end of its frame.                                            *)
LEMMA VerdictDue ==
  ASSUME TheLine, PacketInv, SyncInv,
         NEW b, NEW words, NEW m, NEW residue_ok, NEW lookup,
         Cycle(b, words, m, residue_ok, lookup),
         decoded_valid', decoded_packet_end', packet_pending'
  PROVE  WillFail' \/ fcs_result_valid' \/ frame_pipe'.end \/ EndWaits'
<1> DEFINE f == Pcs!Beat(b)
<1> USE DEF TheLine
<1>1. Edge(f, words, m, residue_ok)
  BY CycleParts DEF Edge
<1> HIDE DEF f
<1>2. udp_payload_valid /\ udp_payload_end /\ payload_words_remaining = 0
  BY <1>1, DecoderStep DEF Edge, LineInv, StrobeState
<1>3. CASE ~payload_started
  <2>1. frame_pipe.end /\ frame_pipe.valid
    BY <1>2, <1>3 DEF LineInv, StrobeState
  <2> QED BY <1>1, <2>1 DEF Edge, Fcs!Clock
<1>4. CASE payload_started
  <2>1. state = "DRAIN"
    BY <1>2, <1>4 DEF LineInv, ParserTypes, FrameState
  <2>2. ~PacketStart
    BY <1>2 DEF LineInv, StrobeState, PacketStart
  <2>3. packet_pending
    BY <1>1, <2>2, ControllerMoves DEF Edge, PacketInv
  <2> QED BY <1>4, <2>1, <2>3, EndArrives
<1> QED BY <1>3, <1>4

(* A commit sees the good verdict at the same clock edge.                  *)
LEMMA CommitSeesVerdict ==
  ASSUME TheLine, PacketInv,
         NEW f, NEW words, NEW m, NEW residue_ok, Edge(f, words, m, residue_ok),
         packet_commit'
  PROVE  packet_pending /\ VerdictNow(f) /\ Passing(f) /\ fcs_seen' /\ fcs_passed'
<1> USE DEF TheLine
<1>1. /\ Resolving(f) /\ ~packet_failed /\ ~f.abort /\ ~(VerdictNow(f) /\ ~fcs_ok)
  BY ControllerMoves DEF Edge, PacketInv
<1>2. packet_pending /\ VerdictNow(f) /\ Passing(f)
  BY <1>1 DEF Resolving, PacketInv, AbortedSoon, VerdictNow, Passing
<1> QED BY <1>2, VerdictRegisters DEF Edge, PacketInv

(* A packet of which a decision is awaited, one cycle on.                  *)
LEMMA PendingAnswer ==
  ASSUME TheLine, PacketInv, SyncInv, TheGuard,
         NEW b, NEW words, NEW m, NEW residue_ok, NEW lookup,
         Cycle(b, words, m, residue_ok, lookup),
         packet_pending, Decoded, outcome = "none", ~PacketStart,
         packet_pending' => WillFail' \/ fcs_result_valid' \/ frame_pipe'.end
  PROVE  AnswerStage(fcs_result_valid \/ frame_pipe.end)'
<1> DEFINE f == Pcs!Beat(b)
<1> USE DEF TheLine
<1>1. Edge(f, words, m, residue_ok) /\ RecordHistory(f, residue_ok)
  BY CycleParts DEF Edge, Cycle, Components
<1> HIDE DEF f
<1>2. ~Pulse
  BY DEF TheGuard, Guard!VerdictMatchesPacket, Pulse
<1>3. outcome' = "none"
  BY <1>1, <1>2 DEF RecordHistory, Pulse
<1>4. packet_pending' => decode_done'
  BY <1>1, ControllerMoves DEF Edge, PacketInv
<1>5. packet_commit' => fcs_seen' /\ fcs_passed'
  BY <1>1, CommitSeesVerdict
<1> QED BY <1>3, <1>4, <1>5 DEF AnswerStage

(* A resolved packet keeps its verdict until the next one is opened.       *)
LEMMA DoneStays ==
  ASSUME TheLine, PacketInv, TheGuard,
         NEW f, NEW words, NEW m, NEW residue_ok, Edge(f, words, m, residue_ok),
         RecordHistory(f, residue_ok), ~PacketStart, ~packet_pending
  PROVE  /\ ~packet_pending' /\ ~packet_commit'
         /\ fcs_seen /\ fcs_passed => fcs_seen' /\ fcs_passed'
         /\ ~packet_commit /\ outcome # "commit" => outcome' # "commit"
<1> USE DEF TheLine
<1>1. ~packet_pending' /\ ~packet_commit'
  BY ControllerMoves DEF Edge, PacketInv, Resolving
<1>2. fcs_seen /\ fcs_passed => fcs_seen' /\ fcs_passed'
  BY VerdictRegisters DEF Edge, PacketInv
<1>3. ~packet_commit /\ outcome # "commit" => outcome' # "commit"
  BY DEF RecordHistory
<1> QED BY <1>1, <1>2, <1>3

(* The decision of an order decoded in this cycle.                         *)
LEMMA AnswerAwaited ==
  ASSUME MaxGaps <= 1, TheLine, PacketInv, SyncInv, TheGuard, IntentAtEnd, StompInv,
         NEW b, NEW words, NEW m, NEW residue_ok, NEW lookup,
         Cycle(b, words, m, residue_ok, lookup), Decoder!IsOrderIntent
  PROVE  Calm(15)' /\ AnswerStage(fcs_result_valid \/ frame_pipe.end)'
<1> DEFINE f == Pcs!Beat(b)
<1> USE DEF TheLine
<1>1. Edge(f, words, m, residue_ok) /\ RecordHistory(f, residue_ok)
  BY CycleParts DEF Edge, Cycle, Components
<1> HIDE DEF f
<1>2. decoded_valid /\ (decoded_packet_abort \/ decoded_packet_end)
  BY DEF IntentAtEnd, Decoder!IsOrderIntent
<1>3. Calm(7)
  <2>1. ~PacketStart /\ ~BeforePayload
    BY <1>2 DEF PacketInv, FreshLog, PacketStart
  <2>2. state = "HEADER" => header_bytes_discarded <= 7
    BY <1>2 DEF LineInv, WordState, LaterHeaderBeat, FrameState
  <2> QED BY <2>1, <2>2 DEF Calm
<1>4. Calm(15)'
  <2>1. Calm(7 + 8)'
    BY <1>1, <1>3, CalmStep
  <2> QED BY <2>1
<1>5. ~PacketStart /\ Decoded
  BY <1>2, <1>3 DEF Calm, Decoded
<1>6. CASE packet_pending
  <2>1. outcome = "none"
    BY <1>6 DEF StompInv
  <2>2. ASSUME packet_pending' PROVE WillFail' \/ fcs_result_valid' \/ frame_pipe'.end
    <3>1. CASE WillFail
      BY <1>6, <2>2, <3>1, DoomStays
    <3>2. CASE fcs_result_valid /\ ~WillFail
      <4>1. Resolving(f)
        BY <1>5, <1>6, <3>2 DEF Resolving, VerdictNow
      <4> QED BY <1>1, <2>2, <4>1, ControllerMoves DEF Edge, PacketInv, Resolving
    <3>3. CASE frame_pipe.end
      BY <1>1, <3>3 DEF Edge, Fcs!Clock, LineInv, StrobeState
    <3>4. CASE EndWaits
      BY <1>6, <2>2, <3>4, WaitEnds
    <3>5. WillFail \/ fcs_result_valid \/ frame_pipe.end \/ EndWaits
      BY <1>2, <1>6 DEF StompInv, WillFail
    <3> QED BY <3>1, <3>2, <3>3, <3>4, <3>5
  <2> QED BY <1>4, <1>5, <1>6, <2>1, <2>2, PendingAnswer
<1>7. CASE ~packet_pending
  <2>1. packet_discard /\ ~packet_commit
    BY <1>2, <1>7 DEF PacketInv, Opened, TheGuard, Guard!VerdictMatchesPacket
  <2>2. outcome' = "discard"
    BY <1>1, <1>5, <2>1 DEF RecordHistory
  <2> QED BY <1>1, <1>4, <1>5, <1>7, <2>2, DoneStays DEF AnswerStage
<1> QED BY <1>6, <1>7

(* The decision of an order looked up in this cycle.                       *)
LEMMA AnswerKept ==
  ASSUME TheLine, PacketInv, SyncInv, TheGuard, StompInv,
         NEW b, NEW words, NEW m, NEW residue_ok, NEW lookup,
         Cycle(b, words, m, residue_ok, lookup), lookup_valid
  PROVE  Calm(23)' /\ AnswerStage(fcs_result_valid)'
<1> DEFINE f == Pcs!Beat(b)
<1> USE DEF TheLine
<1>1. Edge(f, words, m, residue_ok) /\ RecordHistory(f, residue_ok)
  BY CycleParts DEF Edge, Cycle, Components
<1> HIDE DEF f
<1>2. Calm(15) /\ AnswerStage(fcs_result_valid \/ frame_pipe.end)
  BY DEF StompInv
<1>3. Calm(23)'
  <2>1. Calm(15 + 8)'
    BY <1>1, <1>2, CalmStep
  <2> QED BY <2>1
<1>4. ~PacketStart
  BY <1>2 DEF Calm
<1>5. CASE packet_pending
  <2>1. /\ Decoded /\ outcome = "none"
        /\ WillFail \/ fcs_result_valid \/ frame_pipe.end
    BY <1>2, <1>5 DEF AnswerStage, StompInv, Decoded
  <2>2. ~Pulse
    BY <1>5 DEF TheGuard, Guard!VerdictMatchesPacket, Pulse
  <2>3. outcome' = "none"
    BY <1>1, <1>4, <2>1, <2>2 DEF RecordHistory, Pulse
  <2>4. packet_pending' => decode_done'
    BY <1>1, <1>5, <2>1, ControllerMoves DEF Edge, PacketInv
  <2>5. packet_commit' => fcs_seen' /\ fcs_passed'
    BY <1>1, CommitSeesVerdict
  <2>6. packet_pending' => WillFail' \/ fcs_result_valid'
    <3>1. CASE WillFail
      BY <1>5, <3>1, DoomStays
    <3>2. CASE fcs_result_valid
      <4>1. Resolving(f)
        BY <1>5, <2>1, <3>2 DEF Resolving, VerdictNow
      <4> QED BY <1>1, <4>1, ControllerMoves DEF Edge, PacketInv, Resolving
    <3>3. CASE frame_pipe.end
      BY <1>1, <3>3 DEF Edge, Fcs!Clock, LineInv, StrobeState
    <3> QED BY <2>1, <3>1, <3>2, <3>3
  <2> QED BY <1>3, <2>3, <2>4, <2>5, <2>6 DEF AnswerStage
<1>6. CASE ~packet_pending
  <2>1. (fcs_seen /\ fcs_passed) \/ (~packet_commit /\ outcome # "commit")
    BY <1>2, <1>6 DEF AnswerStage
  <2> QED BY <1>1, <1>3, <1>4, <1>6, <2>1, DoneStays DEF AnswerStage
<1> QED BY <1>5, <1>6

(* The answer written in this cycle.                                       *)
LEMMA StompedIsDoomed ==
  ASSUME TheLine, PacketInv, SyncInv, TheGuard, StompInv,
         NEW b, NEW words, NEW m, NEW residue_ok, NEW lookup,
         Cycle(b, words, m, residue_ok, lookup), decision_valid,
         ~Guard!Controller!IntegrityOk(ControllerInputs(Pcs!Beat(b)))
  PROVE  Doomed'
<1> DEFINE f == Pcs!Beat(b)
<1> USE DEF TheLine
<1>1. Edge(f, words, m, residue_ok) /\ RecordHistory(f, residue_ok)
  BY CycleParts DEF Edge, Cycle, Components
<1>2. ~Guard!Controller!IntegrityOk(ControllerInputs(f))
  OBVIOUS
<1> HIDE DEF f
<1>3. ~(fcs_seen /\ fcs_passed) /\ ~(packet_pending /\ VerdictNow(f) /\ Passing(f))
  BY <1>1, <1>2, VerdictRegisters DEF Edge, PacketInv
<1>4. Calm(23) /\ AnswerStage(fcs_result_valid)
  BY DEF StompInv
<1>5. ~PacketStart
  BY <1>4 DEF Calm
<1>6. CASE packet_pending
  <2>1. WillFail \/ fcs_result_valid
    BY <1>4, <1>6 DEF AnswerStage
  <2>2. ~Pulse /\ outcome = "none"
    BY <1>6 DEF TheGuard, Guard!VerdictMatchesPacket, Pulse, StompInv
  <2>3. outcome' # "commit"
    BY <1>1, <2>2 DEF RecordHistory, Pulse
  <2>4. ~packet_commit'
    BY <1>1, <1>3, CommitSeesVerdict
  <2>5. packet_pending' => WillFail'
    <3>1. CASE WillFail
      BY <1>6, <3>1, DoomStays
    <3>2. CASE ~WillFail
      <4>1. VerdictNow(f) /\ fcs_ok /\ fcs_result_valid
        BY <1>6, <2>1, <3>2 DEF WillFail, VerdictNow, PacketInv, AbortedSoon
      <4>2. f.abort
        BY <1>3, <1>6, <4>1 DEF Passing
      <4> QED BY <1>1, <1>6, <4>2, ControllerMoves DEF Edge, PacketInv, WillFail
    <3> QED BY <3>1, <3>2
  <2> QED BY <2>3, <2>4, <2>5 DEF Doomed
<1>7. CASE ~packet_pending
  <2>1. ~packet_commit /\ outcome # "commit"
    BY <1>3, <1>4, <1>7 DEF AnswerStage
  <2> QED BY <1>1, <1>5, <1>7, <2>1, DoneStays DEF Doomed
<1> QED BY <1>6, <1>7

(* A packet that has not been and will not be committed stays so.          *)
LEMMA DoomedStays ==
  ASSUME TheLine, PacketInv, SyncInv, TheGuard,
         NEW b, NEW words, NEW m, NEW residue_ok, NEW lookup,
         Cycle(b, words, m, residue_ok, lookup), ~PacketStart, Doomed
  PROVE  Doomed'
<1> DEFINE f == Pcs!Beat(b)
<1> USE DEF TheLine
<1>1. Edge(f, words, m, residue_ok) /\ RecordHistory(f, residue_ok)
  BY CycleParts DEF Edge, Cycle, Components
<1> HIDE DEF f
<1>2. outcome' # "commit"
  BY <1>1 DEF RecordHistory, Doomed
<1>3. CASE packet_pending
  BY <1>2, <1>3, DoomStays DEF Doomed
<1>4. CASE ~packet_pending
  BY <1>1, <1>2, <1>4, DoneStays DEF Doomed
<1> QED BY <1>3, <1>4

(* StompInv is inductive when at most one cycle without a block comes in a *)
(* row.                                                                    *)
LEMMA StompStep ==
  ASSUME MaxGaps <= 1, TheLine, PacketInv, SyncInv, TheGuard, IntentAtEnd, StompInv,
         NEW b, NEW words, NEW m, NEW residue_ok, NEW lookup,
         Cycle(b, words, m, residue_ok, lookup)
  PROVE  StompInv'
<1> DEFINE f == Pcs!Beat(b)
<1> USE DEF TheLine
<1>1. Edge(f, words, m, residue_ok) /\ RecordHistory(f, residue_ok)
  BY CycleParts DEF Edge, Cycle, Components
<1>2. lookup_valid' = Decoder!IsOrderIntent /\ decision_valid' = lookup_valid
  BY DEF Cycle, Components, Risk!Clock, Risk!Decide
<1>3. Guard!Controller!IntegrityOk(ControllerInputs(f)) \in BOOLEAN
  BY DEF Guard!Controller!IntegrityOk, Guard!Controller!FcsEvent, Guard!Controller!FcsEventPassed
<1>4. ~Guard!Controller!IntegrityOk(ControllerInputs(f)) /\ decision_valid => Doomed'
  BY StompedIsDoomed
<1> HIDE DEF f
<1>5. packet_pending' => outcome' = "none"
  <2>1. packet_pending' => packet_pending \/ PacketStart
    BY <1>1, ControllerMoves DEF Edge, PacketInv
  <2>2. packet_pending => outcome = "none" /\ ~packet_commit /\ ~packet_discard
    BY DEF StompInv, TheGuard, Guard!VerdictMatchesPacket
  <2> QED BY <1>1, <2>1, <2>2 DEF RecordHistory
<1>6. decoded_valid' /\ decoded_packet_end' /\ packet_pending' =>
        WillFail' \/ fcs_result_valid' \/ frame_pipe'.end \/ EndWaits'
  BY VerdictDue
<1>7. lookup_valid' => Calm(15)' /\ AnswerStage(fcs_result_valid \/ frame_pipe.end)'
  BY <1>2, AnswerAwaited
<1>8. decision_valid' => Calm(23)' /\ AnswerStage(fcs_result_valid)'
  BY <1>2, AnswerKept
<1>9. ASSUME answer' # << >>, ~answer'.source_frame_ok PROVE Doomed'
  <2>1. CASE decision_valid
    <3>1. answer'.source_frame_ok = Guard!Controller!IntegrityOk(ControllerInputs(f))
      BY <1>1, <2>1 DEF RecordHistory
    <3> QED BY <1>3, <1>4, <1>9, <2>1, <3>1
  <2>2. CASE ~decision_valid
    <3>1. ~PacketStart /\ answer' = answer
      BY <1>1, <1>9, <2>2 DEF RecordHistory
    <3>2. Doomed
      BY <1>9, <3>1 DEF StompInv
    <3> QED BY <3>1, <3>2, DoomedStays
  <2> QED BY <2>1, <2>2
<1> QED BY <1>5, <1>6, <1>7, <1>8, <1>9 DEF StompInv

(* It holds initially.                                                     *)
LEMMA StompInit == Init => StompInv
<1> SUFFICES ASSUME Init PROVE StompInv
  OBVIOUS
<1>1. /\ ~packet_pending /\ ~decoded_valid /\ ~lookup_valid /\ ~decision_valid
      /\ answer = << >>
  BY DEF Init, Guard!Init, Guard!Controller!Init, Decoder!Init, Risk!Init
<1> QED BY <1>1 DEF StompInv

(* A stuttering step keeps it.                                             *)
LEMMA StompStutter == StompInv /\ UNCHANGED vars => StompInv'
<1> SUFFICES ASSUME StompInv, UNCHANGED vars PROVE StompInv'
  OBVIOUS
<1>1. /\ UNCHANGED << Udp!vars, Decoder!vars, Fcs!vars >>
      /\ UNCHANGED << Guard!vars, Risk!vars, lookup_valid, wire_vars, history >>
  BY DEF vars
<1>2. /\ UNCHANGED << state, header_bytes_discarded, payload_started, udp_payload_start,
                      udp_payload_valid, decoded_valid, decoded_packet_end,
                      decoded_packet_abort, frame_pipe, fcs_result_valid, fcs_ok >>
      /\ UNCHANGED << packet_pending, decode_done, fcs_seen, fcs_passed, packet_failed,
                      packet_commit >>
      /\ UNCHANGED << decision_valid, lookup_valid, damaged, gaps, outcome, answer >>
  BY <1>1 DEF Udp!vars, Decoder!vars, Fcs!vars, Guard!vars, Guard!Controller!vars,
     Risk!vars, wire_vars, history
<1>3. (WillFail' <=> WillFail) /\ (EndWaits' <=> EndWaits)
  BY <1>2 DEF WillFail, EndWaits
<1> QED BY <1>2, <1>3 DEF StompInv, Calm, AnswerStage, Doomed, PacketStart, BeforePayload

(***************************************************************************)
(* The response of a packet that commits is never stomped, as long as the  *)
(* gearbox leaves out at most one block in a row: the integrity verdict is *)
(* there when the decision is written (xem8320_top.sv). With two pauses in *)
(* a row it is false.                                                      *)
(***************************************************************************)
THEOREM NeverStomped ==
  ASSUME MaxGaps <= 1
  PROVE  Spec => []CommittedOrderIsNotStomped
<1>1. TheLine /\ PacketInv /\ SyncInv /\ TheGuard /\ OrdersInv /\ StompInv /\ Next => StompInv'
  <2> SUFFICES ASSUME TheLine, PacketInv, SyncInv, TheGuard, OrdersInv, StompInv, Next
               PROVE  StompInv'
    OBVIOUS
  <2>1. PICK b, words, m, residue_ok, lookup : Cycle(b, words, m, residue_ok, lookup)
    BY NextIsCycle
  <2> QED BY <2>1, StompStep DEF OrdersInv
<1>2. Spec => []TheGuard
  BY GuardHolds, PTL DEF TheGuard
<1>3. StompInv => CommittedOrderIsNotStomped
  BY DEF StompInv, Doomed, CommittedOrderIsNotStomped
<1> QED
  BY <1>1, <1>2, <1>3, StompInit, StompStutter, LineCorrect, PacketCorrect, SyncCorrect,
     OrdersCorrect, PTL DEF Spec

-----------------------------------------------------------------------------
(* An undisturbed line.                                                    *)

(* Preamble bytes the CRC still skips after the beat in the pipe.          *)
SkipNow == IF frame_pipe.valid THEN Fcs!SkipAfterWord ELSE skip_remaining

(* All preamble bytes are skipped before the payload, so that the end of a *)
(* frame finds none left.                                                  *)
SkipInv ==
  /\ skip_remaining \in Nat /\ frame_pipe.keep \in Nat /\ frame_pipe.start \in BOOLEAN
  /\ state = "HEADER" => SkipNow <= 4
  /\ ~damaged /\ (state = "PAYLOAD" \/ (state = "DRAIN" /\ payload_started)) => SkipNow = 0
  /\ ~damaged /\ frame_pipe.end => SkipNow = 0

(* Nothing has gone wrong.                                                 *)
NoFaultYet ==
  /\ ~damaged /\ ~stream_fault /\ ~packet_discard /\ ~integrity_failure
  /\ ~decoded_packet_abort /\ ~udp_packet_abort
  /\ packet_pending => ~packet_failed

(* No frame is cut short: the parser takes every frame to its end, and at  *)
(* most its last word is still on its way then.                            *)
FramesFollow ==
  /\ wire.position > 0 => state # "IDLE" /\ ~wire.idle_seen
  /\ wire.position = 0 =>
       /\ sender_next = arriving_next + One(udp_payload_valid)
       /\ udp_payload_valid => word_index = 3 /\ wire.start = "start_0" /\ ~wire.idle_seen

(* The tracker counts what arrives.                                        *)
NumbersFollow ==
  /\ decoded_valid => decoded.sequence_number + 1 = arriving_next
  /\ current_packet_next_sequence_number + One(decoded_valid) = arriving_next

(* Every frame is resolved as good, and counted then.                      *)
VerdictsFollow ==
  /\ frame_pipe.end => packet_pending
  /\ fcs_result_valid => packet_pending /\ fcs_ok
  /\ ~fcs_result_valid /\ ~packet_commit =>
       verified_next_sequence_number = last_frame.next

(* The invariant of an undisturbed line.                                   *)
CleanInv ==
  /\ SkipInv
  /\ line_clean => NoFaultYet /\ FramesFollow /\ NumbersFollow /\ VerdictsFollow

(* The bytes of a beat, and those of a START beat.                         *)
LEMMA BeatKeep ==
  ASSUME NEW b \in Pcs!Block, inside_frame \in BOOLEAN
  PROVE  LET f == Pcs!Beat(b)
         IN  /\ f.keep \in Nat /\ f.start \in BOOLEAN /\ f.valid \in BOOLEAN
             /\ f.start => f.valid /\ f.keep \in {3, 7} /\ ~inside_frame
<1> DEFINE f == Pcs!Beat(b)
<1>1. b.kind \in Pcs!Kinds /\ b.bytes \in Nat
  BY DEF Pcs!Block, Pcs!Kinds
<1>2. Pcs!Keep(b) \in Nat /\ (b.kind \in {"start_0", "start_4"} => Pcs!Keep(b) \in {3, 7})
  BY <1>1 DEF Pcs!Keep
<1>3. /\ f.valid = (Pcs!FrameStart(b) \/ Pcs!FrameEnd(b) \/ (inside_frame /\ b.kind = "data"))
      /\ f.start = Pcs!FrameStart(b)
      /\ f.keep = IF f.valid THEN Pcs!Keep(b) ELSE 0
  BY DEF Pcs!Beat
<1>4. Pcs!FrameStart(b) <=> ~inside_frame /\ b.kind \in {"start_0", "start_4"}
  BY DEF Pcs!FrameStart
<1>5. Pcs!FrameStart(b) \in BOOLEAN /\ Pcs!FrameEnd(b) \in BOOLEAN
  BY DEF Pcs!FrameStart, Pcs!FrameEnd
<1> HIDE DEF f
<1>6. f.start => f.valid /\ f.keep \in {3, 7} /\ ~inside_frame
  BY <1>2, <1>3, <1>4, <1>5
<1>7. f.keep \in Nat /\ f.start \in BOOLEAN /\ f.valid \in BOOLEAN
  BY <1>2, <1>3, <1>5
<1> QED BY <1>6, <1>7 DEF f

(* What one beat leaves of the seven preamble bytes the CRC skips.         *)
LEMMA SkipMoves ==
  ASSUME LineInv, SkipInv, NEW f, NEW residue_ok, Fcs!Clock(f, residue_ok),
         f.keep \in Nat, f.valid \in BOOLEAN, f.start \in BOOLEAN,
         f.start => f.valid /\ f.keep \in {3, 7}
  PROVE  /\ SkipNow \in Nat
         /\ skip_remaining' \in Nat /\ frame_pipe'.keep \in Nat /\ frame_pipe'.start \in BOOLEAN
         /\ ~f.valid => SkipNow' = SkipNow
         /\ f.start => SkipNow' <= 4
         /\ f.valid /\ ~f.start =>
              SkipNow' = IF f.keep >= SkipNow THEN 0 ELSE SkipNow - f.keep
<1> DEFINE before == IF frame_pipe.start THEN 7 ELSE skip_remaining
           now    == SkipNow
<1>1. /\ frame_pipe'.valid = f.valid /\ frame_pipe'.start = f.start
      /\ frame_pipe'.keep = f.keep
      /\ skip_remaining' = now
  BY DEF Fcs!Clock, SkipNow
<1>2. now = IF frame_pipe.valid
              THEN IF frame_pipe.keep >= before THEN 0 ELSE before - frame_pipe.keep
              ELSE skip_remaining
  BY DEF SkipNow, Fcs!SkipAfterWord, Fcs!SkipBefore
<1>3. before \in Nat /\ skip_remaining \in Nat /\ frame_pipe.keep \in Nat
      /\ frame_pipe.valid \in BOOLEAN
  BY DEF SkipInv, LineInv, StageTypes
<1> HIDE DEF before, now
<1>4. now \in Nat
  BY <1>2, <1>3
<1>5. SkipNow' = IF f.valid
                   THEN LET first == IF f.start THEN 7 ELSE now
                        IN  IF f.keep >= first THEN 0 ELSE first - f.keep
                   ELSE now
  BY <1>1 DEF SkipNow, Fcs!SkipAfterWord, Fcs!SkipBefore
<1>6. /\ ~f.valid => SkipNow' = now
      /\ f.valid /\ ~f.start => SkipNow' = IF f.keep >= now THEN 0 ELSE now - f.keep
  BY <1>5
<1>7. f.start => SkipNow' <= 4
  <2>1. f.start => SkipNow' = IF f.keep >= 7 THEN 0 ELSE 7 - f.keep
    BY <1>5
  <2> QED BY <2>1
<1>8. SkipNow = now
  BY DEF now
<1> QED BY <1>1, <1>4, <1>6, <1>7, <1>8

(* SkipInv is inductive.                                                   *)
LEMMA SkipStep ==
  ASSUME TheLine, PacketInv, PacketInv', SyncInv, SkipInv,
         NEW b, NEW words, NEW m, NEW residue_ok, NEW lookup,
         Cycle(b, words, m, residue_ok, lookup)
  PROVE  SkipInv'
<1> DEFINE f == Pcs!Beat(b)
<1> USE DEF TheLine
<1>1. Edge(f, words, m, residue_ok) /\ BeatFits(f)
  BY CycleParts DEF Edge
<1>2. /\ f.keep \in Nat /\ f.start \in BOOLEAN /\ f.valid \in BOOLEAN
      /\ f.start => f.valid /\ f.keep \in {3, 7} /\ ~inside_frame
  BY BeatKeep DEF Cycle, LineInv, ParserTypes
<1>3. ~damaged' /\ ~Starting /\ state # "IDLE" =>
        MidFrame(b, f, words, m, residue_ok) /\ (InHeader \/ InWords)
  BY MidFrameStep DEF MidFrame, SyncInv, InStep
<1>4. Starting /\ ~damaged' => ~f.end /\ (state' # "IDLE" => InHeader')
  BY StartInStep
<1> HIDE DEF f
<1>5. /\ SkipNow \in Nat
      /\ skip_remaining' \in Nat /\ frame_pipe'.keep \in Nat /\ frame_pipe'.start \in BOOLEAN
      /\ ~f.valid => SkipNow' = SkipNow
      /\ f.start => SkipNow' <= 4
      /\ f.valid /\ ~f.start =>
           SkipNow' = IF f.keep >= SkipNow THEN 0 ELSE SkipNow - f.keep
  BY <1>1, <1>2, SkipMoves DEF Edge
<1>6. frame_pipe'.end <=> f.end
  BY <1>1 DEF Edge, Fcs!Clock, BeatFits
<1>7. SkipNow = 0 /\ ~f.start => SkipNow' = 0
  BY <1>2, <1>5
<1>8. state = "HEADER" /\ f.valid /\ f.keep = 8 => SkipNow' = 0
  BY <1>1, <1>2, <1>5 DEF SkipInv, LineInv, FrameState
<1>9. ASSUME state' = "HEADER" PROVE SkipNow' <= 4
  <2>1. CASE state = "HEADER"
    <3>1. ~f.start
      BY <1>1, <2>1 DEF BeatFits, LineInv, FrameState
    <3>2. ~f.valid \/ f.keep = 8
      BY <1>1, <1>9, <2>1 DEF Edge, Udp!Clock, Udp!Abort, Udp!Wait, Udp!StartFrame,
       Udp!RejectHeader, Udp!SkipHeader, Udp!RejectPayload, Udp!NextWord, Udp!LastWord,
       Udp!CheckTail, Udp!Drain, Udp!FullBeat
    <3>3. SkipNow <= 4
      BY <2>1 DEF SkipInv
    <3> QED BY <1>2, <1>5, <1>8, <2>1, <3>2, <3>3
  <2>2. CASE state # "HEADER"
    <3>1. f.start
      BY <1>1, <1>9, <2>2 DEF Edge, Udp!Clock, Udp!Abort, Udp!Wait, Udp!StartFrame,
       Udp!RejectHeader, Udp!SkipHeader, Udp!RejectPayload, Udp!NextWord, Udp!LastWord,
       Udp!CheckTail, Udp!Drain
    <3> QED BY <1>5, <3>1
  <2> QED BY <2>1, <2>2
<1>10. ASSUME ~damaged', state # "IDLE", ~Starting, InWords PROVE SkipNow' = 0
  <2>1. ~f.start /\ ~damaged
    BY <1>3, <1>10 DEF MidFrame
  <2>2. SkipNow = 0
    BY <1>10, <2>1 DEF SkipInv, InWords
  <2> QED BY <1>7, <2>1, <2>2
<1>11. ASSUME ~damaged', InWords', state' # "IDLE" PROVE SkipNow' = 0
  <2>1. ~Starting
    BY <1>4, <1>11 DEF InHeader, InWords
  <2>2. state # "IDLE"
    BY <1>11, <2>1, LeavesIdle
  <2>3. MidFrame(b, f, words, m, residue_ok) /\ (InHeader \/ InWords)
    BY <1>3, <1>11, <2>1, <2>2
  <2>4. CASE InWords
    BY <1>10, <1>11, <2>1, <2>2, <2>4
  <2>5. CASE InHeader
    <3>1. state = "HEADER" /\ state' # "HEADER" /\ ~f.abort
      BY <1>11, <2>3, <2>5 DEF InHeader, InWords, MidFrame
    <3>2. f.valid
      BY <1>1, <3>1 DEF Edge, Udp!Clock, Udp!Abort, Udp!Wait, Udp!StartFrame,
       Udp!RejectHeader, Udp!SkipHeader, Udp!RejectPayload, Udp!NextWord, Udp!LastWord,
       Udp!CheckTail, Udp!Drain
    <3>3. f.keep = 8
      <4>1. b # Blk("none")
        BY <2>3, <3>2 DEF MidFrame
      <4>2. ~f.end
        BY <2>3, <2>5, HeaderInStep
      <4> QED BY <2>3, <4>1, <4>2 DEF MidFrame, ScriptedBlock
    <3> QED BY <1>8, <3>1, <3>2, <3>3
  <2> QED BY <2>3, <2>4, <2>5
<1>12. ASSUME ~damaged', f.end PROVE SkipNow' = 0
  <2>1. ~Starting
    BY <1>4, <1>12
  <2>2. state # "IDLE"
    BY <1>1, <1>12 DEF BeatFits, LineInv, FrameState
  <2>3. MidFrame(b, f, words, m, residue_ok) /\ (InHeader \/ InWords)
    BY <1>3, <1>12, <2>1, <2>2
  <2>4. InWords
    BY <1>12, <2>3, HeaderInStep
  <2> QED BY <1>10, <1>12, <2>1, <2>2, <2>4
<1>13. InStep'
  BY InStepFlow
<1>14. ~damaged' /\ (state' = "PAYLOAD" \/ (state' = "DRAIN" /\ payload_started')) => SkipNow' = 0
  BY <1>11, <1>13 DEF InStep, InHeader
<1> QED BY <1>5, <1>6, <1>9, <1>12, <1>14 DEF SkipInv

(* A cycle of an undisturbed line.                                         *)
CleanCycle(b, f, words, m, residue_ok) ==
  /\ Edge(f, words, m, residue_ok) /\ RecordHistory(f, residue_ok)
  /\ ~damaged' /\ ~f.abort
  /\ frame_pipe.end => residue_ok
  /\ AssemblerStrobes.valid => m \in SentMessages
  /\ Starting => ~udp_payload_valid /\ ~f.end
  /\ state # "IDLE" => ~Starting /\ MidFrame(b, f, words, m, residue_ok)
                                 /\ (InHeader \/ InWords)
  /\ f.end => state # "IDLE" /\ InWords

(* A frame starts when the last message of the one before has left the     *)
(* parser.                                                                 *)
LEMMA StartWaits ==
  ASSUME TheLine, FramesFollow, NEW b, NEW words, NEW m, NEW residue_ok, NEW lookup,
         Cycle(b, words, m, residue_ok, lookup), Starting
  PROVE  ~udp_payload_valid
<1>1. wire.position = 0 /\ wire'.position = 1
  BY DEF Starting
<1>2. StartFrame(b)
  <2>1. ~Gap(b) /\ ~IdleLine(b) /\ ~SendBlock(b)
    BY <1>1 DEF Gap, IdleLine, SendBlock, NoFrame
  <2> QED BY <2>1 DEF Cycle
<1>3. PICK start \in {"start_0", "start_4"} : MayStart(start)
  BY <1>2 DEF StartFrame
<1> QED BY <1>1, <1>3 DEF MayStart, FramesFollow

(* A clock edge that leaves the line undisturbed is a CleanCycle.          *)
LEMMA CleanMoves ==
  ASSUME TheLine, PacketInv, PacketInv', SyncInv, NoFaultYet, FramesFollow, line_clean',
         NEW b, NEW words, NEW m, NEW residue_ok, NEW lookup,
         Cycle(b, words, m, residue_ok, lookup)
  PROVE  CleanCycle(b, Pcs!Beat(b), words, m, residue_ok)
<1> DEFINE f == Pcs!Beat(b)
<1> USE DEF TheLine
<1>1. Edge(f, words, m, residue_ok) /\ RecordHistory(f, residue_ok) /\ BeatFits(f)
  BY CycleParts DEF Edge, Cycle, Components
<1>2. /\ inside_frame /\ b.kind \in {"start_0", "start_4", "idle"} => f.abort
  BY CycleParts
<1>3. ~damaged' /\ ~Starting /\ state # "IDLE" =>
        MidFrame(b, f, words, m, residue_ok) /\ (InHeader \/ InWords)
  BY MidFrameStep DEF MidFrame, SyncInv, InStep
<1>4. Starting /\ ~damaged' => ~f.end
  BY StartInStep
<1> HIDE DEF f
<1>5. ~damaged' /\ (frame_pipe.end => residue_ok)
  BY <1>1 DEF RecordHistory, LineInv, StrobeState
<1>6. ~damaged
  BY DEF NoFaultYet
<1>7. state # "IDLE" => ~Starting
  <2>1. state # "IDLE" => wire.position > 0
    BY <1>6 DEF SyncInv, InStep
  <2> QED BY <2>1 DEF Starting
<1>8. ~f.abort
  <2>1. CASE state = "IDLE"
    BY <1>1, <2>1 DEF BeatFits, LineInv, FrameState
  <2>2. CASE state # "IDLE"
    BY <1>3, <1>5, <1>7, <2>2 DEF MidFrame
  <2> QED BY <2>1, <2>2
<1>9. Starting => ~udp_payload_valid
  BY StartWaits
<1>10. AssemblerStrobes.valid => m \in SentMessages
  <2>1. CASE Starting
    BY <1>9, <2>1 DEF AssemblerStrobes, UdpStrobes, Assembler!MessageValid
  <2>2. CASE ~Starting
    BY <1>5, <2>2, FrameMoves DEF SyncInv
  <2> QED BY <2>1, <2>2
<1>11. ASSUME f.end PROVE state # "IDLE" /\ InWords
  <2>1. state # "IDLE"
    BY <1>1, <1>11 DEF BeatFits, LineInv, FrameState
  <2> QED BY <1>3, <1>5, <1>7, <1>11, <2>1, HeaderInStep
<1> QED BY <1>1, <1>3, <1>4, <1>5, <1>7, <1>8, <1>9, <1>10, <1>11 DEF CleanCycle, f

(* A frame ends with its last block.                                       *)
LEMMA EndIsLast ==
  ASSUME NEW b, NEW f, NEW words, NEW m, NEW residue_ok,
         MidFrame(b, f, words, m, residue_ok), f.end, BeatFits(f)
  PROVE  wire.position = LastPosition(wire)
<1>1. f.valid
  BY DEF BeatFits
<1>2. b = ScriptedBlock(wire)
  BY <1>1 DEF MidFrame
<1> QED BY <1>2 DEF MidFrame, ScriptedBlock

(* The frame under way on an undisturbed line is whole up to here.         *)
LEMMA FramesStep ==
  ASSUME TheLine, PacketInv, PacketInv', SyncInv, NoFaultYet, FramesFollow, line_clean',
         NEW b, NEW words, NEW m, NEW residue_ok, NEW lookup,
         Cycle(b, words, m, residue_ok, lookup)
  PROVE  FramesFollow' /\ ~udp_packet_abort'
<1> DEFINE f == Pcs!Beat(b)
<1> USE DEF TheLine
<1>1. CleanCycle(b, f, words, m, residue_ok) /\ BeatFits(f)
  BY CleanMoves, CycleParts
<1>2. f.start <=> ~inside_frame /\ b.kind \in {"start_0", "start_4"}
  BY CycleParts
<1> HIDE DEF f
<1>3. Edge(f, words, m, residue_ok) /\ ~f.abort /\ ~damaged'
  BY <1>1 DEF CleanCycle
<1>4. CASE Starting
  <2>1. state = "IDLE" /\ ~inside_frame
    BY <1>1, <1>4 DEF CleanCycle, LineInv, FrameState
  <2>2. wire'.position = 1 /\ b.kind \in {"start_0", "start_4"}
    BY <1>3, <1>4, FrameMoves DEF SyncInv
  <2>3. f.start /\ f.valid
    BY <1>1, <1>2, <2>1, <2>2 DEF BeatFits
  <2>4. state' = "HEADER"
    BY <1>3, <2>1, <2>3 DEF Edge, Udp!Clock, Udp!Abort, Udp!Wait, Udp!StartFrame,
       Udp!RejectHeader, Udp!SkipHeader, Udp!RejectPayload, Udp!NextWord, Udp!LastWord,
       Udp!CheckTail, Udp!Drain
  <2>5. ~wire'.idle_seen
    <3>1. ~Gap(b) /\ ~IdleLine(b) /\ ~SendBlock(b)
      BY <1>4 DEF Starting, Gap, IdleLine, SendBlock, NoFrame
    <3>2. StartFrame(b)
      BY <3>1 DEF Cycle
    <3> QED BY <3>2 DEF StartFrame
  <2>6. ~udp_packet_abort'
    BY <1>3, <2>1, ParserMoves DEF Edge
  <2> QED BY <2>2, <2>4, <2>5, <2>6 DEF FramesFollow
<1>5. CASE ~Starting /\ wire.position = 0
  <2>1. wire'.position = 0
    BY <1>5, FrameMoves DEF SyncInv
  <2>2. state = "IDLE"
    BY <1>5, <1>1 DEF CleanCycle, MidFrame
  <2>3. ~udp_payload_valid' /\ ~udp_packet_abort'
    BY <1>3, <2>2, ParserMoves DEF Edge
  <2>4. /\ sender_next = arriving_next + One(udp_payload_valid)
        /\ udp_payload_valid => word_index = 3
    BY <1>5 DEF FramesFollow
  <2>5. sender_next' = sender_next /\ arriving_next' = arriving_next + One(Message)
    BY <1>5, WireStep DEF Message
  <2>6. One(Message) = One(udp_payload_valid)
    BY <2>4 DEF One, Message
  <2>7. sender_next' = arriving_next' + One(udp_payload_valid')
    BY <2>3, <2>4, <2>5, <2>6 DEF One, WireTypes
  <2> QED BY <2>1, <2>3, <2>7 DEF FramesFollow
<1>6. CASE ~Starting /\ wire.position # 0
  <2>1. wire.position > 0 /\ state # "IDLE" /\ ~wire.idle_seen
    BY <1>6 DEF WireTypes, FramesFollow
  <2>2. MidFrame(b, f, words, m, residue_ok) /\ (InHeader \/ InWords)
    BY <1>1, <2>1 DEF CleanCycle
  <2>3. ~wire'.idle_seen
    <3>1. wire' = wire \/ SendBlock(b)
      <4>1. ~IdleLine(b) /\ ~StartFrame(b)
        BY <1>6 DEF IdleLine, StartFrame
      <4> QED BY <4>1 DEF Cycle, Gap
    <3> QED BY <2>1, <3>1 DEF SendBlock, WireTypes
  <2>4. CASE InHeader
    <3>1. wire'.position > 0 /\ state' # "IDLE"
      BY <2>2, <2>4, HeaderInStep DEF InHeader, InWords
    <3>2. ~udp_packet_abort'
      BY <1>3, <2>4, ParserMoves DEF Edge, InHeader, LineInv, FrameState
    <3> QED BY <2>3, <3>1, <3>2 DEF FramesFollow
  <2>5. CASE InWords /\ ~f.end
    <3>1. state' \in {"PAYLOAD", "DRAIN"}
      BY <1>3, <2>5, ParserMoves DEF Edge, InWords
    <3>2. wire'.position > 0 /\ InWords'
      BY <2>2, <2>5, <3>1, WordsInStep
    <3>3. ~udp_packet_abort'
      <4>1. StrobeState'
        BY <1>3, ParserStep DEF Edge
      <4> QED BY <3>1, <3>2, <4>1 DEF StrobeState, InWords, BeforePayload
    <3> QED BY <2>3, <3>1, <3>2, <3>3 DEF FramesFollow
  <2>6. CASE InWords /\ f.end
    <3>1. FrameEnded' /\ ~udp_packet_abort'
      BY <2>2, <2>6, WordsInStep
    <3>2. udp_payload_valid' => wire'.start = "start_0"
      <4> SUFFICES ASSUME udp_payload_valid', wire.start # "start_0" PROVE FALSE
        BY <2>2 DEF MidFrame
      <4>1. state = "PAYLOAD"
        BY <1>3, ParserMoves DEF Edge
      <4>2. wire.position = LastPosition(wire)
        BY <1>1, <2>2, <2>6, EndIsLast
      <4>3. payload_words_remaining = 0
        <5>1. payload_words_remaining = 4 * wire.messages + 7 - wire.position
          BY <2>6 DEF InWords
        <5>2. wire.position = 4 * wire.messages + 7
          BY <4>2 DEF LastPosition
        <5>3. wire.messages \in Nat
          BY DEF WireTypes
        <5> QED BY <5>1, <5>2, <5>3
      <4>4. payload_started
        <5>1. wire.messages \in Nat /\ wire.messages > 0
          BY <2>2 DEF MidFrame, WireTypes
        <5> QED BY <2>6, <4>3, <5>1 DEF InWords
      <4> QED BY <4>1, <4>3, <4>4 DEF LineInv, FrameState
    <3> QED BY <2>3, <3>1, <3>2 DEF FramesFollow, FrameEnded
  <2> QED BY <2>2, <2>4, <2>5, <2>6
<1> QED BY <1>4, <1>5, <1>6

(* No message of an undisturbed line disagrees with the tracker.           *)
LEMMA CleanMatches ==
  ASSUME TheGuard, NoFaultYet, NumbersFollow, NEW f,
         Guard!Clock(ControllerStrobes(f), TrackerMessage),
         decoded_valid => decoded.sequence_number \in Nat,
         current_packet_next_sequence_number \in Nat, arriving_next \in Nat
  PROVE  /\ ~Guard!Tracker!Mismatch(TrackerMessage)
         /\ decoded_valid => decoded.sequence_number = current_packet_next_sequence_number
<1>1. decoded_valid =>
        /\ decoded.sequence_number + 1 = arriving_next
        /\ current_packet_next_sequence_number + 1 = arriving_next
  BY DEF NumbersFollow, One
<1>2. decoded_valid => decoded.sequence_number = current_packet_next_sequence_number
  BY <1>1
<1> QED BY <1>2, TrackerMoves

(* Ranges of the numbers involved.                                         *)
LEMMA CleanNumberTypes ==
  ASSUME TheLine, TheGuard
  PROVE  /\ decoded_valid => decoded.sequence_number \in 0 .. SeqModulus - 2
         /\ decoded_valid => decoded.sequence_number \in Nat
         /\ current_packet_next_sequence_number \in Nat
         /\ arriving_next \in Nat /\ sender_next \in Nat /\ SeqModulus \in Nat
<1>1. /\ decoded_valid => decoded.sequence_number \in 0 .. SeqModulus - 2
      /\ arriving_next \in Nat /\ sender_next \in Nat
  BY DEF TheLine, NumberState, WireTypes
<1>2. SeqModulus \in Nat
  BY ConstantsAssumption
<1>3. current_packet_next_sequence_number \in 0 .. SeqModulus - 1
  BY DEF TheGuard, Guard!TypeOK, Guard!Tracker!TypeOK, Guard!Tracker!SequenceNumber
<1> QED BY <1>1, <1>2, <1>3

(* Nothing goes wrong at a clock edge of an undisturbed line.              *)
LEMMA CleanFault ==
  ASSUME TheLine, PacketInv, TheGuard, CleanInv, line_clean,
         NEW b, NEW f, NEW words, NEW m, NEW residue_ok, CleanCycle(b, f, words, m, residue_ok),
         ~udp_packet_abort'
  PROVE  NoFaultYet'
<1> USE DEF TheLine
<1>1. Edge(f, words, m, residue_ok) /\ ~damaged' /\ ~f.abort
  BY DEF CleanCycle
<1>2. /\ NoFaultYet /\ NumbersFollow /\ VerdictsFollow
  BY DEF CleanInv
<1>3. ~Guard!Tracker!Mismatch(TrackerMessage)
  BY <1>1, <1>2, CleanMatches, CleanNumberTypes DEF Edge
<1>4. VerdictNow(f) => Passing(f) /\ fcs_ok
  BY <1>1, <1>2 DEF VerdictNow, Passing, VerdictsFollow
<1>5. ~integrity_failure'
  BY <1>1, <1>4, VerdictRegisters DEF Edge, PacketInv
<1>6. ~stream_fault'
  BY <1>1, <1>2, <1>3, TrackerMoves DEF Edge, NoFaultYet
<1>7. ~packet_discard'
  <2>1. Resolving(f) => packet_pending /\ ~packet_failed
    BY <1>2 DEF Resolving, NoFaultYet
  <2> QED BY <1>1, <1>2, <1>3, <1>4, <2>1, ControllerMoves DEF Edge, PacketInv, NoFaultYet
<1>8. ~decoded_packet_abort'
  BY <1>1, <1>2, SentIsDecoded DEF Edge, NoFaultYet, CleanCycle
<1>9. packet_pending' => ~packet_failed'
  <2>1. packet_pending' => packet_pending \/ (~packet_pending /\ PacketStart)
    BY <1>1, ControllerMoves DEF Edge, PacketInv
  <2> QED BY <1>1, <1>2, <1>3, <1>4, <2>1, VerdictRegisters DEF Edge, PacketInv, NoFaultYet
<1> QED BY <1>1, <1>5, <1>6, <1>7, <1>8, <1>9 DEF NoFaultYet

(* The tracker goes on counting what arrives.                              *)
LEMMA CleanNumbers ==
  ASSUME TheLine, TheLine', PacketInv, TheGuard, CleanInv, line_clean, FramesFollow',
         NEW b, NEW words, NEW m, NEW residue_ok, NEW lookup,
         Cycle(b, words, m, residue_ok, lookup),
         CleanCycle(b, Pcs!Beat(b), words, m, residue_ok)
  PROVE  NumbersFollow'
<1> DEFINE f == Pcs!Beat(b)
<1> USE DEF TheLine
<1>1. Edge(f, words, m, residue_ok) /\ (AssemblerStrobes.valid => m \in SentMessages)
  BY DEF CleanCycle
<1> HIDE DEF f
<1>2. NoFaultYet /\ NumbersFollow /\ VerdictsFollow /\ FramesFollow
  BY DEF CleanInv
<1>3. /\ ~Guard!Tracker!Mismatch(TrackerMessage)
      /\ decoded_valid => decoded.sequence_number = current_packet_next_sequence_number
  BY <1>1, <1>2, CleanMatches, CleanNumberTypes DEF Edge
<1>4. /\ decoded_valid' <=> Message
      /\ decoded_valid' => decoded'.sequence_number = arriving_next
  BY <1>1, SentIsDecoded DEF Edge, Message
<1>5. /\ decoded_valid => decoded.sequence_number \in 0 .. SeqModulus - 2
      /\ current_packet_next_sequence_number \in Nat
      /\ arriving_next \in Nat /\ sender_next \in Nat /\ SeqModulus \in Nat
  BY CleanNumberTypes
<1>6. current_packet_next_sequence_number' = arriving_next
  <2>1. CASE decoded_valid
    <3>1. ~Pulse
      <4>1. packet_pending
        BY <1>2, <2>1 DEF PacketInv, Opened, NoFaultYet
      <4> QED BY <4>1 DEF TheGuard, Guard!VerdictMatchesPacket, Pulse
    <3>2. current_packet_next_sequence_number' =
            Guard!Tracker!After(decoded.sequence_number)
      BY <1>1, <1>2, <1>3, <2>1, <3>1, TrackerMoves DEF Edge, NoFaultYet
    <3>3. Guard!Tracker!After(decoded.sequence_number) = decoded.sequence_number + 1
      BY <1>5, <2>1 DEF Guard!Tracker!After
    <3> QED BY <1>2, <2>1, <3>2, <3>3 DEF NumbersFollow
  <2>2. CASE ~decoded_valid
    <3>1. current_packet_next_sequence_number' = current_packet_next_sequence_number
      <4>1. Pulse => packet_commit
        BY <1>2 DEF NoFaultYet, Pulse
      <4> QED BY <1>1, <2>2, <4>1, TrackerMoves DEF Edge
    <3> QED BY <1>2, <1>5, <2>2, <3>1 DEF NumbersFollow, One
  <2> QED BY <2>1, <2>2
<1>7. arriving_next' = arriving_next + One(Message)
  <2>1. CASE Starting
    <3>1. ~udp_payload_valid /\ wire.position = 0
      BY <2>1 DEF CleanCycle, Starting
    <3>2. sender_next = arriving_next
      BY <1>2, <1>5, <3>1 DEF FramesFollow, One
    <3>3. arriving_next' = sender_next
      BY <2>1, WireStep
    <3> QED BY <1>5, <3>1, <3>2, <3>3 DEF One, Message
  <2>2. CASE ~Starting
    BY <2>2, WireStep DEF Message
  <2> QED BY <2>1, <2>2
<1>8. One(decoded_valid)' = One(Message)
  BY <1>4 DEF One
<1>9. One(Message) \in Nat /\ (decoded_valid' => One(Message) = 1)
  BY <1>4 DEF One
<1> QED BY <1>4, <1>5, <1>6, <1>7, <1>8, <1>9 DEF NumbersFollow

(* A commit leaves the stream at the number after its frame.               *)
LEMMA CommittedNext ==
  ASSUME TheLine, PacketInv, SyncInv, TheGuard, CountedInv, packet_commit, ~stream_fault
  PROVE  current_packet_next_sequence_number = last_frame.next
<1>1. /\ last_frame.messages > 0 /\ Len(packet_log) = last_frame.messages
      /\ packet_log[Len(packet_log)].seq + 1 = last_frame.next
  BY DEF SyncInv, CommitIsFrame
<1>2. packet_log \in Seq(Guard!Message) /\ Len(packet_log) \in Nat
  BY DEF PacketInv, ControllerTypes
<1>3. packet_log # << >> /\ Len(packet_log) \in 1 .. Len(packet_log)
  BY <1>1, <1>2
<1>4. packet_log[Len(packet_log)] \in Guard!Message
  BY <1>2, <1>3
<1>5. packet_log[Len(packet_log)].seq \in 0 .. SeqModulus - 1
  BY <1>4 DEF Guard!Message, Guard!Tracker!Message, Guard!Tracker!SequenceNumber
<1>6. last_frame.next <= sender_next /\ last_frame.next \in Nat /\ sender_next \in Nat
  BY DEF CountedInv, TheLine, WireTypes
<1>7. sender_next < SeqModulus
  <2>1. /\ sender_next <= 1 + (FrameLimit - frames_left) * MaxMessages
        /\ frames_left \in 0 .. FrameLimit
    BY DEF TheLine, NumberState, WireTypes
  <2>2. (FrameLimit - frames_left) * MaxMessages <= FrameLimit * MaxMessages
    <3>1. \A i, j, k \in Nat : i <= j => i * k <= j * k
      OBVIOUS
    <3>2. FrameLimit - frames_left \in Nat /\ FrameLimit - frames_left <= FrameLimit
      BY <2>1, Sizes
    <3> QED BY <3>1, <3>2, Sizes
  <2>3. (FrameLimit + 1) * MaxMessages = FrameLimit * MaxMessages + MaxMessages
    BY Sizes
  <2>4. SeqModulus > FrameLimit * MaxMessages + 2 /\ SeqModulus \in Nat
    BY <2>3, ConstantsAssumption
  <2> DEFINE used == (FrameLimit - frames_left) * MaxMessages
             all  == FrameLimit * MaxMessages
  <2>5. used \in Int /\ all \in Int
    BY <2>1, Sizes
  <2>6. sender_next <= 1 + used /\ used <= all /\ SeqModulus > all + 2
    BY <2>1, <2>2, <2>4
  <2> HIDE DEF used, all
  <2> QED BY <1>6, <2>4, <2>5, <2>6
<1>8. current_packet_next_sequence_number =
        Guard!Tracker!After(packet_log[Len(packet_log)].seq)
  BY <1>3 DEF TheGuard, Guard!SpeculationMatchesPacket, Guard!NextExpected
<1>9. packet_log[Len(packet_log)].seq # SeqModulus - 1
  BY <1>1, <1>5, <1>6, <1>7, ConstantsAssumption
<1> QED BY <1>1, <1>8, <1>9 DEF Guard!Tracker!After

(* The frames go on being resolved as good.                                *)
LEMMA CleanVerdicts ==
  ASSUME TheLine, PacketInv, SyncInv, TheGuard, CountedInv, CleanInv, line_clean,
         NoFaultYet',
         NEW b, NEW f, NEW words, NEW m, NEW residue_ok, CleanCycle(b, f, words, m, residue_ok)
  PROVE  VerdictsFollow'
<1> USE DEF TheLine
<1>1. Edge(f, words, m, residue_ok) /\ ~f.abort /\ RecordHistory(f, residue_ok)
  BY DEF CleanCycle
<1>2. NoFaultYet /\ VerdictsFollow
  BY DEF CleanInv
<1>3. packet_pending' <=> \/ packet_pending /\ ~Resolving(f)
                          \/ ~packet_pending /\ PacketStart
  BY <1>1, ControllerMoves DEF Edge, PacketInv
<1>4. /\ frame_pipe'.end = f.end
      /\ fcs_result_valid' <=> frame_pipe.valid /\ frame_pipe.end
      /\ fcs_ok' <=> fcs_result_valid' /\ Fcs!SkipAfterWord = 0 /\ residue_ok
  BY <1>1 DEF Edge, Fcs!Clock
<1>5. VerdictNow(f) => fcs_result_valid
  BY <1>1 DEF VerdictNow
<1>6. ASSUME frame_pipe'.end PROVE packet_pending'
  <2>1. f.end /\ state # "IDLE" /\ InWords /\ MidFrame(b, f, words, m, residue_ok)
    BY <1>4, <1>6 DEF CleanCycle
  <2>2. ~Resolving(f)
    <3>1. ~fcs_result_valid
      BY <2>1 DEF InWords, LineInv, StrobeState, FirstHeaderBeat
    <3>2. packet_pending => ~fcs_seen
      BY <2>1 DEF InWords, PacketInv, AbortedSoon, FirstHeaderBeat
    <3> QED BY <1>5, <3>1, <3>2 DEF Resolving
  <2>3. payload_started
    <3>1. wire.position = LastPosition(wire)
      BY <1>1, <2>1, EndIsLast DEF Edge
    <3>2. payload_words_remaining \in {0, 1}
      <4>1. wire.messages \in Nat
        BY DEF WireTypes
      <4> QED BY <2>1, <3>1, <4>1 DEF InWords, LastPosition
    <3>3. 4 * wire.messages > 1
      BY <2>1 DEF MidFrame, WireTypes
    <3>4. payload_words_remaining < 4 * wire.messages
      <4>1. wire.messages \in Nat
        BY DEF WireTypes
      <4> QED BY <3>2, <3>3, <4>1
    <3> QED BY <2>1, <3>4 DEF InWords
  <2>4. packet_pending \/ PacketStart
    BY <2>3 DEF PacketInv, Opened, PacketStart, LineInv, StrobeState
  <2> QED BY <1>3, <2>2, <2>4
<1>7. ASSUME fcs_result_valid' PROVE packet_pending' /\ fcs_ok'
  <2>1. frame_pipe.valid /\ frame_pipe.end /\ packet_pending
    BY <1>2, <1>4, <1>7 DEF VerdictsFollow
  <2>2. ~Resolving(f)
    BY <1>5, <2>1 DEF SyncInv, VerdictAlone, Resolving
  <2>3. Fcs!SkipAfterWord = 0
    BY <1>2, <2>1 DEF CleanInv, SkipInv, SkipNow, NoFaultYet
  <2>4. residue_ok
    BY <2>1 DEF CleanCycle
  <2> QED BY <1>3, <1>4, <1>7, <2>1, <2>2, <2>3, <2>4
<1>8. ASSUME ~fcs_result_valid', ~packet_commit'
      PROVE  verified_next_sequence_number' = last_frame'.next
  <2>1. ~(frame_pipe.valid /\ frame_pipe.end)
    BY <1>4, <1>8
  <2>2. last_frame' = last_frame
    BY <1>1, <2>1 DEF RecordHistory
  <2>3. ~fcs_result_valid
    <3> SUFFICES ASSUME fcs_result_valid PROVE FALSE
      OBVIOUS
    <3>1. packet_pending
      BY <1>2 DEF VerdictsFollow
    <3>2. Decoded
      BY <3>1 DEF PacketInv, DecodeEnds, LineInv, StrobeState, InPayload, FirstHeaderBeat
    <3>3. Resolving(f)
      BY <3>1, <3>2 DEF Resolving, VerdictNow
    <3>4. packet_commit' \/ packet_discard'
      BY <1>1, <3>3, ControllerMoves DEF Edge, PacketInv
    <3> QED BY <1>8, <3>4 DEF NoFaultYet
  <2>4. CASE packet_commit
    <3>1. current_packet_next_sequence_number = last_frame.next
      BY <1>2, <2>4, CommittedNext DEF NoFaultYet
    <3>2. verified_next_sequence_number' = current_packet_next_sequence_number
      BY <1>1, <1>2, <2>4, TrackerMoves DEF Edge, NoFaultYet
    <3> QED BY <2>2, <3>1, <3>2
  <2>5. CASE ~packet_commit
    <3>1. ~Pulse
      BY <1>2, <2>5 DEF NoFaultYet, Pulse
    <3>2. verified_next_sequence_number' = verified_next_sequence_number
      BY <1>1, <3>1, TrackerMoves DEF Edge
    <3> QED BY <1>2, <2>2, <2>3, <2>5, <3>2 DEF VerdictsFollow
  <2> QED BY <2>4, <2>5
<1> QED BY <1>6, <1>7, <1>8 DEF VerdictsFollow

(* CleanInv is inductive.                                                  *)
LEMMA CleanStep ==
  ASSUME TheLine, TheLine', PacketInv, PacketInv', SyncInv, TheGuard, CountedInv, CleanInv,
         NEW b, NEW words, NEW m, NEW residue_ok, NEW lookup,
         Cycle(b, words, m, residue_ok, lookup)
  PROVE  CleanInv'
<1>1. SkipInv'
  BY SkipStep DEF CleanInv
<1>2. ASSUME line_clean' PROVE NoFaultYet' /\ FramesFollow' /\ NumbersFollow' /\ VerdictsFollow'
  <2>1. line_clean
    BY <1>2 DEF Cycle, Components, RecordHistory
  <2>2. NoFaultYet /\ FramesFollow
    BY <2>1 DEF CleanInv
  <2>3. CleanCycle(b, Pcs!Beat(b), words, m, residue_ok)
    BY <1>2, <2>2, CleanMoves
  <2>4. FramesFollow' /\ ~udp_packet_abort'
    BY <1>2, <2>2, FramesStep
  <2>5. NoFaultYet'
    BY <2>1, <2>3, <2>4, CleanFault
  <2>6. NumbersFollow'
    BY <2>1, <2>3, <2>4, CleanNumbers
  <2>7. VerdictsFollow'
    BY <2>1, <2>3, <2>5, CleanVerdicts
  <2> QED BY <2>4, <2>5, <2>6, <2>7
<1> QED BY <1>1, <1>2 DEF CleanInv

(* It holds initially.                                                     *)
LEMMA CleanInit == Init => CleanInv
<1> SUFFICES ASSUME Init PROVE CleanInv
  OBVIOUS
<1>1. /\ state = "IDLE" /\ ~frame_pipe.end /\ ~frame_pipe.valid /\ frame_pipe.start = FALSE
      /\ frame_pipe.keep = 0 /\ skip_remaining = 0
      /\ ~fcs_result_valid /\ ~udp_payload_valid /\ ~udp_packet_abort
  BY DEF Init, Udp!Init, Fcs!Init, Fcs!NoBeat
<1>2. /\ ~stream_fault /\ ~packet_discard /\ ~integrity_failure /\ ~packet_pending
      /\ verified_next_sequence_number = 1 /\ current_packet_next_sequence_number = 1
  BY DEF Init, Guard!Init, Guard!Controller!Init, Guard!Tracker!Init
<1>3. ~decoded_packet_abort /\ ~decoded_valid
  BY DEF Init, Decoder!Init
<1>4. /\ wire.position = 0 /\ ~damaged /\ sender_next = 1 /\ arriving_next = 1
      /\ last_frame.next = 1
  BY DEF Init, NoFrame
<1>5. SkipInv
  <2>1. skip_remaining \in Nat /\ frame_pipe.keep \in Nat
    BY <1>1
  <2>2. frame_pipe.start \in BOOLEAN
    BY DEF Init, Fcs!Init, Fcs!NoBeat
  <2>3. SkipNow = 0
    BY <1>1 DEF SkipNow
  <2> QED BY <1>1, <2>1, <2>2, <2>3 DEF SkipInv
<1>6. NoFaultYet
  BY <1>1, <1>2, <1>3, <1>4 DEF NoFaultYet
<1>7. FramesFollow /\ NumbersFollow
  BY <1>1, <1>2, <1>3, <1>4 DEF FramesFollow, NumbersFollow, One
<1>8. VerdictsFollow
  BY <1>1, <1>2, <1>4 DEF VerdictsFollow
<1> QED BY <1>5, <1>6, <1>7, <1>8 DEF CleanInv

(* A stuttering step keeps it.                                             *)
LEMMA CleanStutter == CleanInv /\ UNCHANGED vars => CleanInv'
<1> SUFFICES ASSUME CleanInv, UNCHANGED vars PROVE CleanInv'
  OBVIOUS
<1>1. /\ UNCHANGED << Udp!vars, Assembler!vars, Decoder!vars, Fcs!vars >>
      /\ UNCHANGED << Guard!vars, wire_vars, history >>
  BY DEF vars
<1>2. /\ UNCHANGED << state, payload_started, udp_payload_valid, udp_packet_abort >>
      /\ UNCHANGED << word_index, decoded_valid, decoded, decoded_packet_abort >>
      /\ UNCHANGED << frame_pipe, skip_remaining, fcs_result_valid, fcs_ok >>
      /\ UNCHANGED << packet_pending, packet_failed, packet_commit, packet_discard,
                      integrity_failure >>
      /\ UNCHANGED << verified_next_sequence_number, current_packet_next_sequence_number,
                      stream_fault >>
      /\ UNCHANGED << wire, damaged, sender_next, arriving_next, last_frame, line_clean >>
  BY <1>1 DEF Udp!vars, Assembler!vars, Decoder!vars, Fcs!vars, Guard!vars,
     Guard!Controller!vars, Guard!Tracker!vars, wire_vars, history
<1>3. SkipNow' = SkipNow
  BY <1>2 DEF SkipNow, Fcs!SkipAfterWord, Fcs!SkipBefore
<1>4. SkipInv'
  BY <1>2, <1>3 DEF CleanInv, SkipInv
<1>5. One(udp_payload_valid)' = One(udp_payload_valid) /\ One(decoded_valid)' = One(decoded_valid)
  BY <1>2 DEF One
<1>6. (NoFaultYet' <=> NoFaultYet) /\ (VerdictsFollow' <=> VerdictsFollow)
  BY <1>2 DEF NoFaultYet, VerdictsFollow
<1>7. (FramesFollow' <=> FramesFollow) /\ (NumbersFollow' <=> NumbersFollow)
  BY <1>2, <1>5 DEF FramesFollow, NumbersFollow
<1>8. line_clean' <=> line_clean
  BY <1>2
<1> QED BY <1>4, <1>6, <1>7, <1>8 DEF CleanInv

(***************************************************************************)
(* An undisturbed line loses nothing, whatever the sizes, gaps and         *)
(* alignments of the frames: no packet is discarded, the stream does not   *)
(* fault, and every message of a resolved frame has been counted.          *)
(***************************************************************************)
THEOREM CleanCorrect == Spec => []CleanLineDelivers
<1>1. /\ TheLine /\ TheLine' /\ PacketInv /\ PacketInv' /\ SyncInv /\ TheGuard
      /\ OrdersInv /\ CleanInv /\ Next
      => CleanInv'
  <2> SUFFICES ASSUME TheLine, TheLine', PacketInv, PacketInv', SyncInv, TheGuard,
                      OrdersInv, CleanInv, Next
               PROVE  CleanInv'
    OBVIOUS
  <2>1. PICK b, words, m, residue_ok, lookup : Cycle(b, words, m, residue_ok, lookup)
    BY NextIsCycle
  <2> QED BY <2>1, CleanStep DEF OrdersInv
<1>2. Spec => []TheGuard
  BY GuardHolds, PTL DEF TheGuard
<1>3. CleanInv => CleanLineDelivers
  BY DEF CleanInv, NoFaultYet, VerdictsFollow, CleanLineDelivers
<1> QED
  BY <1>1, <1>2, <1>3, CleanInit, CleanStutter, LineCorrect, PacketCorrect, SyncCorrect,
     OrdersCorrect, PTL DEF Spec
=============================================================================
