------------------------------- MODULE RxPath -------------------------------
(***************************************************************************)
(* The receive path of src/fpga/rtl/xem8320_top.sv, cycle by cycle: block  *)
(* decoder, FCS checker, UDP parser, message assembler, message decoder,   *)
(* packet controller, sequence tracker and risk engine, fed by the host    *)
(* and a wire that may damage a frame.  One step is one RX clock edge.     *)
(***************************************************************************)
EXTENDS Integers, Sequences

CONSTANTS
  SeqModulus,     \* larger than the number of messages a behaviour sends
  MaxMessages,    \* messages in one frame
  FrameLimit,     \* frames the host sends
  MaxGaps         \* clock cycles in a row without a block: 1 with the gearbox

ASSUME ConstantsAssumption ==
  /\ MaxMessages \in Nat \ {0} /\ FrameLimit \in Nat /\ MaxGaps \in Nat
  /\ SeqModulus \in Nat /\ SeqModulus > (FrameLimit + 1) * MaxMessages + 2

VARIABLES
  inside_frame,
  state, payload_alignment, header_bytes_discarded, payload_started,
  payload_words_remaining, udp_length_invalid, udp_payload_start,
  udp_payload_end, udp_payload_valid, udp_packet_abort, parser_error,
  word_index, current_message_is_packet_start,
  decoded_valid, decoded, decoded_packet_start, decoded_packet_end,
  decoded_packet_abort, protocol_error,
  frame_pipe, skip_remaining, fcs_result_valid, fcs_ok,
  packet_pending, decode_done, fcs_seen, fcs_passed, packet_failed,
  packet_commit, packet_discard, integrity_failure,
  verified_next_sequence_number, current_packet_next_sequence_number,
  full_reset_recovery_pending, stream_fault, packet_log, packet_invalid,
  pending_order, decision_valid, decision,
  lookup_valid,
  (* the host and the wire *)
  wire,            \* the frame being sent and the next block of it
  gaps,            \* cycles without a block up to now
  damaged,         \* the frame was changed on the wire
  sender_next,     \* the sequence number the host assigns next
  arriving_next,   \* the number of the next message of the frame
  frames_left,
  (* history *)
  last_frame,      \* the frame whose end the FCS checker saw last
  outcome,         \* how the controller resolved the latest packet
  answer,          \* the latest decision written to the response FIFO
  line_clean       \* the wire has changed no frame yet

Pcs       == INSTANCE PcsRxBlockDecoder
Udp       == INSTANCE EthIpv4UdpRx
Assembler == INSTANCE InternalMessageAssembler
Decoder   == INSTANCE InternalProtocolDecoder
Fcs       == INSTANCE EthRxFcsChecker
Guard     == INSTANCE PacketGuard
Risk      == INSTANCE OrderRiskEngine

wire_vars == << wire, gaps, damaged, sender_next, arriving_next, frames_left >>
history   == << last_frame, outcome, answer, line_clean >>
vars == << Pcs!vars, Udp!vars, Assembler!vars, Decoder!vars, Fcs!vars,
           Guard!vars, Risk!vars, lookup_valid, wire_vars, history >>

-----------------------------------------------------------------------------
(* Wiring.                                                                 *)

UdpStrobes == [start |-> udp_payload_start, end |-> udp_payload_end,
               valid |-> udp_payload_valid, abort |-> udp_packet_abort]

AssemblerStrobes ==
  [valid |-> Assembler!MessageValid(UdpStrobes), abort |-> udp_packet_abort,
   packet_start |-> Assembler!MessagePacketStart(UdpStrobes),
   packet_end |-> Assembler!MessagePacketEnd(UdpStrobes)]

PacketStart == udp_payload_valid /\ udp_payload_start

ControllerStrobes(f) ==
  [packet_start |-> PacketStart, frame_abort |-> f.abort,
   decode_abort |-> decoded_packet_abort,
   fcs_result_valid |-> fcs_result_valid, fcs_ok |-> fcs_ok]

TrackerMessage ==
  IF decoded_valid
    THEN [valid |-> TRUE, seq |-> decoded.sequence_number,
          packet_start |-> decoded_packet_start, packet_end |-> decoded_packet_end,
          full_reset |-> Decoder!IsFullResetAll]
    ELSE Guard!NoMessage

ControllerInputs(f) == Guard!ControllerInputs(ControllerStrobes(f), TrackerMessage)

Order ==
  [side |-> decoded.payload_0, price |-> decoded.payload_1,
   quantity |-> decoded.payload_2, intent_id |-> decoded.payload_3,
   sequence_number |-> decoded.sequence_number, symbol_id |-> decoded.symbol_id,
   stream_fault |-> Guard!Tracker!EffectiveStreamFault(TrackerMessage, integrity_failure),
   protocol_violation |-> protocol_error,
   market_hours_active |-> TRUE]

(* The symbol state store is composed in RiskState; here a lookup returns  *)
(* a tradable symbol or a cleared one.                                     *)
Tradable ==
  [symbol_known |-> TRUE, symbol_enabled |-> TRUE, symbol_status |-> 4,
   bid_valid |-> TRUE, ask_valid |-> TRUE, bid_price |-> 1, ask_price |-> 1,
   max_order_quantity |-> 1, max_notional |-> 1, max_price_band_ticks |-> 0]

Cleared ==
  [symbol_known |-> FALSE, symbol_enabled |-> FALSE, symbol_status |-> 0,
   bid_valid |-> FALSE, ask_valid |-> FALSE, bid_price |-> 0, ask_price |-> 0,
   max_order_quantity |-> 0, max_notional |-> 0, max_price_band_ticks |-> 0]

-----------------------------------------------------------------------------
(* What the host sends and what may become of it.                          *)

Fields(type, seq, p0) ==
  [type |-> type, flags |-> 0, reserved |-> 0, sequence_number |-> seq,
   symbol_id |-> IF type = Decoder!CONFIG_CONTROL THEN 0 ELSE 1,
   payload_0 |-> p0, payload_1 |-> 0, payload_2 |-> 0, payload_3 |-> 0]

Update(seq)    == Fields(Decoder!TOB_UPDATE, seq, 0)
FullReset(seq) == Fields(Decoder!CONFIG_CONTROL, seq, Decoder!CONFIG_RESET_ALL)
Intent(seq)    == [Fields(Decoder!ORDER_INTENT, seq, Risk!ORDER_SIDE_BUY)
                     EXCEPT !.payload_1 = 1, !.payload_2 = 1]
BadUpdate(seq) == [Update(seq) EXCEPT !.reserved = 1]
BadIntent(seq) == [Intent(seq) EXCEPT !.flags = 1]

AnyMessage(seq) == {Update(seq), FullReset(seq), Intent(seq), BadUpdate(seq), BadIntent(seq)}

(* udp_batcher.hpp flushes after an ORDER_INTENT or a configuration        *)
(* command, and host_gateway.cpp configures before it sends anything else, *)
(* so that an ORDER_INTENT is last and a RESET_ALL alone in its frame.     *)
SentMessages ==
  LET seq  == arriving_next
      last == Assembler!MessagePacketEnd(UdpStrobes)
      lone == last /\ Assembler!MessagePacketStart(UdpStrobes)
  IN  {Update(seq)} \cup {m \in {Intent(seq)} : last} \cup {m \in {FullReset(seq)} : lone}

DamagedMessages == AnyMessage(arriving_next) \cup AnyMessage(arriving_next + 1)

(* A frame is a START block, data blocks and a TERM block; the payload is  *)
(* 32 bytes per message after 42 header bytes.                             *)
NoFrame == [position |-> 0, start |-> "start_0", messages |-> 0, idle_seen |-> TRUE]

LastPosition(w) == 4 * w.messages + IF w.start = "start_0" THEN 6 ELSE 7

Blk(kind) == [kind |-> kind, bytes |-> 0]
Term(k)   == [kind |-> "term", bytes |-> k]

ScriptedBlock(w) ==
  IF w.position # LastPosition(w) THEN Blk("data")
  ELSE IF w.start = "start_0" THEN Term(6) ELSE Term(2)

DamagedBlocks == {Blk("bad_type"), Blk("idle"), Blk("data"), Term(0), Term(2), Term(6)}

(* The interpacket gap: START_4 may follow TERM_2 at once, and any other   *)
(* START comes after an idle block.                                        *)
MayStart(start) == wire.idle_seen \/ (start = "start_4" /\ wire.start = "start_4")

-----------------------------------------------------------------------------
(* The block b of this cycle, and what becomes of the frame on the wire.   *)

Gap(b) ==
  /\ gaps < MaxGaps
  /\ b = Blk("none")
  /\ gaps' = gaps + 1
  /\ UNCHANGED << wire, sender_next, frames_left >>

IdleLine(b) ==
  /\ wire.position = 0
  /\ b = Blk("idle")
  /\ gaps' = 0
  /\ wire' = NoFrame
  /\ UNCHANGED << sender_next, frames_left >>

StartFrame(b) ==
  /\ wire.position = 0 /\ frames_left > 0
  /\ \E start \in {"start_0", "start_4"}, n \in 1 .. MaxMessages :
       /\ MayStart(start)
       /\ b \in {Blk(start), Blk("idle")}
       /\ wire' = [position |-> 1, start |-> start, messages |-> n, idle_seen |-> FALSE]
       /\ sender_next' = sender_next + n
  /\ gaps' = 0
  /\ frames_left' = frames_left - 1

SendBlock(b) ==
  /\ wire.position > 0
  /\ b = ScriptedBlock(wire) \/ (~damaged /\ b \in DamagedBlocks)
  /\ gaps' = 0
  /\ wire' = [wire EXCEPT !.position =
                IF wire.position = LastPosition(wire) THEN 0 ELSE @ + 1]
  /\ UNCHANGED << sender_next, frames_left >>

(* One damage per frame: a block, the length, a message or only the FCS.   *)
DamagedNow(b, words, m) ==
  \/ wire.position > 0 /\ b \notin {Blk("none"), ScriptedBlock(wire)}
  \/ wire.position > 0 /\ words # 4 * wire.messages
  \/ AssemblerStrobes.valid /\ m \notin SentMessages

WireDamage(b, words, m) ==
  /\ damaged' = IF wire.position = 0 /\ wire'.position = 1
                  THEN b = Blk("idle")
                  ELSE damaged \/ DamagedNow(b, words, m)
  /\ arriving_next' = IF wire.position = 0 /\ wire'.position = 1 THEN sender_next
                      ELSE arriving_next + IF AssemblerStrobes.valid THEN 1 ELSE 0

Lengths == IF damaged \/ ~Udp!UdpLengthPresent \/ state # "HEADER"
             THEN {4 * wire.messages} ELSE Udp!UdpLengths

Messages ==
  IF ~AssemblerStrobes.valid THEN {Update(0)}
  ELSE SentMessages \cup DamagedMessages

(* The CRC catches every damage.                                           *)
Residues(b, words, m) ==
  IF frame_pipe.valid /\ frame_pipe.end
    THEN {FALSE, ~damaged /\ ~(AssemblerStrobes.valid /\ m \notin SentMessages)}
    ELSE {FALSE}

-----------------------------------------------------------------------------
RecordHistory(f, residue_ok) ==
  /\ last_frame' =
       IF frame_pipe.valid /\ frame_pipe.end
         THEN [intact |-> residue_ok, messages |-> wire.messages, next |-> sender_next]
         ELSE last_frame
  /\ outcome' = IF PacketStart THEN "none"
                ELSE IF packet_commit THEN "commit"
                ELSE IF packet_discard THEN "discard"
                ELSE outcome
  /\ answer' = IF decision_valid
                 THEN [decision |-> decision.decision,
                       sequence_number |-> decision.sequence_number,
                       source_frame_ok |-> Guard!Controller!IntegrityOk(ControllerInputs(f))]
               ELSE IF PacketStart THEN << >> ELSE answer
  /\ line_clean' = /\ line_clean /\ ~damaged'
                   /\ frame_pipe.valid /\ frame_pipe.end => residue_ok

Components(b, words, m, residue_ok, lookup) ==
  LET f == Pcs!Beat(b)
  IN  /\ Pcs!Clock(b)
      /\ Udp!Clock(f, words)
      /\ Assembler!Clock(UdpStrobes)
      /\ Decoder!Clock(AssemblerStrobes, m)
      /\ Fcs!Clock(f, residue_ok)
      /\ Guard!Clock(ControllerStrobes(f), TrackerMessage)
      /\ Risk!Clock(Decoder!IsOrderIntent, Order, lookup_valid, lookup)
      /\ lookup_valid' = Decoder!IsOrderIntent
      /\ RecordHistory(f, residue_ok)

Init ==
  /\ Pcs!Init /\ Udp!Init /\ Assembler!Init /\ Decoder!Init /\ Fcs!Init
  /\ Guard!Init /\ Risk!Init
  /\ lookup_valid = FALSE
  /\ wire = NoFrame /\ gaps = 0 /\ damaged = FALSE
  /\ sender_next = 1 /\ arriving_next = 1 /\ frames_left = FrameLimit
  /\ last_frame = [intact |-> FALSE, messages |-> 0, next |-> 1]
  /\ outcome = "none"
  /\ answer = << >>
  /\ line_clean = TRUE

Next ==
  \E b \in Pcs!Block :
    /\ Gap(b) \/ IdleLine(b) \/ StartFrame(b) \/ SendBlock(b)
    /\ \E words \in Lengths, m \in Messages :
         /\ WireDamage(b, words, m)
         /\ \E residue_ok \in Residues(b, words, m),
               lookup \in IF lookup_valid THEN {Tradable, Cleared} ELSE {Cleared} :
              Components(b, words, m, residue_ok, lookup)

Spec == Init /\ [][Next]_vars

-----------------------------------------------------------------------------
(***************************************************************************)
(* The parser, assembler and decoder keep the contract PacketGuard assumes *)
(* of its front end, whatever the wire does to the frames: aborts, parser  *)
(* errors and early ends never let a message reach the sequence tracker    *)
(* outside its packet (eth_ipv4_udp_rx.sv, internal_protocol_decoder.sv).  *)
(***************************************************************************)
FrontEndContract == Guard!FrontEndContract(TrackerMessage)

(***************************************************************************)
(* A committed packet is an undamaged frame, and exactly the messages the  *)
(* host put into it, in order.  A parser abort found in the last block, a  *)
(* late bad FCS or an abort must reach rx_packet_controller.sv in time.    *)
(***************************************************************************)
CommitMeansIntactFrame ==
  packet_commit =>
    /\ last_frame.intact
    /\ Len(packet_log) = last_frame.messages
    /\ stream_fault \/ packet_log[Len(packet_log)].seq + 1 = last_frame.next

(***************************************************************************)
(* An ACCEPT that leaves with a good FCS belongs to a packet that commits, *)
(* and its number is the last one the tracker has counted: no order is     *)
(* accepted on speculative state that is then discarded (order_risk_engine *)
(* and rx_packet_controller run on different events of the same frame).    *)
(***************************************************************************)
AcceptedOrderIsCommitted ==
  answer # << >> /\ answer.source_frame_ok /\ answer.decision = "ACCEPT" =>
    /\ packet_commit \/ outcome = "commit"
    /\ ~stream_fault
    /\ current_packet_next_sequence_number = answer.sequence_number + 1

(***************************************************************************)
(* The response of a packet that commits is never stomped: the integrity   *)
(* verdict is known in the very cycle the decision is written, also when a *)
(* clock cycle without a block delays the end of the frame.                *)
(***************************************************************************)
CommittedOrderIsNotStomped ==
  answer # << >> /\ (packet_commit \/ outcome = "commit") => answer.source_frame_ok

(***************************************************************************)
(* On an undisturbed line nothing is lost: no packet of the host is        *)
(* discarded, the stream does not fault, and once the last frame has been  *)
(* resolved every message sent has been counted, frames back to back or    *)
(* with idle blocks between them, in either START alignment.               *)
(***************************************************************************)
CleanLineDelivers ==
  line_clean =>
    /\ ~stream_fault /\ ~packet_discard
    /\ last_frame.next = sender_next /\ ~packet_pending /\ ~packet_commit =>
         verified_next_sequence_number = sender_next

(***************************************************************************)
(* The response FIFO has one write port: an order start and a decision are *)
(* never written in one cycle (comment at rx_to_tx_cdc_fifo.sv:48).        *)
(***************************************************************************)
OneResponseWrite == ~(Decoder!IsOrderIntent /\ decision_valid)

-----------------------------------------------------------------------------
(* Statements of the comments and documents that the code does not keep.   *)

(* packet_start is the first ACCEPTED payload word                         *)
(* (rx_packet_controller.sv:9): a payload that starts is the one whose     *)
(* outcome the controller then reports.                                    *)
PacketStartIsAccepted == PacketStart => ~packet_pending

=============================================================================
