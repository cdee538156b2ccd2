---------------------------- MODULE ResponsePath ----------------------------
(***************************************************************************)
(* The response path of src/fpga/rtl/xem8320_top.sv: START and DECISION    *)
(* events of the receive side, the CDC FIFO, the frame generator and the   *)
(* transmit PCS.  One step is one cycle of both clocks, which run at the   *)
(* same nominal rate; their phase shows in the gearbox counters and in the *)
(* delay of the FIFO.                                                      *)
(***************************************************************************)
EXTENDS Integers, Sequences

CONSTANTS
  FifoDepth, SyncDelays, PauseSequence,
  OrderWireBytes,   \* one ORDER_INTENT frame with preamble and gap: 98
  OrderLimit        \* bound: orders of a behaviour

ASSUME ResponseAssumption ==
  /\ FifoDepth \in Nat \ {0} /\ SyncDelays \subseteq Nat \ {0}
  /\ PauseSequence \in Nat /\ OrderWireBytes \in Nat /\ OrderLimit \in Nat

VARIABLES
  fifo,
  frame_beat_index, frame_order, frame_fields,
  frame_active, buffered_blocks, gearbox_sequence, inter_frame_gap_pending, line,
  (* receive side *)
  rx_phase,         \* cycles since the RX gearbox skipped one
  wire_bytes,       \* line time since the last order frame ended, in bytes
  orders,           \* orders decoded so far
  deciding,         \* cycles to the decision of the latest order, or 0
  (* history *)
  sent,             \* the response frames sent: [order, fields]
  idle_run          \* idle blocks on the line since the last frame, 2 is many

Fifo      == INSTANCE RxToTxCdcFifo
Generator == INSTANCE OrderDecisionFrameGenerator
PcsTx     == INSTANCE PcsTxChannel

receive == << rx_phase, wire_bytes, orders, deciding >>
vars == << Fifo!vars, Generator!vars, PcsTx!vars, receive, sent, idle_run >>

DecisionLatency == 2      \* order_risk_engine: decoded order to decision

(* A decision is made before the next order can end; the delay of the      *)
(* crossing varies by no more than the cycles that the prefix of a frame   *)
(* leaves to the decision; and a frame meets at most one pause.            *)
ASSUME TimingAssumption ==
  /\ OrderWireBytes > 8 * DecisionLatency + 7
  /\ SyncDelays # {} /\ \A d, e \in SyncDelays : d <= e + 4
  /\ PauseSequence >= 9

-----------------------------------------------------------------------------
(* The receive line carries 8 bytes in every cycle but one of 33.          *)
LineTime ==
  IF rx_phase = PauseSequence THEN wire_bytes
  ELSE IF wire_bytes + 8 > OrderWireBytes + 7 THEN OrderWireBytes + 7 ELSE wire_bytes + 8

DecodeOrder ==
  /\ orders < OrderLimit
  /\ wire_bytes >= OrderWireBytes
  /\ rx_phase # PauseSequence
  /\ orders' = orders + 1
  /\ wire_bytes' = wire_bytes - OrderWireBytes + 8
  /\ deciding' = DecisionLatency

NoOrder ==
  /\ wire_bytes' = LineTime
  /\ deciding' = IF deciding = 0 THEN 0 ELSE deciding - 1
  /\ UNCHANGED orders

(* The event written in this cycle, if any; ok is the integrity verdict of *)
(* the order's frame, known when the decision is written (RxPath).         *)
Decided == deciding = 1

EventWith(ok) ==
  IF Decided THEN [kind |-> "DECISION", order |-> orders, ok |-> ok]
             ELSE [kind |-> "START", order |-> orders + 1, ok |-> ok]

FrameFinished == frame_beat_index = Generator!FINAL_FRAME_BEAT

RecordSent ==
  sent' = IF FrameFinished
            THEN Append(sent, [order |-> frame_order, fields |-> frame_fields'])
            ELSE sent

RecordIdle ==
  idle_run' = IF ~PcsTx!AdvanceTransmitBlock THEN idle_run
              ELSE IF line' # "idle" THEN 0
              ELSE IF idle_run = 2 THEN 2 ELSE idle_run + 1

Transmit ==
  LET start == Fifo!ResponseStartValid
      ready == PcsTx!FrameStartReady
  IN  /\ Generator!Clock(start, ready, Fifo!ReadData)
      /\ PcsTx!Clock(Generator!Beat(start, ready))
      /\ RecordSent
      /\ RecordIdle

Read ==
  \/ Generator!StartEventAccepted(Fifo!ResponseStartValid, PcsTx!FrameStartReady)
  \/ Generator!DecisionReady(Fifo!DecisionValid)

Cycle(receive_step, write, event) ==
  /\ receive_step
  /\ rx_phase' = (rx_phase + 1) % (PauseSequence + 1)
  /\ Fifo!Clock(write, event, Read)
  /\ Transmit

Init ==
  /\ Fifo!Init /\ Generator!Init /\ PcsTx!Init
  /\ rx_phase = 0 /\ wire_bytes = OrderWireBytes /\ orders = 0 /\ deciding = 0
  /\ sent = << >> /\ idle_run = 2

OrderCycle == \E ok \in BOOLEAN : Cycle(DecodeOrder, TRUE, EventWith(ok))

QuietCycle == \E ok \in BOOLEAN : Cycle(NoOrder, Decided, EventWith(ok))

Next == OrderCycle \/ QuietCycle

(* Both clocks run for ever.                                               *)
Spec == Init /\ [][Next]_vars /\ WF_vars(Next)

-----------------------------------------------------------------------------
TypeOK ==
  /\ Generator!TypeOK /\ PcsTx!TypeOK
  /\ Len(fifo) <= FifoDepth
  /\ orders \in 0 .. OrderLimit

(***************************************************************************)
(* The prefix of a response is sent before its decision exists; when the   *)
(* payload beats come, the decision of the same order stands at the head   *)
(* of the FIFO and stays there to the end of the frame                     *)
(* (order_decision_frame_generator.sv: beats 6 to 10).                     *)
(***************************************************************************)
PayloadIsOwnDecision ==
  frame_beat_index >= Generator!FirstPayloadBeat =>
    Fifo!DecisionValid /\ Fifo!ReadData.order = frame_order

(***************************************************************************)
(* Responses answer the orders one by one and in order, each with one      *)
(* decision and one verdict for the FCS.                                   *)
(***************************************************************************)
AnswersInOrder ==
  \A i \in DOMAIN sent :
    /\ sent[i].order = i
    /\ \E ok \in BOOLEAN : sent[i].fields = {[kind |-> "DECISION", order |-> i, ok |-> ok]}

(***************************************************************************)
(* What leaves on the line is whole frames: START, data without a hole     *)
(* and TERM, then at least two idle blocks, as the 12-byte interpacket gap *)
(* needs after TERM_6, also when the gearbox pauses in the middle of a     *)
(* frame (pcs_tx_channel.sv, buffered_blocks and inter_frame_gap_pending). *)
(***************************************************************************)
LineWellFormed ==
  [][PcsTx!AdvanceTransmitBlock =>
       CASE line = "idle"  -> line' = "idle" \/ (line' = "start" /\ idle_run = 2)
         [] line = "start" -> line' = "data"
         [] line = "data"  -> line' \in {"data", "end"}
         [] line = "end"   -> line' = "idle"]_vars

(***************************************************************************)
(* Every order is answered: the FPGA returns one ORDER_DECISION for each   *)
(* ORDER_INTENT (fpga_architecture_v0.md).                                 *)
(***************************************************************************)
EveryOrderAnswered == \A n \in 1 .. OrderLimit : orders >= n ~> Len(sent) >= n
=============================================================================
