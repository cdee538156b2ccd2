-------------------- MODULE OrderDecisionFrameGenerator --------------------
(***************************************************************************)
(* src/fpga/rtl/eth/order_decision_frame_generator.sv: starts a response   *)
(* frame on a START event and fills in the decision from the head of the   *)
(* FIFO while the last beats are sent.  Header constants and the CRC are   *)
(* left out; a bad FCS is the flag ok of the frame.                        *)
(***************************************************************************)
EXTENDS Naturals

FINAL_FRAME_BEAT == 10
(* Mutant: the payload is sent three beats early. *)
EarlyPayloadBeat == 3

FirstPayloadBeat == 6     \* the beat with the first bytes of the decision

VARIABLES
  frame_beat_index,
  frame_order,      \* history: the order whose START began the frame
  frame_fields      \* history: the FIFO heads the payload was taken from

vars == << frame_beat_index, frame_order, frame_fields >>

TypeOK == frame_beat_index \in 0 .. FINAL_FRAME_BEAT

Init ==
  /\ frame_beat_index = 0
  /\ frame_order = 0
  /\ frame_fields = {}

-----------------------------------------------------------------------------
ResponseStartReady(frame_start_ready) == frame_beat_index = 0 /\ frame_start_ready

StartEventAccepted(start_valid, frame_start_ready) ==
  start_valid /\ ResponseStartReady(frame_start_ready)

(* Mutant: the decision is popped before the last beat. *)
DecisionReadyEarly(decision_valid) ==
  frame_beat_index = FINAL_FRAME_BEAT - 1 /\ decision_valid

(* Mutant: the decision is never popped. *)
DecisionReadyNever(decision_valid) == FALSE

DecisionReady(decision_valid) == frame_beat_index = FINAL_FRAME_BEAT /\ decision_valid

(* The beat given to the PCS.                                              *)
Beat(start_valid, frame_start_ready) ==
  IF frame_beat_index # 0 THEN IF frame_beat_index = FINAL_FRAME_BEAT THEN "end" ELSE "data"
  ELSE IF StartEventAccepted(start_valid, frame_start_ready) THEN "start" ELSE "none"

-----------------------------------------------------------------------------
Idle(start_valid, frame_start_ready) ==
  /\ frame_beat_index = 0 /\ ~StartEventAccepted(start_valid, frame_start_ready)
  /\ UNCHANGED vars

Start(start_valid, frame_start_ready, head) ==
  /\ StartEventAccepted(start_valid, frame_start_ready)
  /\ frame_beat_index' = 1
  /\ frame_order' = head.order
  /\ frame_fields' = {}

(* Beats 6 to 10 carry whatever stands at the head of the FIFO.            *)
Send(head) ==
  /\ frame_beat_index # 0
  /\ frame_beat_index' = (frame_beat_index + 1) % (FINAL_FRAME_BEAT + 1)
  /\ frame_fields' = IF frame_beat_index < FirstPayloadBeat THEN frame_fields
                     ELSE frame_fields \cup {[kind |-> head.kind, order |-> head.order,
                                              ok |-> head.ok]}
  /\ UNCHANGED frame_order

Clock(start_valid, frame_start_ready, head) ==
  \/ Idle(start_valid, frame_start_ready)
  \/ Start(start_valid, frame_start_ready, head)
  \/ Send(head)

=============================================================================
