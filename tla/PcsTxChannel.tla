---------------------------- MODULE PcsTxChannel ----------------------------
(***************************************************************************)
(* src/fpga/rtl/pcs/pcs_tx_channel.sv: turns frame beats into blocks, with *)
(* two buffer entries that absorb the cycle in which the GT gearbox takes  *)
(* no block, and at least one idle block after a frame.  Bit order,        *)
(* scrambling and the byte carried from beat to beat are left out.         *)
(***************************************************************************)
EXTENDS Naturals, Sequences

CONSTANT PauseSequence    \* GEARBOX_PAUSE_SEQUENCE, 32 in the RTL

VARIABLES
  frame_active, buffered_blocks, gearbox_sequence, inter_frame_gap_pending,
  line      \* the block sent last; the scrambled tx_data stands for it

vars == << frame_active, buffered_blocks, gearbox_sequence,
           inter_frame_gap_pending, line >>

TypeOK ==
  /\ frame_active \in BOOLEAN
  /\ buffered_blocks \in Seq({"start", "data", "end"}) /\ Len(buffered_blocks) <= 2
  /\ gearbox_sequence \in 0 .. PauseSequence
  /\ inter_frame_gap_pending \in BOOLEAN
  /\ line \in {"idle", "start", "data", "end"}

(* The gearbox counter starts at 0; the phase against the RX clock is free.*)
Init ==
  /\ frame_active = FALSE
  /\ buffered_blocks = << >>
  /\ gearbox_sequence \in 0 .. PauseSequence
  /\ inter_frame_gap_pending = FALSE
  /\ line = "idle"

-----------------------------------------------------------------------------
AdvanceTransmitBlock == gearbox_sequence # PauseSequence

(* Mutant: a frame may start before the gap was sent. *)
FrameStartReadyNoGap ==
  ~frame_active /\ buffered_blocks = << >> /\ AdvanceTransmitBlock

(* Mutant: a frame may start while blocks are buffered. *)
FrameStartReadyBuffered == ~frame_active /\ ~inter_frame_gap_pending

FrameStartReady ==
  /\ ~frame_active /\ buffered_blocks = << >>
  /\ ~inter_frame_gap_pending /\ AdvanceTransmitBlock

RemoveBufferedBlock == AdvanceTransmitBlock /\ buffered_blocks # << >>

(* The block encoded from a beat, or none.                                 *)
EncodedBlocks(beat) ==
  IF (beat = "start" /\ FrameStartReady) \/ (frame_active /\ beat \in {"data", "end"})
    THEN << beat >> ELSE << >>

-----------------------------------------------------------------------------
Encode(beat) ==
  /\ frame_active' = CASE EncodedBlocks(beat) = << >>      -> frame_active
                       [] EncodedBlocks(beat) = << "end" >> -> FALSE
                       [] OTHER                             -> TRUE
  /\ buffered_blocks' =
       (IF RemoveBufferedBlock THEN Tail(buffered_blocks) ELSE buffered_blocks)
         \o EncodedBlocks(beat)

Transmit ==
  /\ gearbox_sequence' = (gearbox_sequence + 1) % (PauseSequence + 1)
  /\ line' = CASE ~AdvanceTransmitBlock -> line
               [] RemoveBufferedBlock   -> buffered_blocks[1]
               [] OTHER                 -> "idle"
  /\ inter_frame_gap_pending' =
       CASE RemoveBufferedBlock -> buffered_blocks[1] = "end" \/ inter_frame_gap_pending
         [] AdvanceTransmitBlock /\ ~RemoveBufferedBlock -> FALSE
         [] OTHER -> inter_frame_gap_pending

Clock(beat) == Encode(beat) /\ Transmit

=============================================================================
