------------------------- MODULE PcsRxBlockDecoder -------------------------
(***************************************************************************)
(* src/fpga/rtl/pcs/pcs_rx_block_decoder.sv: turns 64b/66b blocks into     *)
(* frame beats.  A block is its header and type class; of the payload only *)
(* the number of frame bytes it carries is kept ("keep", the population    *)
(* count of the contiguous frame_keep mask).  Malformed blocks are classes *)
(* of their own.                                                           *)
(***************************************************************************)
EXTENDS Naturals

Kinds == {"none", "data", "idle", "start_0", "start_4", "term",
          "bad_idle", "bad_start_4", "bad_term", "bad_type", "bad_header"}

(* Only a TERM_k block has a choice of k.                                  *)
Block == [kind: Kinds \ {"term"}, bytes: {0}] \cup [kind: {"term"}, bytes: 0 .. 7]

VARIABLE inside_frame

vars == inside_frame

Init == inside_frame = FALSE

-----------------------------------------------------------------------------
BadBlock(b) ==
  b.kind \in {"bad_idle", "bad_start_4", "bad_term", "bad_type", "bad_header"}

(* A block that is legal in itself but not where it stands.  A START_4 or  *)
(* TERM_k is only judged for position when its own format is right.        *)
SequenceError(b) ==
  \/ inside_frame /\ b.kind \in {"idle", "bad_idle", "start_0", "start_4", "bad_header"}
  \/ ~inside_frame /\ b.kind \in {"data", "term"}

FrameAbort(b) == inside_frame /\ (BadBlock(b) \/ SequenceError(b))

FrameStart(b) == ~inside_frame /\ b.kind \in {"start_0", "start_4"}

FrameEnd(b) == inside_frame /\ b.kind = "term"

(* START removes the control bytes: 7 or 3 frame bytes remain.             *)
Keep(b) ==
  CASE b.kind = "data"    -> 8
    [] b.kind = "start_0" -> 7
    [] b.kind = "start_4" -> 3
    [] OTHER              -> b.bytes

(* The combinational outputs for block b.                                  *)
Beat(b) ==
  LET valid == FrameStart(b) \/ FrameEnd(b) \/ (inside_frame /\ b.kind = "data")
  IN  [valid |-> valid, start |-> FrameStart(b), end |-> FrameEnd(b),
       keep |-> IF valid THEN Keep(b) ELSE 0, abort |-> FrameAbort(b)]

OpenFrame(b)  == FrameStart(b) /\ inside_frame' = TRUE
CloseFrame(b) == (FrameEnd(b) \/ FrameAbort(b)) /\ inside_frame' = FALSE
KeepFrame(b)  == /\ ~FrameStart(b) /\ ~FrameEnd(b) /\ ~FrameAbort(b)
                 /\ UNCHANGED inside_frame

Clock(b) == OpenFrame(b) \/ CloseFrame(b) \/ KeepFrame(b)

=============================================================================
