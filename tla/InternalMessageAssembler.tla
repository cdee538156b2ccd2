---------------------- MODULE InternalMessageAssembler ----------------------
(***************************************************************************)
(* src/fpga/rtl/protocol/internal_message_assembler.sv: groups four UDP    *)
(* payload words into one message.  The words themselves are left out: the *)
(* content of a message is decided by the module that composes this one.   *)
(* Inputs are the strobes of EthIpv4UdpRx in a record u.                   *)
(***************************************************************************)
EXTENDS Naturals

VARIABLES word_index, current_message_is_packet_start

vars == << word_index, current_message_is_packet_start >>

Init ==
  /\ word_index = 0
  /\ current_message_is_packet_start = FALSE

-----------------------------------------------------------------------------
(* Mutant: only the low bit of the word index is compared. *)
MessageValidLowBit(u) == u.valid /\ ~u.abort /\ word_index % 2 = 1

(* Combinational outputs.                                                  *)
MessageValid(u) == u.valid /\ ~u.abort /\ word_index = 3

MessagePacketStart(u) == MessageValid(u) /\ current_message_is_packet_start

MessagePacketEnd(u) == MessageValid(u) /\ u.end

-----------------------------------------------------------------------------
Restart(u) ==
  /\ u.abort
  /\ word_index' = 0
  /\ current_message_is_packet_start' = FALSE

(* The start mark of the first word is kept until the fourth.              *)
TakeWord(u) ==
  /\ ~u.abort /\ u.valid
  /\ word_index' = (word_index + 1) % 4
  /\ current_message_is_packet_start' =
       CASE word_index = 0 -> u.start
         [] word_index = 3 -> FALSE
         [] OTHER          -> current_message_is_packet_start

Hold(u) == ~u.abort /\ ~u.valid /\ UNCHANGED vars

Clock(u) == Restart(u) \/ TakeWord(u) \/ Hold(u)

=============================================================================
