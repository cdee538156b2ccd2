-------------------------- MODULE PcsRxDescrambler --------------------------
(***************************************************************************)
(* src/fpga/rtl/pcs/pcs_rx_descrambler.sv: each block is descrambled with  *)
(* the last 58 bits of the block before it.  Of rx_lfsr the model keeps    *)
(* whether it still holds the block that came immediately before on the    *)
(* line; only then, and at the right block boundary, is the output right.  *)
(***************************************************************************)

VARIABLES
  rx_lfsr,              \* "latest" block on the line, or a "stale" one
  sync_pending,
  descrambled_payload_valid,
  descrambled_payload   \* "right" or "wrong"

vars == << rx_lfsr, sync_pending, descrambled_payload_valid, descrambled_payload >>

(* rx_lfsr and the output have no reset value.                             *)
Init ==
  /\ rx_lfsr = "stale"
  /\ sync_pending = TRUE
  /\ descrambled_payload_valid = FALSE
  /\ descrambled_payload = "wrong"

-----------------------------------------------------------------------------
(* Mutant: loss of lock does not ask for a new synchronisation. *)
UnlockedKeepsSync(block_lock, moved) ==
  /\ ~block_lock
  /\ descrambled_payload_valid' = FALSE
  /\ rx_lfsr' = IF moved THEN "stale" ELSE rx_lfsr
  /\ UNCHANGED << sync_pending, descrambled_payload >>

(* moved: a block went by on the line or the boundary shifted.             *)
Unlocked(block_lock, moved) ==
  /\ ~block_lock
  /\ sync_pending' = TRUE
  /\ descrambled_payload_valid' = FALSE
  /\ rx_lfsr' = IF moved THEN "stale" ELSE rx_lfsr
  /\ UNCHANGED descrambled_payload

Synchronise(block_lock, block_valid) ==
  /\ block_lock /\ block_valid /\ sync_pending
  /\ sync_pending' = FALSE
  /\ descrambled_payload_valid' = FALSE
  /\ rx_lfsr' = "latest"
  /\ UNCHANGED descrambled_payload

Descramble(block_lock, block_valid, aligned) ==
  /\ block_lock /\ block_valid /\ ~sync_pending
  /\ descrambled_payload_valid' = TRUE
  /\ descrambled_payload' =
       IF rx_lfsr = "latest" /\ aligned THEN "right" ELSE "wrong"
  /\ rx_lfsr' = "latest"
  /\ UNCHANGED sync_pending

Wait(block_lock, block_valid, moved) ==
  /\ block_lock /\ ~block_valid
  /\ descrambled_payload_valid' = FALSE
  /\ rx_lfsr' = IF moved THEN "stale" ELSE rx_lfsr
  /\ UNCHANGED << sync_pending, descrambled_payload >>

Clock(block_lock, block_valid, moved, aligned) ==
  \/ Unlocked(block_lock, moved)
  \/ Synchronise(block_lock, block_valid)
  \/ Descramble(block_lock, block_valid, aligned)
  \/ Wait(block_lock, block_valid, moved)

Reset ==
  /\ sync_pending' = TRUE
  /\ descrambled_payload_valid' = FALSE
  /\ rx_lfsr' = "stale"
  /\ UNCHANGED descrambled_payload

=============================================================================
