-------------------------- MODULE SymbolStateStore --------------------------
(***************************************************************************)
(* src/fpga/rtl/state/symbol_state_store.sv: per-symbol market state and   *)
(* risk limits in block RAM, one write port, a one-cycle lookup, and the   *)
(* sweep that clears every address after reset or RESET_ALL.  The parallel *)
(* memories are one function from addresses to records.                    *)
(***************************************************************************)
EXTENDS Integers

CONSTANTS
  SymbolCount,   \* 2^14 in the RTL; larger symbol ids are out of range
  WordModulus,   \* 2^32: weight of the upper word of the notional limit
  Leftovers      \* entries that block RAM may hold at power-up

Address == 0 .. SymbolCount - 1

(* The decoded message types and opcodes this component reads.             *)
TOB_UPDATE     == 2
SYMBOL_STATUS  == 3
ORDER_INTENT   == 4
CONFIG_CONTROL == 5

CONFIG_RESET_ALL            == 1
CONFIG_RESET_SYMBOL         == 2
CONFIG_SET_SYMBOL_ENABLED   == 3
CONFIG_SET_MAX_ORDER_QTY    == 4
CONFIG_SET_MAX_NOTIONAL     == 5
CONFIG_SET_PRICE_BAND_TICKS == 6

(* The state groups of a reset mask, bit 0 first.                          *)
Groups == {"top_of_book", "status", "enable", "limits"}
GroupOfBit == << "top_of_book", "status", "enable", "limits" >>

Entry ==
  [symbol_known: BOOLEAN, symbol_enabled: BOOLEAN, symbol_status: 0 .. 7,
   bid_valid: BOOLEAN, ask_valid: BOOLEAN, bid_price: Nat, ask_price: Nat,
   max_order_quantity: Nat, max_notional: Nat, max_price_band_ticks: Nat]

ClearedEntry ==
  [symbol_known |-> FALSE, symbol_enabled |-> FALSE, symbol_status |-> 0,
   bid_valid |-> FALSE, ask_valid |-> FALSE, bid_price |-> 0, ask_price |-> 0,
   max_order_quantity |-> 0, max_notional |-> 0, max_price_band_ticks |-> 0]

VARIABLES
  memory,              \* not reset: the sweep clears it
  state_clear_busy, clear_address, clear_mask,
  lookup_valid, lookup

vars == << memory, state_clear_busy, clear_address, clear_mask, lookup_valid, lookup >>

(* What rst leaves in the registers.                                       *)
ResetRegisters ==
  /\ state_clear_busy' = TRUE
  /\ clear_address' = 0
  /\ clear_mask' = Groups
  /\ lookup_valid' = FALSE
  /\ lookup' = ClearedEntry

Init ==
  /\ memory \in [Address -> Leftovers]
  /\ state_clear_busy = TRUE
  /\ clear_address = 0
  /\ clear_mask = Groups
  /\ lookup_valid = FALSE
  /\ lookup = ClearedEntry

-----------------------------------------------------------------------------
(* An entry with the groups of a mask cleared.                             *)
Clear(entry, mask) ==
  LET From(group) == IF group \in mask THEN ClearedEntry ELSE entry
  IN  [symbol_known         |-> From("enable").symbol_known,
       symbol_enabled       |-> From("enable").symbol_enabled,
       symbol_status        |-> From("status").symbol_status,
       bid_valid            |-> From("top_of_book").bid_valid,
       ask_valid            |-> From("top_of_book").ask_valid,
       bid_price            |-> From("top_of_book").bid_price,
       ask_price            |-> From("top_of_book").ask_price,
       max_order_quantity   |-> From("limits").max_order_quantity,
       max_notional         |-> From("limits").max_notional,
       max_price_band_ticks |-> From("limits").max_price_band_ticks]

(* requested_state_groups_to_clear: mask 0 asks for everything.            *)
RequestedGroups(m) ==
  IF m.payload_1 = 0 THEN Groups
  ELSE {GroupOfBit[i] : i \in {j \in 1 .. 4 : (m.payload_1 \div 2^(j - 1)) % 2 = 1}}

ConfigWrite(entry, m) ==
  CASE m.payload_0 = CONFIG_RESET_SYMBOL -> Clear(entry, RequestedGroups(m))
    [] m.payload_0 = CONFIG_SET_SYMBOL_ENABLED ->
         [entry EXCEPT !.symbol_known = TRUE, !.symbol_enabled = (m.payload_1 % 2 = 1)]
    [] m.payload_0 = CONFIG_SET_MAX_ORDER_QTY ->
         [entry EXCEPT !.max_order_quantity = m.payload_1]
    [] m.payload_0 = CONFIG_SET_MAX_NOTIONAL ->
         [entry EXCEPT !.max_notional = m.payload_1 * WordModulus + m.payload_2]
    [] m.payload_0 = CONFIG_SET_PRICE_BAND_TICKS ->
         [entry EXCEPT !.max_price_band_ticks = m.payload_1]
    [] OTHER -> entry

MessageWrite(entry, m) ==
  CASE m.type = TOB_UPDATE ->
         [entry EXCEPT !.bid_valid = (m.flags % 2 = 1),
                       !.ask_valid = ((m.flags \div 2) % 2 = 1),
                       !.bid_price = m.payload_0, !.ask_price = m.payload_2]
    [] m.type = SYMBOL_STATUS  -> [entry EXCEPT !.symbol_status = m.payload_0 % 8]
    [] m.type = CONFIG_CONTROL -> ConfigWrite(entry, m)
    [] OTHER -> entry

InRange(m) == m.symbol_id < SymbolCount

-----------------------------------------------------------------------------
(* Mutant: the last address is not cleared. *)
SweepAllButLast ==
  /\ state_clear_busy
  /\ memory' = [memory EXCEPT ![clear_address] = Clear(@, clear_mask)]
  /\ state_clear_busy' = (clear_address < SymbolCount - 2)
  /\ clear_address' = IF clear_address < SymbolCount - 2 THEN clear_address + 1 ELSE 0
  /\ UNCHANGED clear_mask

(* The write port serves the sweep; a message that arrives meanwhile is    *)
(* dropped, RESET_ALL included.                                            *)
Sweep ==
  /\ state_clear_busy
  /\ memory' = [memory EXCEPT ![clear_address] = Clear(@, clear_mask)]
  /\ state_clear_busy' = (clear_address # SymbolCount - 1)
  /\ clear_address' = IF clear_address = SymbolCount - 1 THEN 0 ELSE clear_address + 1
  /\ UNCHANGED clear_mask

IsResetAll(m) == m.type = CONFIG_CONTROL /\ m.payload_0 = CONFIG_RESET_ALL

(* Mutant: a RESET_ALL restarts the sweep. *)
RestartSweep(message_valid, m) ==
  /\ message_valid /\ IsResetAll(m)
  /\ state_clear_busy' = TRUE
  /\ clear_address' = 0
  /\ clear_mask' = RequestedGroups(m)
  /\ UNCHANGED memory

StartSweep(message_valid, m) ==
  /\ ~state_clear_busy /\ message_valid /\ IsResetAll(m)
  /\ state_clear_busy' = TRUE
  /\ clear_address' = 0
  /\ clear_mask' = RequestedGroups(m)
  /\ UNCHANGED memory

Write(message_valid, m) ==
  /\ ~state_clear_busy /\ message_valid /\ ~IsResetAll(m)
  /\ memory' = IF InRange(m)
                 THEN [memory EXCEPT ![m.symbol_id] = MessageWrite(@, m)]
                 ELSE memory
  /\ UNCHANGED << state_clear_busy, clear_address, clear_mask >>

NoMessage(message_valid) ==
  /\ ~state_clear_busy /\ ~message_valid
  /\ UNCHANGED << memory, state_clear_busy, clear_address, clear_mask >>

(* Mutant: a lookup reads the memory during the sweep. *)
LookupDuringSweep(message_valid, m) ==
  LET order == message_valid /\ m.type = ORDER_INTENT
  IN  /\ lookup_valid' = order
      /\ lookup' = IF order /\ InRange(m) THEN memory[m.symbol_id] ELSE ClearedEntry

(* A lookup during the sweep, or of an unknown address, finds nothing.     *)
(* lookup is read only under lookup_valid; the model forgets it else.      *)
Lookup(message_valid, m) ==
  LET order == message_valid /\ m.type = ORDER_INTENT
  IN  /\ lookup_valid' = order
      /\ lookup' = IF order /\ ~state_clear_busy /\ InRange(m)
                     THEN memory[m.symbol_id] ELSE ClearedEntry

Clock(message_valid, m) ==
  /\ Lookup(message_valid, m)
  /\ \/ Sweep
     \/ StartSweep(message_valid, m)
     \/ Write(message_valid, m)
     \/ NoMessage(message_valid)

(* rst: the write enables are held off, so the memory keeps its contents.  *)
Reset == ResetRegisters /\ UNCHANGED memory

=============================================================================
