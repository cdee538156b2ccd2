----------------------------- MODULE RiskState -----------------------------
(***************************************************************************)
(* symbol_state_store, market_hours_tracker and order_risk_engine wired as *)
(* in src/fpga/rtl/xem8320_top.sv, driven by decoded messages.  The state  *)
(* of the stream (effective_stream_fault) and the format of an order       *)
(* (protocol_error) are inputs of each cycle.                              *)
(***************************************************************************)
EXTENDS Integers

CONSTANTS
  SymbolCount, WordModulus, Leftovers,
  Messages,      \* decoded messages
  ResetLimit     \* bound: losses of the receive link

ASSUME StoreAssumption ==
  /\ SymbolCount \in Nat \ {0}
  /\ WordModulus \in Nat \ {0}
  /\ ResetLimit \in Nat

(* The decoder passes on no session state above 6.                         *)
ASSUME MessageAssumption ==
  \A m \in Messages :
    /\ m \in [type: Nat, flags: Nat, symbol_id: Nat,
              payload_0: Nat, payload_1: Nat, payload_2: Nat, payload_3: Nat]
    /\ m.type = 1 => m.payload_0 <= 6

VARIABLES
  memory, state_clear_busy, clear_address, clear_mask, lookup_valid, lookup,
  market_hours_active,
  pending_order, decision_valid, decision,
  resets_left,
  stale          \* history: state groups written before the last full reset or power-up

Store == INSTANCE SymbolStateStore
Hours == INSTANCE MarketHoursTracker
Risk  == INSTANCE OrderRiskEngine

ASSUME LeftoversAssumption == Leftovers \subseteq Store!Entry

vars == << Store!vars, Hours!vars, Risk!vars, resets_left, stale >>

SESSION_STATUS == 1
NoMessage == [type |-> 0, flags |-> 0, symbol_id |-> SymbolCount,
              payload_0 |-> 0, payload_1 |-> 0, payload_2 |-> 0, payload_3 |-> 0]

-----------------------------------------------------------------------------
IsFullReset(m) == Store!IsResetAll(m) /\ m.payload_1 = 0
IsSessionStatus(m) == m.type = SESSION_STATUS
IsOrder(m) == m.type = Store!ORDER_INTENT

Order(m, fault, violation) ==
  [side |-> m.payload_0, price |-> m.payload_1, quantity |-> m.payload_2,
   intent_id |-> m.payload_3, sequence_number |-> 0, symbol_id |-> m.symbol_id,
   stream_fault |-> fault, protocol_violation |-> violation,
   market_hours_active |-> market_hours_active]

(* A full RESET_ALL makes all that is stored stale, until it is cleared or *)
(* written again.  Limits share a group: only clearing renews them.        *)
Rewritten(m) ==
  {<< m.symbol_id, g >> : g \in
     IF state_clear_busy THEN {}
     ELSE CASE m.type = Store!TOB_UPDATE     -> {"top_of_book"}
            [] m.type = Store!SYMBOL_STATUS  -> {"status"}
            [] m.type = Store!CONFIG_CONTROL /\ m.payload_0 = Store!CONFIG_SET_SYMBOL_ENABLED
                                             -> {"enable"}
            [] OTHER                         -> {}}

Stored == {x \in Store!Address \X Store!Groups :
             Store!Clear(memory[x[1]], {x[2]}) # memory[x[1]]}

RecordStale(m) ==
  stale' = Stored' \cap IF IsFullReset(m) THEN Store!Address \X Store!Groups
                        ELSE stale \ Rewritten(m)

(* Decoded messages are at least four cycles apart, so an order is decided *)
(* before the next message comes.                                          *)
Settled == ~lookup_valid /\ ~decision_valid

Tick(m, fault, violation) ==
  LET valid == m # NoMessage
  IN  /\ valid => Settled
      /\ Store!Clock(valid, m)
      /\ Hours!Clock(valid /\ IsSessionStatus(m), m.payload_0 % 8, valid /\ IsFullReset(m))
      /\ Risk!Clock(valid /\ IsOrder(m), Order(m, fault, violation), lookup_valid, lookup)
      /\ RecordStale(m)
      /\ UNCHANGED resets_left

(* rx_pcs_rst: the receive link was lost and is up again.                  *)
LinkReset ==
  /\ resets_left > 0
  /\ resets_left' = resets_left - 1
  /\ Store!Reset /\ Hours!Reset /\ Risk!Reset
  /\ stale' = Stored

Init ==
  /\ Store!Init /\ Hours!Init /\ Risk!Init
  /\ resets_left = ResetLimit
  /\ stale = Stored

(* Only an order reads the fault and violation inputs.                     *)
Next ==
  \/ LinkReset
  \/ Tick(NoMessage, FALSE, FALSE)
  \/ \E m \in Messages, fault, violation \in BOOLEAN :
       /\ fault \/ violation => IsOrder(m) /\ ~(fault /\ violation)
       /\ Tick(m, fault, violation)

(* The clock does not stop.                                                *)
Spec == Init /\ [][Next]_vars /\ WF_vars(Tick(NoMessage, FALSE, FALSE))

-----------------------------------------------------------------------------
(***************************************************************************)
(* After a full RESET_ALL nothing written before it can be looked up: once *)
(* the sweep is over no such state is left at any address                  *)
(* (internal_protocol_v0.md, reset_mask = 0 performs a full reset).        *)
(***************************************************************************)
NoStaleState == ~state_clear_busy => stale = {}

(***************************************************************************)
(* Store, session tracker and risk engine together answer each order as    *)
(* the policy says, with every message applied at once: the sweep of many  *)
(* cycles, the lookup and the registered decision show nothing in between. *)
(***************************************************************************)
Verdict ==
  IF ~lookup_valid THEN "none"
  ELSE IF Risk!SelectedRejectReason(pending_order, lookup) = "NONE" THEN "ACCEPT" ELSE "REJECT"

Policy == INSTANCE RiskPolicy
            WITH Symbols <- Store!Address, Cleared <- Store!ClearedEntry,
                 Apply <- Store!MessageWrite, ClearGroups <- Store!Clear,
                 ResetGroups <- Store!RequestedGroups, IsResetAll <- Store!IsResetAll,
                 book <- [a \in Store!Address |->
                            IF state_clear_busy THEN Store!Clear(memory[a], clear_mask)
                                                ELSE memory[a]],
                 market_open <- market_hours_active,
                 clearing <- state_clear_busy,
                 pending <- Verdict,
                 answer <- IF decision_valid THEN decision.decision ELSE "none"

ImplementsRiskPolicy == Policy!Spec

(***************************************************************************)
(* The sweep always ends, also when RESET_ALL messages keep coming and the *)
(* link is lost now and then: the store does not stay closed for ever.     *)
(***************************************************************************)
ClearingEnds == state_clear_busy ~> ~state_clear_busy
=============================================================================
