-------------------------- MODULE OrderRiskEngine --------------------------
(***************************************************************************)
(* src/fpga/rtl/risk/order_risk_engine.sv: captures an order with the      *)
(* stream and session state of its cycle, and decides it one cycle later   *)
(* against the looked-up symbol state.  The RTL widens prices to 33 bits   *)
(* and the notional to 64 bits, so that no sum or product wraps; unbounded *)
(* integers say the same.                                                  *)
(***************************************************************************)
EXTENDS Integers

ORDER_SIDE_BUY        == 1
ORDER_SIDE_SELL       == 2
SYMBOL_STATUS_TRADING == 4

VARIABLES
  pending_order,      \* captured fields and the notional, or NoOrder
  decision_valid,
  decision            \* the registered answer, or NoDecision

vars == << pending_order, decision_valid, decision >>

NoOrder    == [intent_id |-> 0]
NoDecision == [decision |-> "NONE", intent_id |-> 0]

Init ==
  /\ pending_order = NoOrder
  /\ decision_valid = FALSE
  /\ decision = NoDecision

-----------------------------------------------------------------------------
IsBuy(o)  == o.side = ORDER_SIDE_BUY
IsSell(o) == o.side = ORDER_SIDE_SELL

RequiredTobInvalid(o, l) ==
  \/ IsBuy(o) /\ ~l.ask_valid
  \/ IsSell(o) /\ ~l.bid_valid

OutsidePriceBand(o, l) ==
  \/ IsBuy(o) /\ o.price > l.ask_price + l.max_price_band_ticks
  \/ IsSell(o) /\ o.price + l.max_price_band_ticks < l.bid_price

(* The reject conditions in priority order.                                *)
RejectConditions(o, l) ==
  << [reason |-> "STREAM_FAULT",        holds |-> o.stream_fault],
     [reason |-> "PROTOCOL_VIOLATION",  holds |-> o.protocol_violation],
     [reason |-> "SESSION_NOT_TRADING", holds |-> ~o.market_hours_active],
     [reason |-> "UNKNOWN_SYMBOL",      holds |-> ~l.symbol_known],
     [reason |-> "SYMBOL_DISABLED",     holds |-> ~l.symbol_enabled],
     [reason |-> "SYMBOL_NOT_TRADING",  holds |-> l.symbol_status # SYMBOL_STATUS_TRADING],
     [reason |-> "INVALID_SIDE",        holds |-> ~IsBuy(o) /\ ~IsSell(o)],
     [reason |-> "ZERO_QUANTITY",       holds |-> o.quantity = 0],
     [reason |-> "ZERO_PRICE",          holds |-> o.price = 0],
     [reason |-> "TOB_INVALID",         holds |-> RequiredTobInvalid(o, l)],
     [reason |-> "MAX_QUANTITY",        holds |-> o.quantity > l.max_order_quantity],
     [reason |-> "PRICE_BAND",          holds |-> OutsidePriceBand(o, l)],
     [reason |-> "MAX_NOTIONAL",        holds |-> o.notional > l.max_notional] >>

SelectedRejectReason(o, l) ==
  LET c == RejectConditions(o, l)
      First == {i \in DOMAIN c : c[i].holds /\ \A j \in 1 .. i - 1 : ~c[j].holds}
  IN  IF First = {} THEN "NONE" ELSE c[CHOOSE i \in First : TRUE].reason

-----------------------------------------------------------------------------
(* The pending registers keep their order until the next one; they are     *)
(* read only in the cycle after the capture, so the model forgets them.    *)
Capture(order_valid, order) ==
  pending_order' = IF order_valid
                     THEN [side |-> order.side, price |-> order.price,
                           quantity |-> order.quantity,
                           intent_id |-> order.intent_id,
                           sequence_number |-> order.sequence_number,
                           symbol_id |-> order.symbol_id,
                           notional |-> order.price * order.quantity,
                           stream_fault |-> order.stream_fault,
                           protocol_violation |-> order.protocol_violation,
                           market_hours_active |-> order.market_hours_active]
                     ELSE NoOrder

Decide(lookup_valid, l) ==
  /\ decision_valid' = lookup_valid
  /\ decision' = IF lookup_valid
                   THEN LET reason == SelectedRejectReason(pending_order, l)
                        IN  [decision |-> IF reason = "NONE" THEN "ACCEPT" ELSE "REJECT",
                             reject_reason |-> reason,
                             sequence_number |-> pending_order.sequence_number,
                             symbol_id |-> pending_order.symbol_id,
                             intent_id |-> pending_order.intent_id]
                   ELSE NoDecision

Clock(order_valid, order, lookup_valid, l) ==
  Capture(order_valid, order) /\ Decide(lookup_valid, l)

Reset ==
  /\ pending_order' = NoOrder
  /\ decision_valid' = FALSE
  /\ decision' = NoDecision

=============================================================================
