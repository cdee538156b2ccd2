----------------------------- MODULE RiskPolicy -----------------------------
(***************************************************************************)
(* What the risk path promises (internal_protocol_v0.md): a book of what   *)
(* is known of each symbol, changed by each message at once, and one       *)
(* answer for each order, ACCEPT exactly when the book allows the order.   *)
(* While the store is clearing, messages to it are ignored and an order    *)
(* may be refused whatever the book says, never accepted against it.       *)
(***************************************************************************)
EXTENDS Integers

CONSTANTS Symbols, Cleared, Messages, NoMessage,
          Apply(_, _),      \* the entry after a message about its symbol
          ClearGroups(_, _), ResetGroups(_),
          IsResetAll(_), IsFullReset(_), IsSessionStatus(_), IsOrder(_)

VARIABLES book, market_open, clearing, pending, answer

vars == << book, market_open, clearing, pending, answer >>

Init ==
  /\ book = [s \in Symbols |-> Cleared]
  /\ market_open = FALSE
  /\ clearing = TRUE
  /\ pending = "none"
  /\ answer = "none"

-----------------------------------------------------------------------------
PriceAllowed(o, e) ==
  \/ o.payload_0 = 1 /\ e.ask_valid /\ o.payload_1 <= e.ask_price + e.max_price_band_ticks
  \/ o.payload_0 = 2 /\ e.bid_valid /\ o.payload_1 + e.max_price_band_ticks >= e.bid_price

Acceptable(o) ==
  /\ market_open
  /\ o.symbol_id \in Symbols
  /\ LET e == book[o.symbol_id]
     IN  /\ e.symbol_known /\ e.symbol_enabled /\ e.symbol_status = 4
         /\ o.payload_1 > 0 /\ o.payload_2 > 0
         /\ PriceAllowed(o, e)
         /\ o.payload_2 <= e.max_order_quantity
         /\ o.payload_1 * o.payload_2 <= e.max_notional

-----------------------------------------------------------------------------
(* One answer follows each order; refused says that the stream is faulted  *)
(* or the order malformed.                                                 *)
AnswerOrder(m, refused) ==
  /\ answer' = pending
  /\ IF IsOrder(m)
       THEN \/ pending' = IF ~refused /\ Acceptable(m) THEN "ACCEPT" ELSE "REJECT"
            \/ clearing /\ pending' = "REJECT"
       ELSE pending' = "none"

SessionMessage(m) ==
  market_open' = IF IsFullReset(m) THEN FALSE
                 ELSE IF IsSessionStatus(m) THEN m.payload_0 = 3 ELSE market_open

BookMessage(m) ==
  /\ ~clearing
  /\ IF IsResetAll(m)
       THEN book' = [s \in Symbols |-> ClearGroups(book[s], ResetGroups(m))]
       ELSE book' = [s \in Symbols |->
                       IF s = m.symbol_id THEN Apply(book[s], m) ELSE book[s]]
  /\ clearing' = IsResetAll(m)

WhileClearing ==
  /\ clearing
  /\ clearing' \in BOOLEAN
  /\ UNCHANGED book

Take(m, refused) ==
  /\ AnswerOrder(m, refused)
  /\ SessionMessage(m)
  /\ BookMessage(m) \/ WhileClearing

LinkReset ==
  /\ book' = [s \in Symbols |-> Cleared]
  /\ market_open' = FALSE
  /\ clearing' = TRUE
  /\ pending' = "none"
  /\ answer' = "none"

Next == LinkReset \/ \E m \in Messages \cup {NoMessage}, refused \in BOOLEAN : Take(m, refused)

Spec == Init /\ [][Next]_vars
=============================================================================
