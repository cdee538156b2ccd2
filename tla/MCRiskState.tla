---------------------------- MODULE MCRiskState ----------------------------
(* Bounds for RiskState: one traded symbol between address 0 and the last  *)
(* address, of which only a status comes, and one id beyond it; limits and *)
(* prices on both sides of each comparison.                                *)
EXTENDS RiskState

CONSTANT PartialResets    \* the host sends RESET_ALL with a mask too

M(type, flags, symbol, p0, p1, p2) ==
  [type |-> type, flags |-> flags, symbol_id |-> symbol,
   payload_0 |-> p0, payload_1 |-> p1, payload_2 |-> p2, payload_3 |-> 0]

Config(symbol, opcode, v0, v1) == M(5, 0, symbol, opcode, v0, v1)

Sessions == {M(1, 0, 0, 3, 0, 0), M(1, 0, 0, 4, 0, 0)}
Books    == {M(2, 3, 1, 2, 0, 3), M(2, 1, 1, 2, 0, 0), M(2, 3, 3, 2, 0, 3)}
Statuses == {M(3, 0, 1, 4, 0, 0), M(3, 0, 2, 4, 0, 0)}
Limits   == {Config(1, 3, 1, 0), Config(1, 3, 0, 0), Config(1, 4, 2, 0),
             Config(1, 5, 1, 2), Config(1, 6, 1, 0)}
Resets   == {Config(0, 1, 0, 0), Config(1, 2, 0, 0), Config(1, 2, 5, 0)}
Partials == IF PartialResets THEN {Config(0, 1, 1, 0)} ELSE {}
Intent(symbol, side, price, quantity) == M(4, 0, symbol, side, price, quantity)
Buys     == {Intent(1, 1, 4, 1), Intent(1, 1, 5, 1), Intent(1, 1, 3, 2), Intent(1, 1, 4, 2),
             Intent(1, 1, 1, 3), Intent(1, 1, 3, 0)}
Sells    == {Intent(1, 2, 1, 1), Intent(1, 2, 0, 1)}
Orders   == Buys \cup Sells \cup {Intent(1, 0, 3, 1), Intent(3, 1, 3, 1)}

(* A cleared entry, and one that an earlier run has left.                  *)
LeftEntry(known, status, bid, notional) ==
  [symbol_known |-> known, symbol_enabled |-> FALSE, symbol_status |-> status,
   bid_valid |-> bid, ask_valid |-> FALSE, bid_price |-> 0, ask_price |-> 0,
   max_order_quantity |-> 0, max_notional |-> notional, max_price_band_ticks |-> 0]

MCLeftovers == {LeftEntry(FALSE, 0, FALSE, 0), LeftEntry(TRUE, 4, TRUE, 1)}

MCMessages == Sessions \cup Books \cup Statuses \cup Limits \cup Resets \cup Partials \cup Orders
=============================================================================
