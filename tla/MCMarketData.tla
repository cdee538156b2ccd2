---------------------------- MODULE MCMarketData ----------------------------
(* Two traded symbols of four, the first with prices on both sides, the    *)
(* second with a bid only.                                                 *)
EXTENDS MarketData, TLC

CONSTANTS r1, r2, r3    \* order reference numbers

(* Two references share a bucket, and only that tells them apart.          *)
MCBucketFor(ref) == IF ref = r2 THEN 0 ELSE 1

MCSymmetry == Permutations({r1, r3})

Directory(locate) == [type |-> "R", length |-> 39, stockLocate |-> locate, prefix |-> 2, present |-> 39]

Good == << Directory(2), Directory(1), Directory(1) >>
MCFiles ==
  {Good, << Directory(0) >>, << Directory(4) >>, << >>,
   << [Directory(1) EXCEPT !.length = 40] >>, Append(Good, [Directory(1) EXCEPT !.present = 38]),
   Append(Good, [Directory(1) EXCEPT !.prefix = 1]), Append(Good, [Directory(1) EXCEPT !.length = 65]),
   Append(Good, [Directory(1) EXCEPT !.type = "S", !.length = 0])}

(* A cleared entry, and one that an earlier run has left.                  *)
LeftEntry(left, status, price, quantity) ==
  [symbol_known |-> left, symbol_enabled |-> left, symbol_status |-> status,
   bid_valid |-> left, ask_valid |-> FALSE, bid_price |-> price, ask_price |-> 0,
   max_order_quantity |-> quantity, max_notional |-> 0, max_price_band_ticks |-> 0]

MCLeftovers == {LeftEntry(FALSE, 0, 0, 0), LeftEntry(TRUE, 4, 1, 3)}

MCDay == << "S", "Q", "M" >>

(* For a traded instrument, one that is not, none, and one that the FPGA's *)
(* memory does not have.                                                   *)
MCTradingActions == {<< 1, "T" >>, << 1, "P" >>, << 3, "H" >>, << 0, "H" >>, << 4, "H" >>}

Order(type, locate, side, price, shares) ==
  [type |-> type, stockLocate |-> locate, buySell |-> side, price |-> price, shares |-> shares]

MCAdditions ==
  {Order("A", 1, "Buy", 1, 2), Order("F", 1, "Buy", 2, 1), Order("A", 1, "Sell", 2, 2),
   Order("F", 2, "Buy", 1, 2), Order("A", 3, "Buy", 1, 1), Order("A", 1, "Buy", 0, 1),
   Order("A", 1, "Buy", 2, 0)}

MCReductions ==
  {[type |-> "X", shares |-> 1], [type |-> "E", shares |-> 2], [type |-> "C", shares |-> 0]}

MCOtherMessages ==
  {[type |-> "R", length |-> 39], [type |-> "P", length |-> 44], [type |-> "S", length |-> 11],
   [type |-> "S", length |-> 12, eventCode |-> "?"]}
=============================================================================
