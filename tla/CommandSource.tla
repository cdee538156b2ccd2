--------------------------- MODULE CommandSource ---------------------------
(***************************************************************************)
(* src/host/src/gateway/command_source.cpp: what the FPGA is configured    *)
(* with at startup, and when the top of a book makes an order.  The state  *)
(* is a record; symbols not enabled make no order.  The first part is the  *)
(* internal messages the host makes, field by field: event_emitter.cpp,    *)
(* command_emitter.cpp and generator.cpp.  Timestamps, which have 48 bits  *)
(* already when they are read, intent and configuration numbers and the    *)
(* sequence number are left out.                                           *)
(***************************************************************************)
EXTENDS Naturals, Sequences

CONSTANTS
  Locates,                                 \* stock locates, 0 .. 65535 in the code
  WordModulus,                             \* 2^32: the payload words
  maxOrderQty, maxNotional, priceBandTicks,   \* GatewayConfig
  orderQuantity, orderInterval                \* OrderIntentPolicy

Seqs == INSTANCE SequencesExt

Object(type, flags, symbol, p0, p1, p2, p3) ==
  [type |-> type, flags |-> flags, symbol_id |-> symbol, payload_0 |-> p0,
   payload_1 |-> p1, payload_2 |-> p2, payload_3 |-> p3, reserved |-> 0]

SessionState == [O |-> 1, S |-> 2, Q |-> 3, M |-> 4, E |-> 5, C |-> 6]

SymbolStatus == [H |-> 1, P |-> 2, Q |-> 3, T |-> 4]

OrderSide == [Buy |-> 1, Sell |-> 2]

GenerateSessionStatus(eventCode) == Object(1, 0, 0, SessionState[eventCode], 0, 0, 0)

GenerateSymbolStatus(locate, tradingState) ==
  Object(3, 0, locate, SymbolStatus[tradingState], 0, 0, 0)

(* Mutant: the shares of the lower side are cut off to a word. *)
OverflowOfBids(top) == top.Buy.valid /\ top.Buy.shares >= WordModulus

(* The shares of a quote are the 64-bit sum of a price level.              *)
PayloadValueOverflow(top) ==
  \E side \in {"Buy", "Sell"} : top[side].valid /\ top[side].shares >= WordModulus

TopOfBookFlags(top) ==
  (IF top.Buy.valid THEN 1 ELSE 0) + (IF top.Sell.valid THEN 2 ELSE 0)

(* The words of a side that is not valid are zero, as the quote's are.     *)
GenerateTopOfBookUpdate(locate, top) ==
  Object(2, TopOfBookFlags(top), locate, top.Buy.price, top.Buy.shares,
         top.Sell.price, top.Sell.shares)

GenerateOrderIntent(locate, price, quantity, side) ==
  Object(4, 0, locate, OrderSide[side], price, quantity, 0)

GenerateConfigCommand(locate, opcode, value0, value1) ==
  Object(5, 0, locate, opcode, value0, value1, 0)

-----------------------------------------------------------------------------
Fresh ==
  [marketOpen |-> FALSE,
   symbolStates |-> [s \in Locates |->
     [eligibleTobCount |-> 0, trading |-> FALSE, nextOrderIsBuy |-> TRUE]]]

(* An interval of 0 counts as 1.                                           *)
OrderInterval == IF orderInterval = 0 THEN 1 ELSE orderInterval

Command(locate, opcode, value0, value1) ==
  GenerateConfigCommand(locate, opcode, value0, value1)

ResetAll == Command(0, 1, 0, 0)

Limits(s) ==
  << Command(s, 3, 1, 0),
     Command(s, 4, maxOrderQty, 0),
     Command(s, 5, maxNotional \div WordModulus, maxNotional % WordModulus),
     Command(s, 6, priceBandTicks, 0) >>

(* startupConfig without its reset, for the symbols in rising order.       *)
StartupLimits(symbols) ==
  Seqs!FlattenSeq([i \in 1 .. Len(symbols) |-> Limits(symbols[i])])

-----------------------------------------------------------------------------
ObserveSessionStatus(source, eventCode) ==
  CASE eventCode = "Q" -> [source EXCEPT !.marketOpen = TRUE]
    [] eventCode = "M" -> [source EXCEPT !.marketOpen = FALSE]
    [] OTHER           -> source

(* Mutant: only a trading state that opens the symbol is noticed. *)
ObserveSymbolStatusSticky(source, locate, tradingState) ==
  IF tradingState = "T" THEN [source EXCEPT !.symbolStates[locate].trading = TRUE] ELSE source

ObserveSymbolStatus(source, locate, tradingState) ==
  [source EXCEPT !.symbolStates[locate].trading = (tradingState = "T")]

Eligible(source, enabled, locate, top) ==
  /\ source.marketOpen /\ source.symbolStates[locate].trading /\ locate \in enabled
  /\ top.Buy.valid /\ top.Sell.valid /\ top.Buy.price < top.Sell.price

(* Every OrderInterval-th eligible update makes an order, buys and sells in *)
(* turn, at the price of the other side.                                   *)
MaybeCreateOrderIntent(source, enabled, locate, top) ==
  LET state == source.symbolStates[locate]
      count == state.eligibleTobCount + 1
      side  == IF state.nextOrderIsBuy THEN "Buy" ELSE "Sell"
      price == IF state.nextOrderIsBuy THEN top.Sell.price ELSE top.Buy.price
  IN  IF ~Eligible(source, enabled, locate, top)
        THEN [source |-> source, intents |-> << >>]
      ELSE IF count < OrderInterval
        THEN [source |-> [source EXCEPT !.symbolStates[locate].eligibleTobCount = count],
              intents |-> << >>]
      ELSE [source |-> [source EXCEPT !.symbolStates[locate] =
                          [@ EXCEPT !.eligibleTobCount = 0, !.nextOrderIsBuy = ~@]],
            intents |-> << GenerateOrderIntent(locate, price, orderQuantity, side) >>]
=============================================================================
