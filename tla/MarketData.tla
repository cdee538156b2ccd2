----------------------------- MODULE MarketData -----------------------------
(***************************************************************************)
(* What an ITCH feed makes of the host's books and, by the messages that   *)
(* host_gateway.cpp sends, of the FPGA's state: decoder, order book,       *)
(* command source and generator on one side, symbol state store, session   *)
(* tracker and risk engine on the other.  Messages arrive in order and     *)
(* none is lost; ReplayRun has the batches, losses and failing sends.      *)
(*                                                                         *)
(* Nothing comes back that this part of the host reads, so it waits here   *)
(* until the FPGA has taken what was sent.                                 *)
(***************************************************************************)
EXTENDS Integers, Sequences, FiniteSets

CONSTANTS
  SymbolCount, WordModulus,                            \* 2^14 and 2^32, on both sides
  MaxActiveOrders, MaxPriceLevels, Buckets, BucketFor(_),
  maxOrderQty, maxNotional, priceBandTicks, orderQuantity, orderInterval,
  Files,           \* what the pre-scan may find
  Leftovers,       \* entries an earlier run may have left in the store
  Day,             \* the event codes of a day in their order
  TradingActions,  \* <<stock locate, trading state>>, for any instrument
  Additions,       \* orders: [type, stockLocate, buySell, price, shares]
  Reductions,      \* executions and cancels: [type, shares]
  References,      \* order reference numbers
  OtherMessages    \* raw messages that are not of the feed, or mean nothing

ASSUME PolicyAssumption == orderQuantity \in 1 .. maxOrderQty

VARIABLES
  tracked,                       \* enabledSymbols
  main, resets, book, source,    \* the host
  outbox,                        \* messages on their way
  memory, state_clear_busy, clear_address, clear_mask, lookup_valid, lookup,
  market_hours_active, stream_fault, pending_order, decision_valid, decision,
  (* the feed, for comparison *)
  session,         \* how many events of the day have come
  live,            \* the orders that rest: reference |-> order
  conforming       \* every message about orders agreed with those before it

Itch     == INSTANCE ItchDecoder
Books    == INSTANCE OrderBook
Source   == INSTANCE CommandSource WITH Locates <- 0 .. SymbolCount
Store    == INSTANCE SymbolStateStore
Hours    == INSTANCE MarketHoursTracker
Risk     == INSTANCE OrderRiskEngine
Format   == INSTANCE InternalProtocolDecoder WITH
              decoded_valid <- FALSE, decoded <- << >>, decoded_packet_start <- FALSE,
              decoded_packet_end <- FALSE, decoded_packet_abort <- FALSE, protocol_error <- FALSE
Seqs     == INSTANCE SequencesExt
Sums     == INSTANCE FiniteSetsExt

host == << tracked, main, resets, book, source >>
fpga == << memory, state_clear_busy, clear_address, clear_mask, lookup_valid, lookup,
           market_hours_active, stream_fault, pending_order, decision_valid, decision >>
feed == << session, live, conforming >>
vars == << host, outbox, fpga, feed >>

-----------------------------------------------------------------------------
(* main.cpp, discoverSymbols                                               *)
Directories(file) == {raw \in Seqs!ToSet(file) : raw.type = "R"}

(* Mutant: the first locate beyond the FPGA's memory passes. *)
BadDirectoryOffByOne(raw) ==
  raw.length # 39 \/ raw.stockLocate = 0 \/ raw.stockLocate > SymbolCount

BadDirectory(raw) ==
  raw.length # 39 \/ raw.stockLocate = 0 \/ raw.stockLocate >= SymbolCount

ScanFails(file) ==
  \/ \E raw \in Seqs!ToSet(file) : Itch!ReadStatus(raw) # "Ok" \/ raw.length = 0
  \/ \E raw \in Directories(file) : BadDirectory(raw)
  \/ Directories(file) = {}

Discovered(file) == {raw.stockLocate : raw \in Directories(file)}

(* The FPGA is fresh from reset, or has served another run before.         *)
Init ==
  /\ \E file \in Files : ~ScanFails(file) /\ tracked = Discovered(file)
  /\ main = "startup" /\ resets = 0
  /\ book = Books!EmptyBook(tracked) /\ source = Source!Fresh
  /\ outbox = << >>
  /\ \E entry \in Leftovers : memory = [a \in Store!Address |-> entry]
  /\ state_clear_busy \in BOOLEAN /\ clear_address = 0 /\ clear_mask = Store!Groups
  /\ lookup_valid = FALSE /\ lookup = Store!ClearedEntry
  /\ market_hours_active \in BOOLEAN /\ stream_fault = FALSE
  /\ Risk!Init
  /\ session = 0 /\ live = << >> /\ conforming = TRUE

-----------------------------------------------------------------------------
(* The FPGA: one clock for a message, and clocks without one until it has  *)
(* decided an order and ended a sweep.                                     *)
NoMessage == [type |-> 0, symbol_id |-> 0, payload_0 |-> 0, payload_1 |-> 0,
              payload_2 |-> 0, payload_3 |-> 0]

Answering == lookup_valid \/ decision_valid

IsFullReset(m) == Store!IsResetAll(m) /\ m.payload_1 = 0

OrderOf(m) ==
  [side |-> m.payload_0, price |-> m.payload_1, quantity |-> m.payload_2,
   intent_id |-> m.payload_3, sequence_number |-> 0, symbol_id |-> m.symbol_id,
   stream_fault |-> stream_fault, protocol_violation |-> FALSE,
   market_hours_active |-> market_hours_active]

Clock(valid, m) ==
  /\ Store!Clock(valid, m)
  /\ Hours!Clock(valid /\ m.type = Format!SESSION_STATUS, m.payload_0, valid /\ IsFullReset(m))
  /\ Risk!Clock(valid /\ m.type = Format!ORDER_INTENT, OrderOf(m), lookup_valid, lookup)
  /\ UNCHANGED << host, feed >>

IsValid(m) == Format!FormatValid(m, m.type = Format!ORDER_INTENT)

TakeMessage ==
  /\ ~Answering /\ outbox # << >> /\ IsValid(Head(outbox))
  /\ Clock(TRUE, Head(outbox))
  /\ outbox' = Tail(outbox)
  /\ UNCHANGED stream_fault

(* The decoder passes nothing on; the packet is discarded and the stream   *)
(* faults until the next run's resets (PacketGuard), while the store goes  *)
(* on taking the messages that follow.                                     *)
RefuseMessage ==
  /\ ~Answering /\ outbox # << >> /\ ~IsValid(Head(outbox))
  /\ Clock(FALSE, NoMessage)
  /\ outbox' = Tail(outbox)
  /\ stream_fault' = TRUE

ClockAlone ==
  /\ Answering \/ (outbox = << >> /\ state_clear_busy)
  /\ Clock(FALSE, NoMessage)
  /\ UNCHANGED << outbox, stream_fault >>

-----------------------------------------------------------------------------
(* sendStartupConfiguration                                                *)
Taken == outbox = << >> /\ ~Answering

(* Mutant: nothing waits between the messages. *)
SleptNever == TRUE

(* A millisecond after each reset: the sweep takes a tenth of it.          *)
Slept == resets > 0 => ~state_clear_busy

SendReset ==
  /\ main = "startup" /\ Taken /\ Slept /\ resets < 2
  /\ resets' = resets + 1
  /\ outbox' = << Source!ResetAll >>
  /\ UNCHANGED << tracked, main, book, source, fpga, feed >>

SendLimits ==
  /\ main = "startup" /\ Taken /\ Slept /\ resets = 2
  /\ main' = "running"
  /\ outbox' = Source!StartupLimits(Seqs!SetToSortSeq(tracked, <))
  /\ UNCHANGED << tracked, resets, book, source, fpga, feed >>

-----------------------------------------------------------------------------
(* processRawMessage and processDecodedMessage                             *)
Stop(status) == main' = status /\ UNCHANGED << source, outbox >>

Receiving == main = "running" /\ Taken /\ UNCHANGED << tracked, resets, fpga >>

Decoded(raw) == Receiving /\ Itch!DecodeMessage(raw) = "Ok"

NotDecoded(raw) ==
  LET status == Itch!DecodeMessage(raw)
  IN  /\ Receiving /\ status # "Ok"
      /\ IF status = "UnsupportedMessageType" THEN UNCHANGED << main, source, outbox >>
                                              ELSE Stop("ItchDecodeFailed")
      /\ UNCHANGED book

OnSystemEvent(raw) ==
  /\ Decoded(raw) /\ raw.type = "S"
  /\ source' = Source!ObserveSessionStatus(source, raw.eventCode)
  /\ outbox' = << Source!GenerateSessionStatus(raw.eventCode) >>
  /\ UNCHANGED << main, book >>

OnStockDirectory(raw) ==
  /\ Decoded(raw) /\ raw.type = "R"
  /\ UNCHANGED << main, book, source, outbox >>

OnStockTradingAction(raw) ==
  /\ Decoded(raw) /\ raw.type = "H"
  /\ source' = Source!ObserveSymbolStatus(source, raw.stockLocate, raw.tradingState)
  /\ outbox' = << Source!GenerateSymbolStatus(raw.stockLocate, raw.tradingState) >>
  /\ UNCHANGED << main, book >>

(* processBookUpdate and TopOfBookEmitter::onBookUpdate                    *)
SendTopOfBook(locate, top) ==
  LET made == Source!MaybeCreateOrderIntent(source, tracked, locate, top)
  IN  IF Source!PayloadValueOverflow(top) THEN Stop("ProtocolGenerationFailed")
      ELSE /\ outbox' = << Source!GenerateTopOfBookUpdate(locate, top) >> \o made.intents
           /\ source' = made.source
           /\ UNCHANGED main

(* Mutant: an update of the lower side of a book is not sent. *)
EmitsForBids(update, before) ==
  update.topOfBookChanged /\ update.topOfBook.Buy # before.Buy

Emits(update, before) == update.topOfBookChanged

OnBookMessage(raw) ==
  LET update == Books!Update(book, raw)
  IN  /\ Decoded(raw) /\ raw.type \in Itch!BookTypes
      /\ book' = update.book
      /\ IF update.status # "Ok" THEN Stop("BookUpdateFailed")
         ELSE IF Emits(update, Books!TopOfBook(book, raw.stockLocate))
           THEN SendTopOfBook(update.stockLocate, update.topOfBook)
         ELSE UNCHANGED << main, source, outbox >>

-----------------------------------------------------------------------------
(* The feed.  Events of the day come in their order, and a message about   *)
(* an order carries the stock locate the order came with.                  *)
Raw(type, fields) ==
  [f \in DOMAIN fields \cup {"type", "length"} |->
     CASE f = "type" -> type [] f = "length" -> Itch!LengthOf[type] [] OTHER -> fields[f]]

NextEvent ==
  /\ session < Len(Day)
  /\ OnSystemEvent(Raw("S", [eventCode |-> Day[session + 1]]))
  /\ session' = session + 1
  /\ UNCHANGED << live, conforming >>

TradingAction ==
  /\ \E a \in TradingActions :
       OnStockTradingAction(Raw("H", [stockLocate |-> a[1], tradingState |-> a[2]]))
  /\ UNCHANGED feed

OtherMessage ==
  /\ \E raw \in OtherMessages : NotDecoded(raw) \/ OnStockDirectory(raw)
  /\ UNCHANGED feed

(* An order that agrees with the orders that rest, and what then rests.    *)
About(type, ref, fields, agrees, orders) ==
  /\ OnBookMessage(Raw(type, [f \in DOMAIN fields \cup {"orderReferenceNumber"} |->
                                IF f = "orderReferenceNumber" THEN ref ELSE fields[f]]))
  /\ conforming' = agrees
  /\ live' = IF agrees THEN orders ELSE live
  /\ UNCHANGED session

Resting == DOMAIN live

With(ref, order) == [r \in Resting \cup {ref} |-> IF r = ref THEN order ELSE live[r]]

Without(ref) == [r \in Resting \ {ref} |-> live[r]]

LocateOf(ref) == IF ref \in Resting THEN live[ref].stockLocate ELSE Sums!Min(tracked)

AddOrder ==
  \E ref \in References, order \in Additions :
    About(order.type, ref, order,
          ref \notin Resting /\ order.stockLocate \in tracked /\ order.price > 0 /\ order.shares > 0,
          With(ref, [f \in DOMAIN order \ {"type"} |-> order[f]]))

TakeShares ==
  \E ref \in References, r \in Reductions :
    About(r.type, ref, [stockLocate |-> LocateOf(ref), shares |-> r.shares, printable |-> "Y"],
          ref \in Resting /\ r.shares \in 1 .. live[ref].shares,
          IF r.shares = live[ref].shares THEN Without(ref)
                                         ELSE [live EXCEPT ![ref].shares = @ - r.shares])

DeleteOrder ==
  \E ref \in References : \E locate \in {LocateOf(ref), 0} :
    About("D", ref, [stockLocate |-> locate], ref \in Resting /\ locate \in tracked, Without(ref))

ReplaceOrder ==
  \E ref, new \in References, order \in Additions :
    /\ order.stockLocate = LocateOf(ref) /\ order.buySell = "Buy"
    /\ LET replaced == [live[ref] EXCEPT !.price = order.price, !.shares = order.shares]
       IN  About("U", ref, [stockLocate |-> LocateOf(ref), newOrderReferenceNumber |-> new,
                            price |-> order.price, shares |-> order.shares],
                 ref \in Resting /\ new \notin Resting /\ order.price > 0 /\ order.shares > 0,
                 [r \in (Resting \ {ref}) \cup {new} |-> IF r = new THEN replaced ELSE live[r]])

(* After a status that is not Ok the run is over.                          *)
Stopped == main \notin {"startup", "running"} /\ Taken /\ UNCHANGED vars

Next ==
  \/ TakeMessage \/ RefuseMessage \/ ClockAlone \/ SendReset \/ SendLimits
  \/ NextEvent \/ TradingAction \/ OtherMessage
  \/ AddOrder \/ TakeShares \/ DeleteOrder \/ ReplaceOrder
  \/ Stopped

Spec == Init /\ [][Next]_vars

-----------------------------------------------------------------------------
OrdersAt(locate, side) ==
  {r \in Resting : live[r].stockLocate = locate /\ live[r].buySell = side}

PricesAt(locate, side) == {live[r].price : r \in OrdersAt(locate, side)}

(* The best quote of the orders that rest, computed from scratch.          *)
BestQuote(locate, side) ==
  LET prices == PricesAt(locate, side)
      best   == IF side = "Buy" THEN Sums!Max(prices) ELSE Sums!Min(prices)
  IN  IF prices = {} THEN [valid |-> FALSE, price |-> 0, shares |-> 0]
      ELSE [valid |-> TRUE, price |-> best,
            shares |-> Sums!MapThenSumSet(LAMBDA r : live[r].shares,
                                          {r \in OrdersAt(locate, side) : live[r].price = best})]

OverCapacity ==
  \/ Cardinality(Resting) > MaxActiveOrders
  \/ \E s \in tracked, side \in Books!Sides : Cardinality(PricesAt(s, side)) > MaxPriceLevels

UpToDate == main = "running" /\ Taken

(***************************************************************************)
(* Between two messages the directory holds exactly the orders that rest,  *)
(* with their price, their remaining shares and their side, and its chains *)
(* and its free list are sound, through every insertion, removal and       *)
(* replacement (fixed_capacity_hash_map.hpp, OrderBook.cpp orders_).       *)
(***************************************************************************)
DirectoryHoldsRestingOrders ==
  UpToDate =>
    /\ Books!Orders!WellFormed(book.orders)
    /\ book.orders.size = Cardinality(Resting)
    /\ \A r \in Resting :
         /\ Books!Orders!Contains(book.orders, r)
         /\ Books!Orders!Find(book.orders, r) =
              Books!Rest(live[r].price, live[r].shares, live[r].buySell)

(***************************************************************************)
(* The quotes in the FPGA's store are those of the orders that rest, for   *)
(* every instrument: no change of the best price of a side is swallowed    *)
(* between the book and the message (processBookUpdate).                   *)
(***************************************************************************)
QuotesAreCurrent ==
  UpToDate /\ ~state_clear_busy =>
    \A s \in tracked : LET bid == BestQuote(s, "Buy")
                           ask == BestQuote(s, "Sell")
                       IN  /\ memory[s].bid_valid = bid.valid /\ memory[s].bid_price = bid.price
                           /\ memory[s].ask_valid = ask.valid /\ memory[s].ask_price = ask.price

(***************************************************************************)
(* Host and FPGA agree on what may be traded: the session, the state and   *)
(* the limits of each tracked symbol; nothing an earlier run has left is   *)
(* known (sendStartupConfiguration, observeSessionStatus,                  *)
(* observeSymbolStatus against the trackers of the FPGA).                  *)
(***************************************************************************)
HostAndFpgaAgree ==
  UpToDate =>
    /\ ~state_clear_busy
    /\ market_hours_active = source.marketOpen
    /\ \A a \in Store!Address : memory[a].symbol_known = (a \in tracked)
    /\ \A s \in tracked :
         /\ (memory[s].symbol_status = 4) = source.symbolStates[s].trading
         /\ memory[s].symbol_enabled
         /\ memory[s].max_order_quantity = maxOrderQty
         /\ memory[s].max_notional = maxNotional
         /\ memory[s].max_price_band_ticks = priceBandTicks

(***************************************************************************)
(* An order made from the host's view is acceptable on the FPGA's: only    *)
(* the notional, which the host does not look at, may refuse it, and every *)
(* order is refused once the FPGA has refused a message.                   *)
(***************************************************************************)
OrdersAreAccepted ==
  decision_valid =>
    decision.reject_reason \in IF stream_fault THEN {"STREAM_FAULT"} ELSE {"NONE", "MAX_NOTIONAL"}

(***************************************************************************)
(* Every message the host sends has a format the FPGA accepts, and names a *)
(* symbol that the FPGA's memory has (generator.cpp, discoverSymbols       *)
(* against internal_protocol_decoder.sv).  The one exception is a trading  *)
(* action: the stock locate that an H message names is checked nowhere, 0  *)
(* is refused and one beyond the memory ignored, and nothing else is.      *)
(***************************************************************************)
SentMessagesAreValid ==
  \A i \in DOMAIN outbox :
    LET m == outbox[i]
    IN  IF m.type = Format!SYMBOL_STATUS THEN IsValid(m) <=> m.symbol_id # 0
                                         ELSE IsValid(m) /\ Store!InRange(m)

(***************************************************************************)
(* The host stops exactly when the feed contradicts itself, when orders or *)
(* levels are too many, or when a quote has more shares than a word holds: *)
(* no update of a feed in order is refused, no wrong one is taken, and a   *)
(* sum of shares is never sent cut off (OrderBook.cpp, the generator's     *)
(* PayloadValueOverflow).                                                  *)
(***************************************************************************)
QuoteOverflows ==
  \E s \in tracked, side \in Books!Sides : BestQuote(s, side).shares >= WordModulus

StopsWhenItMust ==
  /\ main = "running" => conforming /\ ~OverCapacity /\ ~QuoteOverflows
  /\ main = "BookUpdateFailed" => ~conforming \/ OverCapacity
  /\ main = "ProtocolGenerationFailed" => QuoteOverflows
=============================================================================
