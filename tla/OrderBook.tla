----------------------------- MODULE OrderBook -----------------------------
(***************************************************************************)
(* src/host/src/book/OrderBook.cpp: a book of two sides for each tracked   *)
(* instrument, and one directory of the orders of all of them, in which an *)
(* order has no stock locate.  An operation returns [book, status], and    *)
(* when the status is Ok the instrument's top of book and whether it moved.*)
(***************************************************************************)
EXTENDS Naturals

CONSTANTS MaxActiveOrders, MaxPriceLevels, Buckets, BucketFor(_)

Orders == INSTANCE FixedCapacityHashMap
            WITH MaximumEntries <- MaxActiveOrders,
                 NoValue <- [price |-> 0, remainingShares |-> 0, side |-> "Buy"]

Levels == INSTANCE BookSide

Sides == {"Buy", "Sell"}

EmptyBook(symbols) ==
  [orderBook |-> [s \in symbols |-> [side \in Sides |-> Levels!EmptySide]],
   orders    |-> Orders!EmptyMap]

TopOfBook(b, locate) == [side \in Sides |-> Levels!TopOfSide(b.orderBook[locate][side])]

-----------------------------------------------------------------------------
Refused(b, status) == [book |-> b, status |-> status, topOfBookChanged |-> FALSE]

(* The side takes its new state and the directory its new orders, unless   *)
(* the side refused.                                                       *)
Settled(b, locate, side, result, orders) ==
  LET after == [orderBook |-> [b.orderBook EXCEPT ![locate][side] = result.side],
                orders    |-> orders]
  IN  IF result.status # "Ok" THEN Refused(b, result.status)
      ELSE [book |-> after, status |-> "Ok", stockLocate |-> locate,
            topOfBookChanged |-> TopOfBook(b, locate) # TopOfBook(after, locate),
            topOfBook |-> TopOfBook(after, locate)]

(* Why a message about a locate is not looked at any further, or "Ok".     *)
LocateStatus(b, locate) ==
  IF locate = 0 THEN "InvalidStockLocate"
  ELSE IF locate \notin DOMAIN b.orderBook THEN "SymbolNotTracked" ELSE "Ok"

Rest(price, shares, side) == [price |-> price, remainingShares |-> shares, side |-> side]

ApplyAdd(b, locate, ref, side, price, shares) ==
  IF LocateStatus(b, locate) # "Ok" THEN Refused(b, LocateStatus(b, locate))
  ELSE IF Orders!Contains(b.orders, ref) THEN Refused(b, "DuplicateOrderReference")
  ELSE IF Orders!Full(b.orders) THEN Refused(b, "OrderCapacityExceeded")
  ELSE Settled(b, locate, side,
               Levels!Add(b.orderBook[locate][side], side = "Buy", price, shares),
               Orders!Insert(b.orders, ref, Rest(price, shares, side)))

(* Mutant: an order that is used up stays in the directory. *)
LeftInDirectory(b, ref, shares) ==
  LET order == Orders!Find(b.orders, ref)
  IN  Orders!UpdateExisting(b.orders, ref, [order EXCEPT !.remainingShares = @ - shares])

AfterReduce(b, ref, shares) ==
  LET order == Orders!Find(b.orders, ref)
  IN  IF shares = order.remainingShares THEN Orders!Erase(b.orders, ref)
      ELSE Orders!UpdateExisting(b.orders, ref, [order EXCEPT !.remainingShares = @ - shares])

(* reduceShares is << >> when the whole order leaves.                      *)
ApplyReduce(b, locate, ref, reduceShares) ==
  LET order  == Orders!Find(b.orders, ref)
      shares == IF reduceShares = << >> THEN order.remainingShares ELSE reduceShares[1]
  IN  IF LocateStatus(b, locate) # "Ok" THEN Refused(b, LocateStatus(b, locate))
      ELSE IF ~Orders!Contains(b.orders, ref) THEN Refused(b, "UnknownOrderReference")
      ELSE IF shares > order.remainingShares THEN Refused(b, "OrderSharesUnderflow")
      ELSE Settled(b, locate, order.side,
                   Levels!Reduce(b.orderBook[locate][order.side], order.side = "Buy",
                                 order.price, shares, shares = order.remainingShares),
                   AfterReduce(b, ref, shares))

OnOrderReplace(b, locate, original, new, price, shares) ==
  LET order == Orders!Find(b.orders, original)
  IN  IF LocateStatus(b, locate) # "Ok" THEN Refused(b, LocateStatus(b, locate))
      ELSE IF ~Orders!Contains(b.orders, original) THEN Refused(b, "UnknownOrderReference")
      ELSE IF Orders!Contains(b.orders, new) THEN Refused(b, "DuplicateOrderReference")
      ELSE Settled(b, locate, order.side,
                   Levels!ReplaceOnSide(b.orderBook[locate][order.side], order.side = "Buy",
                                        order.price, order.remainingShares, price, shares),
                   Orders!Insert(Orders!Erase(b.orders, original), new,
                                 Rest(price, shares, order.side)))

-----------------------------------------------------------------------------
(* The handler of each decoded message                                     *)
Update(b, m) ==
  CASE m.type \in {"A", "F"} ->
         ApplyAdd(b, m.stockLocate, m.orderReferenceNumber, m.buySell, m.price, m.shares)
    [] m.type \in {"E", "C", "X"} ->
         ApplyReduce(b, m.stockLocate, m.orderReferenceNumber, << m.shares >>)
    [] m.type = "D" -> ApplyReduce(b, m.stockLocate, m.orderReferenceNumber, << >>)
    [] m.type = "U" ->
         OnOrderReplace(b, m.stockLocate, m.orderReferenceNumber, m.newOrderReferenceNumber,
                        m.price, m.shares)
=============================================================================
