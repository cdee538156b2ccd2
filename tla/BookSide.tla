------------------------------ MODULE BookSide ------------------------------
(***************************************************************************)
(* One side of an instrument's book, OrderBook.cpp: price levels in an     *)
(* array that is a heap with the best price on top, and a hash map from a  *)
(* price to the place of its level.  Places count from 1 here, so that the *)
(* parent of i is i \div 2.  An operation returns [side, status].          *)
(***************************************************************************)
EXTENDS Naturals, Sequences, FiniteSets

CONSTANT MaxPriceLevels

(* levelIndexByPrice: what FixedCapacityHashMap promises, as a function.   *)
EmptyMap == [price \in {} |-> 0]

Full(map) == Cardinality(DOMAIN map) = MaxPriceLevels

Contains(map, price) == price \in DOMAIN map

Find(map, price) == map[price]

Insert(map, price, index) ==
  [p \in DOMAIN map \cup {price} |-> IF p = price THEN index ELSE map[p]]

UpdateExisting(map, price, index) == [map EXCEPT ![price] = index]

Erase(map, price) == [p \in DOMAIN map \ {price} |-> map[p]]

EmptySide == [levels |-> << >>, levelIndexByPrice |-> EmptyMap]

Done(side)           == [side |-> side, status |-> "Ok"]
Refused(side, status) == [side |-> side, status |-> status]

BetterPrice(isBid, lhs, rhs) == IF isBid THEN lhs > rhs ELSE lhs < rhs

Better(side, isBid, i, j) == BetterPrice(isBid, side.levels[i].price, side.levels[j].price)

SwapLevels(side, lhs, rhs) ==
  LET levels == [side.levels EXCEPT ![lhs] = side.levels[rhs], ![rhs] = side.levels[lhs]]
      moved  == UpdateExisting(side.levelIndexByPrice, levels[lhs].price, lhs)
  IN  [levels |-> levels, levelIndexByPrice |-> UpdateExisting(moved, levels[rhs].price, rhs)]

RECURSIVE SiftUp(_, _, _)
SiftUp(side, isBid, index) ==
  LET parent == index \div 2
  IN  IF index = 1 \/ ~Better(side, isBid, index, parent) THEN side
      ELSE SiftUp(SwapLevels(side, index, parent), isBid, parent)

BetterChild(side, isBid, index) ==
  LET left == 2 * index
  IN  IF left < Len(side.levels) /\ Better(side, isBid, left + 1, left) THEN left + 1 ELSE left

RECURSIVE SiftDown(_, _, _)
SiftDown(side, isBid, index) ==
  LET child == BetterChild(side, isBid, index)
  IN  IF 2 * index > Len(side.levels) \/ ~Better(side, isBid, child, index) THEN side
      ELSE SiftDown(SwapLevels(side, index, child), isBid, child)

-----------------------------------------------------------------------------
AddToSide(side, isBid, price, shares) ==
  LET map == side.levelIndexByPrice
      new == Len(side.levels) + 1
      level == [price |-> price, aggregateShares |-> shares, orderCount |-> 1]
  IN  IF Contains(map, price)
        THEN Done([side EXCEPT !.levels[Find(map, price)] =
                     [@ EXCEPT !.aggregateShares = @ + shares, !.orderCount = @ + 1]])
      ELSE IF Full(map) THEN Refused(side, "PriceLevelCapacityExceeded")
      ELSE Done(SiftUp([levels |-> Append(side.levels, level),
                        levelIndexByPrice |-> Insert(map, price, new)], isBid, new))

(* Mutant: the level that fills the hole is only ever sifted down. *)
RestoreDown(side, isBid, index) == SiftDown(side, isBid, index)

Restore(side, isBid, index) ==
  IF index > 1 /\ Better(side, isBid, index, index \div 2)
    THEN SiftUp(side, isBid, index) ELSE SiftDown(side, isBid, index)

(* Mutant: the map keeps the old place of the level that fills the hole. *)
RemoveLevelStale(side, isBid, index) ==
  LET last   == Len(side.levels)
      erased == Erase(side.levelIndexByPrice, side.levels[index].price)
      filled == [side.levels EXCEPT ![index] = side.levels[last]]
      rest   == SubSeq(filled, 1, last - 1)
  IN  IF index = last THEN [levels |-> rest, levelIndexByPrice |-> erased]
      ELSE Restore([levels |-> rest, levelIndexByPrice |-> erased], isBid, index)

(* The last level takes the place of the one that is removed.              *)
RemoveLevel(side, isBid, index) ==
  LET last   == Len(side.levels)
      erased == Erase(side.levelIndexByPrice, side.levels[index].price)
      filled == [side.levels EXCEPT ![index] = side.levels[last]]
      rest   == SubSeq(filled, 1, last - 1)
  IN  IF index = last THEN [levels |-> rest, levelIndexByPrice |-> erased]
      ELSE Restore([levels |-> rest,
                    levelIndexByPrice |-> UpdateExisting(erased, rest[index].price, index)],
                   isBid, index)

(* shares and the order's removal do not fit what the level holds.         *)
Underflow(level, shares, removeOrder) ==
  \/ shares > level.aggregateShares
  \/ level.orderCount = 0
  \/ shares = level.aggregateShares /\ ~(removeOrder /\ level.orderCount = 1)
  \/ removeOrder /\ level.orderCount = 1 /\ shares # level.aggregateShares

Reduced(level, shares, removeOrder) ==
  [level EXCEPT !.aggregateShares = @ - shares,
                !.orderCount = IF removeOrder THEN @ - 1 ELSE @]

ReduceFromSide(side, isBid, price, shares, removeOrder) ==
  LET map   == side.levelIndexByPrice
      index == Find(map, price)
      level == side.levels[index]
  IN  IF ~Contains(map, price) THEN Refused(side, "PriceLevelNotFound")
      ELSE IF Underflow(level, shares, removeOrder) THEN Refused(side, "PriceLevelUnderflow")
      ELSE IF level.aggregateShares = shares THEN Done(RemoveLevel(side, isBid, index))
      ELSE Done([side EXCEPT !.levels[index] = Reduced(level, shares, removeOrder)])

(* Mutant: a full side refuses every new price. *)
NoRoomForLevelFull(map, level, newPrice) == ~Contains(map, newPrice) /\ Full(map)

(* The old level goes first when the order is the only one on it.          *)
NoRoomForLevel(map, level, newPrice) ==
  level.orderCount # 1 /\ ~Contains(map, newPrice) /\ Full(map)

ReplaceOnSide(side, isBid, oldPrice, oldShares, newPrice, newShares) ==
  LET map   == side.levelIndexByPrice
      index == Find(map, oldPrice)
      level == side.levels[index]
  IN  IF newPrice = 0 THEN Refused(side, "ZeroPrice")
      ELSE IF newShares = 0 THEN Refused(side, "ZeroShares")
      ELSE IF ~Contains(map, oldPrice) THEN Refused(side, "PriceLevelNotFound")
      ELSE IF Underflow(level, oldShares, TRUE) THEN Refused(side, "PriceLevelUnderflow")
      ELSE IF newPrice = oldPrice
        THEN Done([side EXCEPT !.levels[index].aggregateShares = @ - oldShares + newShares])
      ELSE IF NoRoomForLevel(map, level, newPrice)
        THEN Refused(side, "PriceLevelCapacityExceeded")
      ELSE    \* the statuses of both calls are not looked at
        Done(AddToSide(ReduceFromSide(side, isBid, oldPrice, oldShares, TRUE).side,
                       isBid, newPrice, newShares).side)

-----------------------------------------------------------------------------
(* InstrumentBook::add and reduce, for a side                              *)
Add(side, isBid, price, shares) ==
  IF price = 0 THEN Refused(side, "ZeroPrice")
  ELSE IF shares = 0 THEN Refused(side, "ZeroShares")
  ELSE AddToSide(side, isBid, price, shares)

Reduce(side, isBid, price, shares, removeOrder) ==
  IF price = 0 THEN Refused(side, "ZeroPrice")
  ELSE IF shares = 0 THEN Refused(side, "ZeroShares")
  ELSE ReduceFromSide(side, isBid, price, shares, removeOrder)

(* What topOfBook says of the side: whatever is on top of the heap.        *)
NoQuote == [valid |-> FALSE, price |-> 0, shares |-> 0]

TopOfSide(side) ==
  IF side.levels = << >> THEN NoQuote
  ELSE [valid |-> TRUE, price |-> side.levels[1].price, shares |-> side.levels[1].aggregateShares]
=============================================================================
