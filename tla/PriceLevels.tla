---------------------------- MODULE PriceLevels ----------------------------
(***************************************************************************)
(* One side of a book under the orders of a feed: orders come, shrink,     *)
(* leave and are replaced, each call with the price and the shares the     *)
(* order rests with, as OrderBook passes them on from its directory.  The  *)
(* gateway stops at the first status that is not Ok.                       *)
(***************************************************************************)
EXTENDS Naturals, Sequences, FiniteSets

CONSTANTS
  Prices, Shares,   \* bounds: what orders ask for, positive numbers
  NewShares,        \* bound: what a replaced order asks for
  MaxShares,        \* bound: shares resting at a time
  MaxPriceLevels

ASSUME PositiveAssumption ==
  Prices \cup Shares \subseteq Nat \ {0} /\ NewShares \subseteq Shares

VARIABLES
  isBid, side, status,
  live              \* how many orders rest at a price with so many shares

vars == << isBid, side, status, live >>

Levels == INSTANCE BookSide
Sums   == INSTANCE FiniteSetsExt

Init ==
  /\ isBid \in BOOLEAN
  /\ side = Levels!EmptySide /\ status = "Ok" /\ live = [o \in Prices \X Shares |-> 0]

InBounds(orders) ==
  Sums!MapThenSumSet(LAMBDA o : o[2] * orders[o], Prices \X Shares) <= MaxShares

With(orders, p, n)    == [orders EXCEPT ![p, n] = @ + 1]
Without(orders, p, n) == [orders EXCEPT ![p, n] = @ - 1]

Apply(result, orders) ==
  /\ status = "Ok" /\ InBounds(orders)
  /\ side' = result.side /\ status' = result.status
  /\ live' = orders
  /\ UNCHANGED isBid

Place(p, n) == Apply(Levels!Add(side, isBid, p, n), With(live, p, n))

Shrink(p, n, r) ==
  /\ live[p, n] > 0 /\ r < n
  /\ Apply(Levels!Reduce(side, isBid, p, r, FALSE), With(Without(live, p, n), p, n - r))

Leave(p, n) ==
  /\ live[p, n] > 0
  /\ Apply(Levels!Reduce(side, isBid, p, n, TRUE), Without(live, p, n))

Replace(p, n, q, k) ==
  /\ live[p, n] > 0
  /\ Apply(Levels!ReplaceOnSide(side, isBid, p, n, q, k), With(Without(live, p, n), q, k))

Stopped == status # "Ok" /\ UNCHANGED vars

Next ==
  \/ \E p \in Prices, n \in Shares :
       \/ Place(p, n) \/ Leave(p, n)
       \/ \E r \in Shares : Shrink(p, n, r)
       \/ \E q \in Prices, k \in NewShares : Replace(p, n, q, k)
  \/ Stopped

Spec == Init /\ [][Next]_vars

-----------------------------------------------------------------------------
Resting == {p \in Prices : \E n \in Shares : live[p, n] > 0}

RestingAt(p) ==
  [price |-> p, orderCount |-> Sums!MapThenSumSet(LAMBDA n : live[p, n], Shares),
   aggregateShares |-> Sums!MapThenSumSet(LAMBDA n : n * live[p, n], Shares)]

LevelOf(p) == side.levels[Levels!Find(side.levelIndexByPrice, p)]

(***************************************************************************)
(* An update that fits the resting orders is only refused when the levels  *)
(* it asks for are too many, a replacement that empties a level of a full  *)
(* side included: no underflow, and no level that is not found.            *)
(***************************************************************************)
OnlyCapacityRefuses ==
  status # "Ok" =>
    status = "PriceLevelCapacityExceeded" /\ Cardinality(Resting) > MaxPriceLevels

(***************************************************************************)
(* Through the map every price with resting orders has a level with their  *)
(* number and their shares, and no other price has one, whatever the swaps *)
(* and removals of the heap have moved (swapLevels, reduceFromSide).       *)
(***************************************************************************)
LevelsMatchOrders ==
  status = "Ok" =>
    /\ DOMAIN side.levelIndexByPrice = Resting
    /\ Len(side.levels) = Cardinality(Resting)
    /\ \A p \in Resting :
         /\ Levels!Find(side.levelIndexByPrice, p) \in DOMAIN side.levels
         /\ LevelOf(p) = RestingAt(p)

(***************************************************************************)
(* What topOfBook reads, the first element of the array, is the best price *)
(* with all of its shares after every update (siftUp, siftDown).           *)
(***************************************************************************)
TopIsBest ==
  LET best == {p \in Resting : \A q \in Resting : ~Levels!BetterPrice(isBid, q, p)}
  IN  status = "Ok" =>
        /\ Levels!TopOfSide(side).valid = (best # {})
        /\ \A p \in best : Levels!TopOfSide(side) =
             [valid |-> TRUE, price |-> p, shares |-> RestingAt(p).aggregateShares]
=============================================================================
