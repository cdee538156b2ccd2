\* Six levels: the fewest whose last one may be better than the parent of the
\* place it moves to.
SPECIFICATION Spec
CONSTANTS
  Prices = {1, 2, 3, 4, 5, 6, 7}
  Shares = {1, 2}
  NewShares = {1}
  MaxShares = 7
  MaxPriceLevels = 6
INVARIANTS OnlyCapacityRefuses LevelsMatchOrders TopIsBest
