SPECIFICATION Spec
CONSTANTS
  SymbolCount = 4
  WordModulus = 4
  MaxActiveOrders = 2
  MaxPriceLevels = 2
  Buckets = {0, 1}
  BucketFor <- MCBucketFor
  maxOrderQty = 2
  maxNotional = 3
  priceBandTicks = 1
  orderQuantity = 2
  orderInterval = 2
  Files <- MCFiles
  Leftovers <- MCLeftovers
  Day <- MCDay
  TradingActions <- MCTradingActions
  Additions <- MCAdditions
  Reductions <- MCReductions
  r1 = r1
  r2 = r2
  r3 = r3
  References = {r1, r2, r3}
  OtherMessages <- MCOtherMessages
SYMMETRY MCSymmetry
INVARIANTS DirectoryHoldsRestingOrders QuotesAreCurrent HostAndFpgaAgree OrdersAreAccepted SentMessagesAreValid StopsWhenItMust
