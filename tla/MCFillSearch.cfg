\* A search that blocks on its own guard, or panics, stops for good.
CHECK_DEADLOCK FALSE
SPECIFICATION Spec
CONSTANTS
  Market = {"perp1", "perp2", "spot1"}
  Perp = {"perp1", "perp2"}
  User = {"u1", "u2"}
  Order = {"ask", "bid_low", "bid_high", "own_bid", "far_bid", "far_bid2", "own_long", "far_ask", "far_ask2", "slow_ask", "float",
           "deep", "market", "oracle", "expiring", "above_5", "above_20", "below_15", "below_6",
           "spot_ask", "spot_buy"}
  OrderOf <- MCOrderOf
  Shard <- MCShard
  Query <- MCQuery
  Books <- MCBooks
  MaxSlot = 3
INVARIANTS
  ReturnsOnlyUncrossed BlocksHalfway BidsMatchedWithinSize NeverOverfilled
  FallbackInTime ExpiredAllReturned TriggersExact
PROPERTY AuctionEndsAtEndPrice
