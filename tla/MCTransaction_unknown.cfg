\* A builder that is built, or has panicked, is gone.
SPECIFICATION BuilderSpec
CONSTANTS
  BitmapBits = 3
  ByteValues = 4
  OverflowChecks = FALSE
  OracleOf <- MCOracleOf
  KeyOf <- MCKeyOf
  Users <- MCUsers
  Counterparties <- MCCounterparties
  MarketId <- MCMarketId
  OrderLists <- MCOrderLists
  MaxCalls = 2
CHECK_DEADLOCK FALSE
INVARIANT UnknownMarketPanics
