\* The chain ends at MaxSlot and both tasks may have panicked; a builder that
\* is built, or has panicked, is gone.
CHECK_DEADLOCK FALSE
SPECIFICATION ClientSpec
CONSTANTS
  Caller = {c1, c2}
  MaxSlot = 3
  BitmapBits = 3
  ByteValues = 4
  OverflowChecks = FALSE
  OracleOf <- MCOracleOf
  KeyOf <- MCKeyOf
  Users <- MCUsers
  Counterparties <- MCCounterparties
  MarketId <- MCMarketId
  OrderLists <- MCOrderLists
  MaxCalls = 2
INVARIANTS
  OneChannelPerCaller
  AccountsExact
  OnePerBit
  AccountsSorted
  InstructionsInOrder
PROPERTIES ChannelNeverGoesBack CacheCatchesUp
