SPECIFICATION FairSpec
CONSTANTS
  MaxEventsPerTx = 2
  MaxTx = 3
  CacheCapacity = 3
  ChannelCapacity = 2
INVARIANTS TypeOK CacheIsRecent
PROPERTIES Delivers EveryTxTaken
CHECK_DEADLOCK FALSE
