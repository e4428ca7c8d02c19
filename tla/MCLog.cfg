SPECIFICATION FairSpec
CONSTANTS
  MaxEventsPerTx = 2
  MaxTx = 3
  MaxNotified = 2
  RepeatWindow = 2
  CacheCapacity = 3
  ChannelCapacity = 3
  MaxAttempts = 1
INVARIANTS TypeOK SentInOrder CachedMeansSent
PROPERTIES DeliversNotified Resumes LimitedPolicyEnds
CHECK_DEADLOCK FALSE
