SPECIFICATION Spec
CONSTANTS
  Account = {"a"}
  MaxSlot = 2
  MaxTasks = 2
  MaxQueue = 2
  max_reconnection_attempts = 3
INVARIANT EmptyAfterUnsubscribe
CHECK_DEADLOCK FALSE
