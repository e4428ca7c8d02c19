SPECIFICATION FairSpec
CONSTANTS
  Account = {"a"}
  MaxSlot = 2
  MaxTasks = 2
  MaxQueue = 2
  max_reconnection_attempts = 3
INVARIANTS AtRestLastEmitted OneTaskUnstopped GivesUpHalfway
PROPERTIES OneTaskNeverGoesBack LostForGood StoppedTaskEnds
CHECK_DEADLOCK FALSE
