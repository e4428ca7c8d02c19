SPECIFICATION FairSpec
CONSTANTS
  Account = {o1, o2}
  InitialOracles = {o1}
  FirstOracle = o1
  MaxSlot = 1
  MaxTasks = 3
  MaxQueue = 1
  MaxSpawned = 1
  max_reconnection_attempts = 1
INVARIANTS TasksBounded CurrentOracleFollowed
PROPERTIES StopsExactlyAdded AddedOracleFrozen SwitchConverges
