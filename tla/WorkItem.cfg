CONSTANTS
  Refs = {PoolRef}
  PoolRef = PoolRef
  Waiters = {w1, w2}
  Items = {i1, i2, i3}
  NoEntry = NoEntry
  NoRef = NoRef
  NoItem = NoItem
  AssertsEnabled = TRUE
  LateQueue = TRUE
SPECIFICATION PoolFairSpec
CHECK_DEADLOCK FALSE
INVARIANTS WaitCoversWorkItems ItemAliveWhenCalled
PROPERTIES PoolWaitEnds
