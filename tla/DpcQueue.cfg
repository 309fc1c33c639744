CONSTANTS
  Dpcs = {d1, d2}
  Params = {p1, p2}
  Flushers = {f1, f2}
  Overlapping = FALSE
  head = head
  Flush = Flush
  Idle = Idle
  MaxRaises = 1
  Terminates = TRUE
  AssertsEnabled = TRUE
SPECIFICATION FairSpec
CHECK_DEADLOCK FALSE
INVARIANTS QueueConsistent
PROPERTIES FlushCovers ImplementsFifo NobodyStuck
