CONSTANTS
  Dpcs = {d1, d2}
  Params = {p1}
  Flushers = {f1, f2}
  Overlapping = TRUE
  head = head
  Flush = Flush
  Idle = Idle
  MaxRaises = 1
  Terminates = FALSE
  AssertsEnabled = TRUE
SPECIFICATION Spec
PROPERTIES FlushCovers
CHECK_DEADLOCK FALSE
