CONSTANTS
  Waiters = {w1, w2}
  Setters = {s1}
  Lock = Lock
  Done = Done
  NoObject = NoObject
  Limit = 1
  Watchers = {w1}
  Timers = {k1}
  Clients = {c1}
  NoClient = NoClient
  NoTimer = NoTimer
SPECIFICATION FairSpec
CHECK_DEADLOCK FALSE
INVARIANTS OneInside UnitsConserved CancelIsFinal
PROPERTIES WaitEnds ExpiryReachesEvent CancelReturns
