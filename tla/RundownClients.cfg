CONSTANTS
  Refs = {r1, r2}
  Waiters = {w1, w2}
  Users = {u1, u2}
  NoEntry = NoEntry
  NoRef = NoRef
SPECIFICATION FairSpec
INVARIANTS NoLostWakeup
PROPERTIES ImplementsProtection WaitEnds
