CONSTANTS
  Cpus = {c1, c2}
  Threads = {t1, t2}
  SpinLocks = {l1}
  Masks <- FewMasks
  NoOne = NoOne
  NoLock = NoLock
  AffinityAtDispatch = {t1}
SPECIFICATION Spec
SYMMETRY Symmetry
INVARIANTS DispatchExclusion NoCircularWait AffinityRestored
