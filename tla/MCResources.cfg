CONSTANTS
  c1 = c1
  c2 = c2
  d1 = d1
  d2 = d2
  o1 = o1
  o2 = o2
  MdlBlocks = {1, 2}
  NblBlocks = {3, 4}
  NbBlocks = {5, 6}
  PlainBlocks = {7}
  NoBlock = 0
  PageSize = 2
  BufferLen = 3
  Windows <- MCWindows
  MaxMoved = 1
  Callers = {c1, c2}
  Walker = c1
  MaxKept = 1
  MaxLocks = 1
  AccountSizes = {2, 4}
  AccountChars = {1, 3}
  Drivers = {d1, d2}
  Objects = {o1, o2}
  MaxRefs = 2
  GroupSizes <- MCGroupSizes
SPECIFICATION Spec
INVARIANTS HeapExact WindowInside   ReferencesCounted ProcessorsNumberedAlike
CHECK_DEADLOCK FALSE
