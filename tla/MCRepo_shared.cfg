SPECIFICATION Spec
CONSTANTS
  Sinks = {k1, k2}
  Srcs = {r1, r2}
  Slots = {0}
  Slot0 = 0
  InvalidIndex = 9
  Caps = {c1}
  c1 = c1
  c2 = c2
  CapsFilters <- OneFilter
  RateLimited = {k1, k2}
  AppThreads = {t1, t2}
  NoBuf = NoBuf
  NoCaps = NoCaps
  NoElem = NoElem
  MaxBuf = 3
  MaxSet = 2
CHECK_DEADLOCK FALSE
SYMMETRY Symmetry
INVARIANTS TypeOK SlotFifo NoLostWakeup
