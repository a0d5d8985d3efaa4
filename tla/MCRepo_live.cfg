SPECIFICATION FairSpec
CONSTANTS
  Sinks = {k1}
  Srcs = {r1}
  Slots = {0, 1}
  Slot0 = 0
  InvalidIndex = 9
  Caps = {c1, c2}
  c1 = c1
  c2 = c2
  CapsFilters <- TwoFilters
  RateLimited = {}
  AppThreads = {t1}
  NoBuf = NoBuf
  NoCaps = NoCaps
  NoElem = NoElem
  MaxBuf = 2
  MaxSet = 3
CHECK_DEADLOCK FALSE
INVARIANTS CapsOfBuffer
PROPERTIES ChannelSpec RepoProgress
