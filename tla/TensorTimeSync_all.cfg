SPECIFICATION FairSpec
CONSTANTS
  N = 2
  Policies = {"nosync", "slowest", "basepad", "refresh"}
  BasePad = 2
  Duration = 2
  None = None
  MaxPts = 3
  MaxReset = 1
CHECK_DEADLOCK FALSE
INVARIANTS SyncSafe
PROPERTIES  SyncProgress
