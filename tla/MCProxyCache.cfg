SPECIFICATION FairSpec
CHECK_DEADLOCK FALSE
CONSTANTS
  None = None
  f = f
  w1 = w1
  w2 = w2
  Full = f
  Windows = {w1, w2}
  Readers = {x1}
  MaxAttempts = 3
  Requests <- MCRequests
  MaxFaults = 1
INVARIANTS
  CacheSound
  ServedFrameExists
PROPERTIES
  CacheSettles
