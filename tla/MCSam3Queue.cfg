SPECIFICATION MCSpec
CHECK_DEADLOCK FALSE
CONSTANTS
  None = None
  Caller = {c1, c2}
  MaxJobs = 2
  MaxAttempts = 3
  MaxRevision = 2
  Tabs = {t1, t2}
  Segments = {g1}
  Keep = 1
  MaxSessions = 2
  MaxTests = 2
  MaxSessionFaults = 1
INVARIANTS
  QueueTypeOK
  OneLiveJob
  OwnerKeepsRow
  SessionsSound
PROPERTIES
  EnqueueMonotone
  SettledStays
  GpuIsReleased
