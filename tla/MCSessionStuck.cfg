SPECIFICATION MCSpec
CHECK_DEADLOCK FALSE
CONSTANTS
  None = None
  Caller = {}
  MaxJobs = 0
  MaxAttempts = 1
  MaxRevision = 0
  Tabs = {t1}
  Segments = {g1}
  Keep = 1
  MaxSessions = 1
  MaxTests = 1
  MaxSessionFaults = 0
INVARIANT
  WaitingIsOffered
