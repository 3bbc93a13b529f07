SPECIFICATION MCSpec
CONSTANTS
  c1 = c1
  c2 = c2
  g1 = g1
  g2 = g2
  None = None
  Parts = {"publish"}
  Caller = {c1}
  MaxJobs = 1
  MaxAttempts = 1
  MaxRevision = 1
  MaxFaults = 0
INVARIANTS
  NoCircularWait
