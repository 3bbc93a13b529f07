SPECIFICATION MCSpec
CONSTANTS
  c1 = c1
  c2 = c2
  g1 = g1
  g2 = g2
  None = None
  Parts = {"publish", "revision", "segments"}
  Caller = {c1}
  MaxJobs = 1
  MaxAttempts = 2
  MaxRevision = 2
  MaxFaults = 1
SYMMETRY Symmetric
INVARIANTS
  TypeOK
  DoneIsComplete
  StagesSound
PROPERTIES
  PublishIsCurrent
  GenerationImmutable
