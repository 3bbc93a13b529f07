SPECIFICATION MCSpec
CONSTANTS
  None = None
  Requests = {q1, q2}
  Segment = {1, 2, 3}
  MaxRevision = 3
  MaxVersion = 2
  MaxTokens = 2
  ShortLists <- MCShortLists
  SegmentsOf <- MCSegmentsOf
  MaxAttempts = 2
  MaxCrashes = 1
  MaxIoErrors = 0
INVARIANTS
  JournalSurvivesCleanup
