SPECIFICATION MCSpec
CONSTANTS
  j1 = j1
  j2 = j2
  w1 = w1
  w2 = w2
  Job = {j1, j2}
  MaxAttempts = 2
  MaxIncarnations = 2
  ReapLimit = 1
  Priority <- MCPriority
  WorkerKind <- MCWorkerKind
INVARIANTS
  TypeOK
  RowsSound
  OwnedCommitExclusive
  WorkersSound
PROPERTIES
  SettledStays
  CancelSticks
  ImplementsLifecycle
  FencedCommitByCurrentLease
  EverySubmissionSettles
  CancellationIsAnswered
