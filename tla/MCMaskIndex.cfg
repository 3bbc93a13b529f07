SPECIFICATION MCSpec
CHECK_DEADLOCK FALSE
CONSTANTS
  None = None
  Tabs = {t1, t2}
  Videos = {v1, v2}
  f1 = f1
  f2 = f2
  Objs = {o1}
  MaxSaves = 2
  MaxTokens = 2
  MaxRestarts = 1
SYMMETRY Symmetric
INVARIANT IndexedWasReviewed
