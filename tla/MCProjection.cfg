SPECIFICATION MCSpec
CONSTANTS
  v1 = v1
  a = a
  b = b
  p1 = p1
  p2 = p2
  Video = {v1}
  Value = {a, b}
  Proc = {p1, p2}
  Nobody = Nobody
  Archived = Archived
  MaxMutations = 2
  MaxFaults = 2
INVARIANTS
  TypeOK
  CurrentMissesNoEvent
PROPERTIES
  EventsInOrder
  EventuallyUsable
