CONSTANTS
  p1 = p1
  NULL = NULL
  N = 2
  Publisher = {p1}
  Batch = 2
  MaxFaults = 1
  Poison = {}
SPECIFICATION Spec
INVARIANTS
  AtLeastOnce
