CONSTANTS
  d1 = d1
  d2 = d2
  d3 = d3
  d4 = d4
  Doc = {d1, d2, d3, d4}
  Batch = 2
SPECIFICATION FairSpec
INVARIANTS
  TypeOK
  WindowIsKept
PROPERTIES
  OldestArePurged
