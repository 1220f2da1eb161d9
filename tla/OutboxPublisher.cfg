CONSTANTS
  p1 = p1
  p2 = p2
  NULL = NULL
  N = 3
  Publisher = {p1, p2}
  Batch = 2
  MaxFaults = 1
  Poison = {2}
SPECIFICATION FairSpec
INVARIANTS
  TypeOK
  DuplicateOnlyAfterExpiry
  PublishedWasProduced
PROPERTIES
  CommittedIsPublished
