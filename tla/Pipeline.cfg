CONSTANTS
  r1 = r1
  r2 = r2
  r3 = r3
  Runs = {r1, r2, r3}
  Permits = 1
  MaxChunks = 1
  MaxPages = 2
  MaxPolls = 1
  CountsFields = TRUE
SPECIFICATION FairSpec
INVARIANTS
  TypeOK
  PermitsAreKept
  OnlyInterruptedLeaveFiles
  RetryableIsNotCommitted
PROPERTIES
  RunsKeepContract
  EveryRunEnds
\* The runs of the instance may all have ended.
CHECK_DEADLOCK FALSE
