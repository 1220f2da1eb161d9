CONSTANTS
  r1 = r1
  Runs = {r1}
  Permits = 1
  MaxChunks = 1
  MaxPages = 1
  MaxPolls = 1
  CountsFields = FALSE
SPECIFICATION Spec
INVARIANTS
  ExtractedIsCommitted
\* The run of the instance may have ended.
CHECK_DEADLOCK FALSE
