CONSTANTS
  c1 = c1
  k1 = k1
  NULL = NULL
  DocId = {c1}
  Key = {k1}
  MaxTries = 1
  CountsFields = FALSE
SPECIFICATION Spec
INVARIANTS
  CancelledBeforeCompletion
\* Every call of the instance may have been answered.
CHECK_DEADLOCK FALSE
