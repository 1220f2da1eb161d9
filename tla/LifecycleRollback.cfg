CONSTANTS
  c1 = c1
  c2 = c2
  k1 = k1
  NULL = NULL
  DocId = {c1, c2}
  Key = {k1}
  MaxTries = 1
  CountsFields = FALSE
SPECIFICATION Spec
INVARIANTS
  RetryIsSafe
\* Every call of the instance may have been answered.
CHECK_DEADLOCK FALSE
