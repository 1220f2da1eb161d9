CONSTANTS
  c1 = c1
  c2 = c2
  k1 = k1
  NULL = NULL
  DocId = {c1, c2}
  Key = {k1}
  MaxTries = 1
  CountsFields = TRUE
SPECIFICATION Spec
SYMMETRY Symmetry
INVARIANTS
  TypeOK
  EventsAreWellFormed
  AcceptedIsBacked
  OneAcceptedPerKey
PROPERTIES
  ImplementsContract
\* Every call of the instance may have been answered.
CHECK_DEADLOCK FALSE
