CONSTANTS
  c1 = c1
  k1 = k1
  NULL = NULL
  DocId = {c1}
  Key = {k1}
  MaxTries = 2
  CountsFields = TRUE
SPECIFICATION FairSpec
INVARIANTS
  OutcomeMatchesEvent
  OneEventUnlessDisturbed
  SuccessMeansResolved
PROPERTIES
  TerminalIsFinal
  AcceptedIsResolved
  RunsKeepContract
\* Every call of the instance may have been answered.
CHECK_DEADLOCK FALSE
