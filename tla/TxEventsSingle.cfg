\* The documented use: each driver call ends at most one transaction.
\* The program may stop: it closes the connection, or has run its transactions.
SPECIFICATION Spec
CONSTANTS
  N = 2
  MaxChanges = 1
  MaxEndsPerCall = 1
  IterWrites = FALSE
  MaxTx = 3
  MaxRows = 2
  MaxNest = 3
  MaxErrors = 1
INVARIANTS TypeOK PendingIsTheOpenTransaction BatchesAccount RollbackOnlyDiscarded DepthBalanced
PROPERTIES KeepsThePromise
CHECK_DEADLOCK FALSE
