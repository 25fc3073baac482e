\* Two transactions may end in one call: which one does the rollback name?
\* The program may stop: it closes the connection, or has run its transactions.
SPECIFICATION Spec
CONSTANTS
  N = 1
  MaxChanges = 2
  MaxEndsPerCall = 2
  IterWrites = FALSE
  MaxTx = 2
  MaxRows = 1
  MaxNest = 2
  MaxErrors = 0
INVARIANTS RollbackOnlyDiscarded
CHECK_DEADLOCK FALSE
