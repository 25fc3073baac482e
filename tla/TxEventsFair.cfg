\* Liveness of the documented use, one listener.
\* The program may stop: it closes the connection, or has run its transactions.
SPECIFICATION FairSpec
CONSTANTS
  N = 1
  MaxChanges = 1
  MaxEndsPerCall = 1
  IterWrites = FALSE
  MaxTx = 2
  MaxRows = 1
  MaxNest = 3
  MaxErrors = 1
PROPERTIES AnnouncesEveryCommit
CHECK_DEADLOCK FALSE
