\* Several transactions in one call, and writes stepped through iter().
\* The program may stop: it closes the connection, or has run its transactions.
SPECIFICATION Spec
CONSTANTS
  N = 2
  MaxChanges = 1
  MaxEndsPerCall = 2
  IterWrites = TRUE
  MaxTx = 3
  MaxRows = 1
  MaxNest = 3
  MaxErrors = 0
INVARIANTS PostcommitOnlyLanded LandedIsAccountedFor
CHECK_DEADLOCK FALSE
