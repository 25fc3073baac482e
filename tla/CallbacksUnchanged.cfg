SPECIFICATION Spec
CONSTANTS
  N = 2
  MaxCalls = 2
  MaxFrames = 1
  MaxAttach = 2
  MaxDepth = 2
  Builds <- MCBuilds
  Requests <- MCRequests
  Thresholds <- MCThresholds
  Names <- MCNames
INVARIANT
  AttachingChangesNothing
CHECK_DEADLOCK FALSE
