CONSTANTS
  MaxSize = 6
  MaxThreadCount = 6
  ThreadsMayFail = TRUE
SPECIFICATION Spec
INVARIANT TypeOK
INVARIANT AppliedOnce
INVARIANT ChunksBalanced
INVARIANT CleanWhenThrown
PROPERTY Completes
CHECK_DEADLOCK FALSE
