CONSTANTS
  Chunks <- MCChunks
  MaxBatch = 2
  MaxInserts = 3
  MaxConvs = 2
SPECIFICATION Spec
CHECK_DEADLOCK FALSE
INVARIANTS JumpsFollow NoSkippedCopy OrderKept RemapOnce PendingOwned
