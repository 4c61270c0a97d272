CONSTANTS
  NumWorkers = 2
  SeqLen = 2
  GtLen <- MCGtLen
  Initial <- MCInitial
  Perm <- MCPerm
  Passes = 2
  Prefetch = 2
  MayFail = TRUE
SPECIFICATION FairSpec
INVARIANTS BatchIsRowwise RowsAreDistinctSegments
PROPERTIES StreamSpec PassesEnd
\* The bound on the passes, or an error, stops the loader.
CHECK_DEADLOCK FALSE
