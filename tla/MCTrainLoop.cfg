CONSTANTS
  NumWorkers = 2
  SeqLen = 2
  GtLen <- MCGtLen
  Initial <- MCInitial
  Perm <- MCPerm
  ValInitial <- MCValInitial
  ValPerm <- MCValPerm
  Passes = 8
  Epochs = 3
  ValFrequency = 4
  RecurrWarmup = TRUE
SPECIFICATION Spec
INVARIANTS HiddenMatchesRows OnlyWarmBatchesUpdate ResultIsTrained
\* Training ends.
CHECK_DEADLOCK FALSE
