CONSTANTS
  Capacity = 2
  Passes = 7
  Epochs = 3
  NumBatches <- MCNumBatches
SPECIFICATION FairSpec
INVARIANTS IInv EpochAligned
PROPERTIES StreamSpec GetReturns
\* The producer fills the queue and waits once the trainer has had its epochs.
CHECK_DEADLOCK FALSE
