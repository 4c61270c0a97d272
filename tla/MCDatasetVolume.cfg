CONSTANTS
  NumSegs = 2
  ParAll = 2
  ParGrow = 2
  Count = 1
  MayCrash = TRUE
  Runs = 3
SPECIFICATION FairSpec
INVARIANTS OneWriter ListedIsUsable PairsMatch SplitsAgree GrownRunTrainsOnAll
PROPERTIES RunEnds
\* The bound on the runs.
CHECK_DEADLOCK FALSE
