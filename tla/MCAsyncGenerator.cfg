CONSTANTS
  N = 4
  Workers = {u, v}
  Room = 1
  InSize = 2
  MaxOutstanding = 2
  Resends = 1
  Crashes = 2
SPECIFICATION FairSpec
INVARIANTS YieldsInOrder EndMeansAll
PROPERTIES Ends
\* The loop ends.
CHECK_DEADLOCK FALSE
