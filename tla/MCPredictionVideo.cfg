CONSTANTS
  Anchors <- T_IDXS
  Hold <- HoldFrames
  MinMoving <- Moving
  Library <- AnyTorque
  Arguments <- Asked
  Chunk = 2
SPECIFICATION VideoFairSpec
INVARIANTS RowsAligned FullLength
PROPERTIES Ends
\* A render that has ended stays so.
CHECK_DEADLOCK FALSE
