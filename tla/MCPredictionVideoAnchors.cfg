CONSTANTS
  Anchors <- T_IDXS
  Hold <- HoldFrames
  MinMoving <- Moving
  Library <- AnyTorque
  Arguments <- Asked
  Chunk = 2
SPECIFICATION VideoSpec
INVARIANTS GtTakesFirstSample
CHECK_DEADLOCK FALSE
