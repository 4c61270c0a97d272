CONSTANTS
  NumGpus = 1
  BootRetries = 1
  MaxPods = 2
  Runs = 2
  SshMayFail <- Unreliable
  MayHang = TRUE
  MayLosePod = TRUE
SPECIFICATION FairSpec
INVARIANTS WatchedToTheEnd ConversionsFit
PROPERTIES KilledOnceSaved WaitEnds
\* The bound on the runs ends it.
CHECK_DEADLOCK FALSE
