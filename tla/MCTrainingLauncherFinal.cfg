CONSTANTS
  NumGpus = 1
  BootRetries = 1
  MaxPods = 2
  Runs = 2
  SshMayFail <- Reliable
  MayHang = FALSE
  MayLosePod = FALSE
SPECIFICATION FairSpec
INVARIANTS FinalIsOfThisRun
CHECK_DEADLOCK FALSE
