CONSTANTS
  NumGpus = 2
  BootRetries = 2
  MaxPods = 3
  Runs = 2
  SshMayFail <- Unreliable
  SlowStart = FALSE
  ReuseBusy = FALSE
SPECIFICATION FairSpec
INVARIANTS Accounted ReportedVideoIsFresh TerminatedWithFile
PROPERTIES SuccessIsNoticed InvocationEnds
\* The bound on the runs ends it.
CHECK_DEADLOCK FALSE
