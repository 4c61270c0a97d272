CONSTANTS
  Routes <- MCRoutes
  CacheSize = 3
  Readahead = 2
  InFlight = 2
  Width = 640
  Height = 480
  Delay = 1
  Gets = 3
SPECIFICATION ReaderFairSpec
INVARIANTS FramesRight GetsSucceed IndexesAgree
PROPERTIES ReadersEnd
\* A program ends.
CHECK_DEADLOCK FALSE
