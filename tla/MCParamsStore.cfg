CONSTANTS
  Procs = {p, q}
  Keys = {a, b}
  Temporary = {b}
  Vals = {v}
  None = None
  Dirs = 4
  Ops = 4
  Faults = 2
SPECIFICATION FairSpec
INVARIANTS ReturnedIsDurable ReadsAreCurrent
PROPERTIES UpdatesAreWhole OpsEnd
\* The bound on the operations.
CHECK_DEADLOCK FALSE
