CONSTANTS
  Processes = {p1, p2}
  None = None
  MaxStarts = 2
SPECIFICATION Spec
INVARIANTS OneProcessUsesData StoreOutlivesWork FailureReported
PROPERTIES StopEndsProcess
\* The last process has ended.
CHECK_DEADLOCK FALSE
