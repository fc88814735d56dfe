CONSTANTS
  Emitters = {e1, e2}
  helperLogQueueSize = 1
  MaxEvents = 3
  MaxRetries = 1
SPECIFICATION FairSpec
INVARIANT LatestKept
PROPERTIES RowKeepsOrder CallbacksReturn CancelReachesRun RunJoins StoreFailureEndsRun
\* Every callback has been made and the run has gone on.
CHECK_DEADLOCK FALSE
