SPECIFICATION FairSpec
CONSTANTS
  Decrypts = {d1, d2}
  Requests = {r1, r2}
  None = None
INVARIANTS
  BoundToOwnJob
  NothingLeftRegistered
PROPERTY DeadlineEndsRequests
\* Every call is made once; then nothing is left to do.
CHECK_DEADLOCK FALSE
