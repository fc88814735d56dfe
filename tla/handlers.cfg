SPECIFICATION Spec
CONSTANTS
  Jobs = {a, b}
  Uploads = {}
  NoJob = NoJob
  QueueLimit = 1
  MaxAttempts = 2
  Confirmers = {c1, c2}
  Faults = {"store", "crash"}
SYMMETRY HandlerSymmetry
INVARIANTS
  AttemptsAccounted
  LeaseCoversRun
PROPERTIES
  StateMonotonic
  OperationStartsClean
