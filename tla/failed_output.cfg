SPECIFICATION Spec
CONSTANTS
  Jobs = {a}
  Uploads = {}
  NoJob = NoJob
  QueueLimit = 1
  MaxAttempts = 2
  Confirmers = {c1}
  Faults = {"files"}
INVARIANT FailedOutputRemoved
