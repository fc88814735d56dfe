SPECIFICATION FairSpec
CONSTANTS
  Jobs = {a, b}
  Uploads = {b}
  NoJob = NoJob
  QueueLimit = 2
  MaxAttempts = 1
  Confirmers = {c1}
  Faults = {"store", "files", "crash"}
PROPERTIES
  EveryJobFinishes
  RetentionEnforced
