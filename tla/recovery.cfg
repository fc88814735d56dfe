SPECIFICATION Spec
CONSTANTS
  Jobs = {a, b}
  Uploads = {b}
  NoJob = NoJob
  QueueLimit = 2
  MaxAttempts = 1
  Confirmers = {c1}
  Faults = {"store", "files", "stop", "crash"}
INVARIANTS
  TypeOK
  OneActiveJob
  QuarantineHasReview
  ResidueIsOwned
  DownloadSafe
  PendingArtifactKept
  CancelNeverCompletes
  InputOutlivesQueue
  FinishedLeavesNoFiles
PROPERTY ImplementsLifecycle
