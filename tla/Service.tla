------------------------------- MODULE Service --------------------------------
(***************************************************************************)
(* The whole service: the process lifecycle (cmd/ipa-now), the scheduler   *)
(* loop (internal/scheduler), the worker it drives, and the HTTP handlers  *)
(* that change jobs (internal/httpapi).  Handlers run beside the scheduler *)
(* and beside each other; they meet in the job store and in the files.     *)
(* Operators, the clock and the device are the environment.                *)
(***************************************************************************)
EXTENDS Worker

VARIABLES
  http,         \* the HTTP server: "off", "open", "closing"
  confirm,      \* one confirm-cleanup handler (Worker.Resolve) per confirmer
  uploading     \* the job id of the upload that holds uploadMu

httpVars == <<http, confirm, uploading>>
vars == <<storeVars, fileVars, residue, procVars, envVars, httpVars>>

Confirmation == [step : {"idle", "remove", "expire", "resolve"}, job : Jobs \cup {NoJob}]
NoConfirmation == [step |-> "idle", job |-> NoJob]

TypeOK ==
  /\ WorkerTypeOK
  /\ http \in {"off", "open", "closing"}
  /\ confirm \in [Confirmers -> Confirmation]
  /\ uploading \in Jobs \cup {NoJob}

Init ==
  /\ WorkerInit
  /\ http = "off"
  /\ confirm = [c \in Confirmers |-> NoConfirmation]
  /\ uploading = NoJob

------------------------------------------------------------------------------
(* The process.                                                              *)

\* The flock admits one process per data directory.
Start ==
  /\ pc = "down"
  /\ pc' = "recover"
  /\ UNCHANGED <<storeVars, fileVars, residue, run, exp, recovering, envVars, httpVars>>

\* Worker.Recover returned nil: listen, serve, and start the scheduler.
Serve ==
  /\ pc = "recover-device" /\ recovering = {}
  /\ pc' = "poll"
  /\ http' = "open"
  /\ UNCHANGED <<storeVars, fileVars, residue, run, exp, recovering, envVars, confirm,
                 uploading>>

\* SIGTERM, or the HTTP server failed: the signal context is done.
Stop ==
  /\ Fails("stop")
  /\ http = "open" /\ ~stopping
  /\ stopping' = TRUE
  /\ UNCHANGED <<storeVars, fileVars, residue, procVars, stable, httpVars>>

\* srv.Shutdown: no new request is accepted; requests in flight go on.
Shutdown ==
  /\ http = "open"
  /\ stopping \/ pc = "failed"
  /\ http' = "closing" /\ stopping' = TRUE
  /\ UNCHANGED <<storeVars, fileVars, residue, procVars, stable, confirm, uploading>>

\* Everything in memory is gone; rows, files and the device stay as they are.
ProcessEnds ==
  /\ pc' = "down" /\ run' = Idle
  /\ exp' = [p \in Callers |-> NoExpiration]
  /\ recovering' = {}
  /\ stopping' = FALSE
  /\ http' = "off"
  /\ confirm' = [c \in Confirmers |-> NoConfirmation]
  /\ uploading' = NoJob
  /\ UNCHANGED <<storeVars, fileVars, residue, stable>>

\* The handlers have returned and so has the scheduler.
Exit ==
  /\ http = "closing" /\ pc \in {"stopped", "failed"}
  /\ uploading = NoJob
  /\ \A c \in Confirmers : confirm[c].step = "idle"
  /\ ProcessEnds

\* Killed, out of power, or past the 75 s shutdown deadline (os.Exit).
Crash ==
  /\ Fails("crash")
  /\ pc # "down"
  /\ ProcessEnds

\* A call of Worker.Recover failed before any file was touched, or in Expire.
StartupFails ==
  /\ Fails("store") \/ Fails("files")
  /\ pc \in {"recover", "reconcile", "recover-expire"}
  /\ ProcessEnds

------------------------------------------------------------------------------
(* scheduler.Run.                                                            *)

Poll ==
  /\ pc = "poll"
  /\ IF stopping
     THEN pc' = "stopped" /\ UNCHANGED exp
     ELSE pc' = "poll-expire" /\ BeginExpire("main")
  /\ UNCHANGED <<storeVars, fileVars, residue, run, recovering, envVars, httpVars>>

PollExpired ==
  /\ pc = "poll-expire"
  /\ ExpireReturns("main")
  /\ pc' = "claim"
  /\ UNCHANGED <<storeVars, fileVars, residue, run, recovering, envVars, httpVars>>

\* The claimed snapshot decides whether Run goes straight to finish.
ClaimJob(j) ==
  /\ pc = "claim"
  /\ Claim(j)
  /\ run' = [Idle EXCEPT !.job = j,
               !.desired = IF jobs[j].cancelRequested THEN "cancelled" ELSE "none"]
  /\ pc' = IF jobs[j].cancelRequested THEN "begin" ELSE "workspace"
  /\ UNCHANGED <<fileVars, residue, exp, recovering, envVars, httpVars>>

ClaimNothing ==
  /\ pc = "claim"
  /\ \A j \in Jobs : ~Claimable(j)
  /\ pc' = "poll"
  /\ UNCHANGED <<storeVars, fileVars, residue, run, exp, recovering, envVars, httpVars>>

\* Claim or Expire failed: the scheduler returns the error.
SchedulerFails ==
  /\ \/ pc = "claim" /\ Fails("store") /\ UNCHANGED exp
     \/ pc = "poll-expire" /\ ExpireFails("main")
  /\ pc' = "failed"
  /\ UNCHANGED <<storeVars, fileVars, residue, run, recovering, envVars, httpVars>>

------------------------------------------------------------------------------
(* HTTP handlers.  One that is a single transaction can still commit while    *)
(* Shutdown waits for the requests in flight.                                *)

\* POST /api/jobs
EnqueueRequest(j) ==
  /\ http # "off"
  /\ j \notin Uploads
  /\ Enqueue(j)
  /\ UNCHANGED <<fileVars, residue, procVars, envVars, httpVars>>

\* POST /api/uploads takes uploadMu and creates inputs/<fresh id> ...
UploadBegins(j) ==
  /\ http = "open" /\ uploading = NoJob
  /\ j \in Uploads \ inputs /\ jobs[j].state = "absent"
  /\ inputs' = inputs \cup {j}
  /\ uploading' = j
  /\ UNCHANGED <<storeVars, work, artifacts, residue, procVars, envVars, http, confirm>>

\* ... and commits the row after the file and its directory are synced ...
UploadAccepted ==
  /\ uploading # NoJob
  /\ Enqueue(uploading)
  /\ uploading' = NoJob
  /\ UNCHANGED <<fileVars, residue, procVars, envVars, http, confirm>>

\* ... or refuses it (interrupted, too large, invalid, queue full) and removes
\* the file, ignoring a failure to do so.
UploadRefused ==
  /\ uploading # NoJob
  /\ \/ inputs' = inputs \ {uploading}
     \/ Fails("files") /\ UNCHANGED inputs
  /\ uploading' = NoJob
  /\ UNCHANGED <<storeVars, work, artifacts, residue, procVars, envVars, http, confirm>>

\* POST /api/jobs/{id}/cancel
CancelRequest(j) ==
  /\ http # "off"
  /\ Cancel(j)
  /\ UNCHANGED <<fileVars, residue, procVars, envVars, httpVars>>

\* POST /api/jobs/{id}/confirm-cleanup: Worker.Resolve reads the row.  The operator
\* attests a device that has been inspected and cleaned, as the review steps ask.
ConfirmBegins(c, j) ==
  /\ http = "open" /\ confirm[c].step = "idle"
  /\ UnderReview(j)
  /\ residue[j] = {}
  /\ confirm' = [confirm EXCEPT ![c] = [step |-> "remove", job |-> j]]
  /\ UNCHANGED <<storeVars, fileVars, residue, procVars, envVars, http, uploading>>

\* As in RemoveFiles, tmp/ counts only when it cannot be emptied.
ConfirmRemoves(c) ==
  /\ confirm[c].step = "remove"
  /\ \E failed \in SUBSET {"work", "inputs", "tmp"} :
       /\ failed # {} => Fails("files")
       /\ work' = IF "work" \in failed THEN work ELSE work \ {confirm[c].job}
       /\ inputs' = IF "inputs" \in failed THEN inputs ELSE inputs \ {confirm[c].job}
       /\ IF failed = {}
          THEN BeginExpire(c) /\ confirm' = [confirm EXCEPT ![c].step = "expire"]
          ELSE UNCHANGED exp /\ confirm' = [confirm EXCEPT ![c] = NoConfirmation]
  /\ UNCHANGED <<storeVars, artifacts, residue, pc, run, recovering, envVars, http, uploading>>

ConfirmExpired(c) ==
  /\ confirm[c].step = "expire"
  /\ \/ ExpireReturns(c) /\ confirm' = [confirm EXCEPT ![c].step = "resolve"]
     \/ ExpireFails(c) /\ confirm' = [confirm EXCEPT ![c] = NoConfirmation]
  /\ UNCHANGED <<storeVars, fileVars, residue, pc, run, recovering, envVars, http, uploading>>

ConfirmResolves(c) ==
  /\ confirm[c].step = "resolve"
  /\ \/ Resolve(confirm[c].job)
     \/ (Fails("store") \/ ~Resolvable(confirm[c].job)) /\ UNCHANGED storeVars
  /\ confirm' = [confirm EXCEPT ![c] = NoConfirmation]
  /\ UNCHANGED <<fileVars, residue, procVars, envVars, http, uploading>>

------------------------------------------------------------------------------
(* The environment.                                                          *)

\* The operator inspects the device of a job under review and cleans it.
OperatorCleans(j) ==
  /\ UnderReview(j) /\ residue[j] # {}
  /\ residue' = [residue EXCEPT ![j] = {}]
  /\ UNCHANGED <<storeVars, fileVars, procVars, envVars, httpVars>>

\* The clock passes expires_at.
RetentionElapses(j) ==
  /\ jobs[j].expiresAt = "future"
  /\ jobs' = [jobs EXCEPT ![j].expiresAt = "past"]
  /\ UNCHANGED <<device, operations, fileVars, residue, procVars, envVars, httpVars>>

\* From here on nothing fails, crashes or is asked to stop.
Stabilise ==
  /\ ~stable
  /\ stable' = TRUE
  /\ UNCHANGED <<storeVars, fileVars, residue, procVars, stopping, httpVars>>

------------------------------------------------------------------------------

RunStep ==
  \/ MakeWorkspace \/ WorkspaceFails \/ DecryptRefused \/ DecryptStarts
  \/ DeviceContact \/ DecryptSucceeds \/ DecryptFails \/ RetryCleanup
  \/ RecordRetry \/ RecordRetryFails \/ Backoff \/ Decide \/ EnterVerifying
  \/ InspectOutput \/ PublishOutput \/ RecordPublication \/ EnterCleaning
  \/ RemoveFiles \/ FinishCleanup \/ Settle \/ FinishExpired \/ ReadPending
  \/ EnterTerminal \/ RunFails \/ FinishExpireFails \/ ReleaseLease

RecoverStep ==
  \/ RecoverJobs \/ Reconcile \/ RecoverExpired
  \/ \E j \in Jobs : RecoverDevice(j) \/ RecoverDeviceFails(j)

\* The steps of the startup and scheduler goroutine.
MainStep ==
  \/ Start \/ Serve \/ Poll \/ PollExpired \/ ClaimNothing
  \/ \E j \in Jobs : ClaimJob(j)
  \/ (RunStep \/ RecoverStep \/ ExpireStep("main")) /\ UNCHANGED httpVars

\* The steps of one confirmation that has begun.
ConfirmStep(c) ==
  \/ ConfirmRemoves(c) \/ ConfirmExpired(c) \/ ConfirmResolves(c)
  \/ ExpireStep(c) /\ UNCHANGED httpVars

Request(j) ==
  \/ EnqueueRequest(j) \/ UploadBegins(j) \/ CancelRequest(j)
  \/ \E c \in Confirmers : ConfirmBegins(c, j)

Next ==
  \/ MainStep
  \/ (MonitorCancels \/ MonitorFails \/ JobDeadline) /\ UNCHANGED httpVars
  \/ Stop \/ Shutdown \/ Exit \/ Crash \/ StartupFails \/ SchedulerFails
  \/ UploadAccepted \/ UploadRefused
  \/ \E c \in Confirmers : ConfirmStep(c)
  \/ \E j \in Jobs : Request(j) \/ OperatorCleans(j) \/ RetentionElapses(j)

Spec == Init /\ [][Next]_vars

\* Goroutines and handlers are scheduled; the library returns, because its context
\* has a deadline it honours; a supervisor restarts the process; the clock runs; the
\* operator answers a review; and at some point the faults end.
Fairness ==
  /\ WF_vars(MainStep)
  /\ WF_vars(Shutdown \/ Exit)
  /\ WF_vars(UploadAccepted \/ UploadRefused)
  /\ \A c \in Confirmers : WF_vars(ConfirmStep(c))
  /\ \A j \in Jobs : /\ WF_vars(OperatorCleans(j))
                     /\ WF_vars(\E c \in Confirmers : ConfirmBegins(c, j))
                     /\ WF_vars(RetentionElapses(j))
  /\ WF_vars(Stabilise)

FairSpec == Init /\ [][Next \/ Stabilise]_vars /\ Fairness

------------------------------------------------------------------------------
(* Safety.                                                                   *)

\* Claim, crash recovery, quarantine and confirmation never let a second job into
\* running, verifying or cleaning while one is there.
OneActiveJob == \A j, k \in Jobs : Active(j) /\ Active(k) => j = k

\* From its claim until its deferred Release, a run holds the persisted lease of a
\* device that is not quarantined, until it quarantines it itself: no confirmation
\* in flight and no earlier job's Release takes it away.
LeaseCoversRun ==
  run.job # NoJob /\ pc \notin {"release", "abort"} =>
    device = [owner |-> run.job, quarantined |-> FALSE]

\* The device is quarantined exactly while some job waits for a confirmation, and
\* that job can be resolved: there is always a way out of a quarantine, and no
\* review leaves the device open to the next claim.
QuarantineHasReview ==
  /\ device.quarantined <=> \E j \in Jobs : UnderReview(j)
  /\ \A j \in Jobs : UnderReview(j) => Resolvable(j)

\* Whatever an operation left on the device belongs to a recorded operation of a
\* job that is not finished: completed, failed and cancelled are never reported
\* over a dirty device.
ResidueIsOwned ==
  \A j \in Jobs : /\ residue[j] \subseteq operations[j]
                  /\ residue[j] # {} => Active(j)

\* What GET /api/jobs/{id}/artifact serves.
Downloadable(j) ==
  /\ jobs[j].state = "completed"
  /\ ~jobs[j].artifactExpired
  /\ jobs[j].expiresAt = "future"

\* A job that can be downloaded has its verified artifact, left nothing on the device
\* or in its workspace, and was not cancelled.
DownloadSafe ==
  \A j \in Jobs : Downloadable(j) =>
    /\ artifacts[j] = "good"
    /\ residue[j] = {}
    /\ j \notin work
    /\ ~jobs[j].cancelRequested

\* A verified artifact that waits for a device review survives crashes, restarts and
\* other requests until its retention elapses.
PendingArtifactKept ==
  \A j \in Jobs :
    jobs[j].state = "cleaning" /\ jobs[j].pendingState = "completed"
      /\ jobs[j].expiresAt = "future" => artifacts[j] = "good"

\* An accepted cancellation keeps the job from completing.
CancelNeverCompletes ==
  \A j \in Jobs : jobs[j].cancelRequested => jobs[j].state # "completed"

\* The uploaded IPA of a job is there while the job waits and while its attempts run.
InputOutlivesQueue ==
  \A j \in Uploads :
    jobs[j].state = "queued" \/ (run.job = j /\ pc \in AttemptPcs) => j \in inputs

\* A finished job has no workspace and no input left.
FinishedLeavesNoFiles ==
  \A j \in Jobs : Terminal(jobs[j].state) => j \notin work /\ j \notin inputs

\* Every operation is accounted for by a persisted attempt, and attempts are bounded:
\* a crash never replays a job.
AttemptsAccounted ==
  \A j \in Jobs : /\ operations[j] \subseteq 1 .. jobs[j].attempts
                  /\ jobs[j].attempts <= MaxAttempts

\* GET /api/jobs lists the 200 newest jobs, by age and not by state, yet it shows every job
\* that is not finished, one that has waited behind other jobs and reviews all the while
\* included: admission counts runs and reviews too, through crashes and quarantines.
\* IPA_NOW_QUEUE_LIMIT is 20 unless set; it may be set to more than the list holds.
UnfinishedAreListed ==
  QueueLimit <= ListLimit => \A j \in Jobs : Unfinished(j) => j \in List

------------------------------------------------------------------------------
(* Action properties.                                                        *)

Rank(s) == CASE s = "absent" -> 0 [] s = "queued" -> 1 [] s = "running" -> 2
             [] s = "verifying" -> 3 [] s = "cleaning" -> 4 [] OTHER -> 5

\* A persisted state never moves backwards, and a finished job keeps its outcome.
StateMonotonic ==
  [][\A j \in Jobs : LET s == jobs[j].state
                         t == jobs'[j].state
                     IN s # t => Rank(s) < Rank(t)]_vars

\* A device operation starts only on a device on which no job left anything, its own
\* earlier attempts included.
OperationStartsClean ==
  [][operations' # operations => \A j \in Jobs : residue[j] = {}]_vars

\* The stage of a job in its abstract life, and the jobs that were withdrawn.
Phase(s) ==
  CASE s = "absent" -> "none"
    [] s = "queued" -> "waiting"
    [] s \in {"running", "verifying"} -> "working"
    [] s = "cleaning" -> "closing"
    [] OTHER -> s
phases == [j \in Jobs |-> Phase(jobs[j].state)]
cancelled == {j \in Jobs : jobs[j].cancelRequested}

\* The service implements the abstract life of its jobs.
Lifecycle == INSTANCE JobLifecycle WITH phase <- phases, withdrawn <- cancelled

ImplementsLifecycle == Lifecycle!Spec

------------------------------------------------------------------------------
(* Liveness, under FairSpec.                                                 *)

\* Every job that was admitted ends, whatever happens to it and to the others on the way.
EveryJobFinishes ==
  <>[](\A j \in Jobs : jobs[j].state = "absent" \/ Terminal(jobs[j].state))

\* An artifact whose retention has elapsed is removed in the end.
RetentionEnforced ==
  <>[](\A j \in Jobs : jobs[j].expiresAt = "past" => artifacts[j] = "none")

------------------------------------------------------------------------------
(* What the documentation says and the code does not do.                     *)

\* store.go:266 "Cancellation accepted before this transaction always wins".
CancelAlwaysWins ==
  \A j \in Jobs : jobs[j].cancelRequested /\ Terminal(jobs[j].state) =>
    jobs[j].state = "cancelled"

\* README.md:119 "Failed output is removed."
FailedOutputRemoved ==
  \A j \in Jobs : jobs[j].state \in {"failed", "cancelled"} => artifacts[j] = "none"

\* docs/automated-cleanup.md:9 "Only classified pre-device network failures can retry".
RetryOnlyBeforeContact == pc = "backoff" => ~run.touched
===============================================================================
