# ipa-now: a TLA+ model of the job service

ipa-now takes requests to decrypt an iOS application (by App Store target or as an
uploaded IPA), runs them one at a time on a single attached device, verifies the
result, publishes it for a limited time and cleans the device. The program is small;
what is hard is that one device, one SQLite file and a few directories have to stay
consistent through cancellations, retries, failed cleanups, operator confirmations,
crashes and restarts. This directory models that part, the small concurrent machines
beside it (progress monitor, 2FA broker, saved session, HTTP transport, the process
itself, the page that polls it), checks them with TLC and proves with TLAPS, for every
value of the constants, each safety property that TLC checks and the refinement of the
abstract job life. Liveness is left to TLC. Paths below are relative to `src/`.

## The system

| Part | State it keeps | Operations |
| --- | --- | --- |
| Job store, `internal/jobs` | SQLite rows: jobs, one device row (owner, quarantined), operations | Enqueue, Claim, Change, Cancel, Metadata, Retry, StartOperation, BeginCleanup, Quarantine, Resolve, ResolveAutomatic, Release, Recover |
| Worker, `internal/worker` | locals of one run, a progress channel of capacity one; `work/`, `inputs/`, `artifacts/` | Run with its monitor, finish, cleanupDevice, Expire, Recover, Resolve |
| Scheduler, `internal/scheduler` | none | loop: Expire, Claim, Run |
| Engine adapter, `internal/engine` | the helper log queue | Decrypt, Cleanup, Verify; classification of failures; helper log and flush |
| HTTP transport, `internal/engine/transport.go` | the active job's context | Scope, RoundTrip |
| Device library (external) | the device | contact, installation, its own cleanup |
| Storage, `internal/storage` | directories, the lock of the data directory | Open, Workspace, Publish, Remove, ValidateIPA |
| HTTP API, `internal/httpapi` | upload mutex | host and origin gate; create, upload, cancel, confirm-cleanup, list, download |
| Process, `cmd/ipa-now` | signal context, results of worker and server | startup, serve, shutdown |
| Secret store, `internal/secrets` | `secrets/account.json` | Load, Save |
| 2FA broker, `internal/secrets` | the pending job and its channel, in memory | Request, Submit, Pending |
| Configuration, logging | none at run time | parsing, formatting |
| Web client, `web/` | last response, sequence number, timer, abort controller | polling, actions |

The scheduler's goroutine runs startup recovery first, then the loop. HTTP handlers
run beside it and beside each other. A monitor goroutine runs beside each attempt and
turns a persisted cancellation into a cancelled context. All of them meet in the store
(one connection, so one transaction at a time) and in the directories (no lock).
Nothing else is shared, with one exception: the confirm-cleanup handler calls the
worker's `Resolve`, which removes files and runs `Expire` outside any transaction.

What makes this hard:

- a run consists of a dozen transactions with file and device work between them, and
  the process can end between any two;
- `Expire` works on a snapshot of all rows and has several concurrent callers;
- a confirmation reads its job, works on files, and only then writes the device row,
  by which time another job may own the device;
- a cancellation is accepted until the transaction that enters `cleaning`, while the
  worker decides on earlier reads;
- any removal, rename, store call or device cleanup can fail on its own;
- a quarantined device stops every job, so a quarantine nobody can lift is fatal;
- the library calls back from goroutines of its own into two bounded channels, and must
  never be made to wait for the database, nor, below debug level, for the log;
- shutdown has a deadline that nobody below it has to keep, and the next process may be
  started before it is over;
- the page polls, acts and remounts at once, and answers overtake each other.

## The modules

`JobStore` is the store. A job row is a record; an id without a row is in state
`"absent"`. `device` is the device row, `operations[j]` the operation records of a job.
Each transaction is one operator with the code's conditions as conjuncts. An operator
describes the call that commits; a call that returns an error changes nothing, and the
caller's actions say what happens then. Times are compared with the clock and with
each other only: `expiresAt` is unset, ahead or passed, and `after` is the set of rows
with an earlier `created_at`, which is what the order of `Claim` depends on.

`Worker` adds the files (`work`, `inputs`, `artifacts`), the device (`residue[j]`: the
operations of a job that left something on it) and the goroutine that runs jobs: `pc`
is the next store, file or device call, `run` the locals of `Run` and `finish` together
with the monitor, `exp[p]` the activation of `Expire` of a caller `p`, `recovering` the
jobs startup has still to clean. Local code between two calls belongs to the call
before it.

| Code | Actions |
| --- | --- |
| `Worker.Run`, attempts | MakeWorkspace, WorkspaceFails, DecryptRefused, DecryptStarts, DeviceContact, DecryptSucceeds, DecryptFails, RetryCleanup, RecordRetry, RecordRetryFails, Backoff |
| monitor goroutine, deadline | MonitorCancels, MonitorFails, JobDeadline |
| `Worker.Run`, verification | Decide, EnterVerifying, InspectOutput, PublishOutput, RecordPublication |
| `Worker.finish` | EnterCleaning, RemoveFiles, FinishCleanup, Settle, FinishExpired, ReadPending, EnterTerminal, RunFails, FinishExpireFails, ReleaseLease |
| `Worker.Expire` | BeginExpire, ExpireSkip, ExpireRemove, ExpireMark, ExpireReturns, ExpireFails |
| `Worker.Recover` | RecoverJobs, Reconcile, RecoverExpired, RecoverDevice, RecoverDeviceFails |

`Service` composes the worker with the process (Start, Serve, Stop, Shutdown, Exit,
Crash, StartupFails), the scheduler (Poll, PollExpired, ClaimJob, ClaimNothing,
SchedulerFails), the handlers (EnqueueRequest, UploadBegins, UploadAccepted,
UploadRefused, CancelRequest, ConfirmBegins, ConfirmRemoves, ConfirmExpired,
ConfirmResolves) and the environment (OperatorCleans, RetentionElapses). `Next`, the
specifications and the properties are here.

`JobLifecycle` is the abstract specification: what a client may rely on about its job
whatever happens inside. `Service` implements it under the refinement mapping
`Lifecycle`: `phases` gives every row its abstract phase (`Phase`: running and verifying
are both "working", cleaning is "closing"), `cancelled` is the set of rows with
`cancel_requested`. `MCService` adds the symmetry set.

Three modules stand beside the service. They share no state with it: the worker sees
their outcome only as a decryption that is refused (DecryptRefused) or goes on.

- `AuthBroker`: each call of `Request` has its own one-place channel; opening, the
  select, and the deferred reset are steps of their own, `Submit` is one (it holds the
  mutex throughout). The select may give up although a code is there.
- `SecretStore`: `Save` step by step against a disk on which a rename can be lost until
  the directory is synced and unsynced data can come back torn. Processes follow each
  other under different accounts and machine identities. `allowed` is a history
  variable: what the file may hold according to the saves that returned.
- `JobTransport`: `RoundTrip` step by step, beside the goroutine of its
  `context.AfterFunc` and the calls of `Decrypt` that open and release the scope.

Three more model what `Service` takes for one step, or the goroutines around it.

- `ProgressMonitor`: the goroutines of one `Worker.Run` and the log of the adapter. A
  callback of the library enqueues its record (EmitLogs), writes its own line to the
  operator's log when the level is debug (EmitWrites; `debug` is chosen by Init and
  stays) and then sends its event in up to three steps (EmitSends, EmitDrains,
  EmitResends), since the monitor and other callbacks can use the channel between its
  selects. The operator's log may hang for ever, for the consumer of the queue
  (LogWrites) and for a callback alike (HeldByLog); the flush of the queue is left out,
  since only the adapter's tests call it. The monitor's loop is MonitorTick, MonitorReceives,
  MonitorPersists and MonitorDone; the run records retries (Retry),
  closes `done` (CloseDone) and waits (Join). Events are numbers; `older`, `sent` and
  `persisted` are history variables. `Worker` keeps only the effect of the monitor on
  the run's context, and its control points keep the row in a state that
  `Store.Progress` accepts while the monitor runs.
- `ServiceProcess`: `run()` of several processes on one data directory. `proc[p]` has
  the place in `run()` and what the process's goroutines hold; `Gone` is the end of a
  process by whatever cause. Here the lock, the order of the deferred closes, the
  select over signal, worker and server, and the two `os.Exit` calls at the deadline
  are steps; the jobs are not there.
- `WorkspacePoll`: `useWorkspace` and the refreshes of `useAction`. Each stretch of
  JavaScript up to an `await` is one step. The service is a version that grows, read
  twice by every refresh.

`ServiceProof` (types and lease), `OutcomeProof` (the rest of `Service`), and
`AuthBrokerProof`, `SecretStoreProof`, `JobTransportProof`, `ProgressMonitorProof`,
`ServiceProcessProof` and `WorkspacePollProof`, one for each module of that name, hold
the theorems. Operators whose comment begins with "Mutant" are
faulty variants of the operator after them; no specification uses them, and each breaks
the property named with it in `PROJECT.json`.

### What is assumed about the outside

- The library confirms the cleanup of an operation only when nothing of it is left on
  the device. Everything else it does is free: it may change the device at any moment
  after contact, may or may not clean up on exit, may return success with residue, and
  may return an output that verification rejects.
- When a process dies, nothing more is done to the device. An operation that goes on
  without its process would have to be stopped by the cleanup that follows.
- The operator confirms a review only after the device was inspected and cleaned, as
  the review asks (`residue[j] = {}` in ConfirmBegins). The code cannot check this.
- `flock` admits one process and is released when its last holder is gone. (That this
  makes the service single is shown by `ServiceProcess`.)
- `tmp/` holds scratch copies of the library that no row names: emptying it is no step
  of the model, failing to empty it is (RemoveFiles, ConfirmRemoves, Reconcile).
- SQLite transactions are atomic and durable. A store fault is an error without effect.
- ValidateIPA and Verify accept exactly the outputs called `"good"`.
- Decrypt of the library returns after the HTTP round trips it started have returned.
  A request left behind by one job could otherwise be tied to the next one's context:
  the transport has no means to tell them apart.
- `net/http` ends a request whose context is cancelled, and `Shutdown` returns once no
  handler is active or its context is done.
- `fetch` rejects when its signal is aborted. What the service persists, as a page
  sees it, does not go back.

`Faults` names what may go wrong in a run: `"store"` (a store call fails), `"files"` (a
removal, rename or sync fails, at any subset of the removals of one step), `"stop"`
(SIGTERM) and `"crash"`. The guard `Fails(kind)` allows each until `stable`, which only
the fair specification ever sets.

## Properties

| Property | Hazard it is aimed at |
| --- | --- |
| OneActiveJob | crash recovery, quarantine and claims letting two jobs be active |
| LeaseCoversRun | a late confirmation or Release clearing the owner of a later job |
| QuarantineHasReview | a quarantine with no way out; a review that leaves the device open |
| ResidueIsOwned | a terminal state reported over a dirty device |
| OperationStartsClean | a retry or the next job starting over the leftovers of an attempt |
| DownloadSafe | serving an unverified, missing or cancelled artifact |
| PendingArtifactKept | startup or Expire deleting an artifact that waits for a review |
| CancelNeverCompletes | a cancellation that races verification and publication |
| InputOutlivesQueue | startup or a refused upload deleting the input of a waiting job |
| FinishedLeavesNoFiles | one of several removals failing unnoticed |
| AttemptsAccounted | loop counter, persisted attempts and operations disagreeing |
| StateMonotonic | a stale write moving a finished job |
| ImplementsLifecycle | any path, crashes included, that replays or revives a job |
| EveryJobFinishes | starvation behind a quarantine, a lost row, a shutdown that hangs |
| RetentionEnforced | an artifact that outlives its retention |
| ChallengeHasCaller | a late reset or a second Request clearing a pending challenge |
| CodeStaysInChallenge | a late code answering another job or a later challenge |
| ChallengeEnds | a deadline that races a code and leaves the broker pending |
| SavedSessionSurvives | a crash during Save losing or tearing the session |
| TokenMatchesIdentity | a saved token used after the machine identity changed |
| BoundToOwnJob | a request running under another job's context |
| NothingLeftRegistered | a path of RoundTrip that ends without release |
| DeadlineEndsRequests | a job that ends between the steps of RoundTrip |
| LatestKept | two goroutines emptying the channel and losing the last event that entered it |
| RowKeepsOrder | progress that goes back when callbacks and monitor interleave |
| CancelReachesRun | a cancellation the monitor does not see |
| RunJoins | the run waiting for a monitor that does not return |
| StoreFailureEndsRun | a failed store call of the monitor that leaves the library running, or the run going on without it |
| CallbacksReturn | a hung log that holds up device work, beyond the debug line |
| OneProcessUsesData | a new process meeting the old one's store, worker or handlers |
| StoreOutlivesWork | the store closed under a handler or a library call |
| FailureReported | the worker's error lost behind a signal |
| StopEndsProcess | a shutdown that waits for what hangs |
| OnePollChain | polling that doubles or stops after remounts and failures |
| ViewNeverGoesBack | an overtaken answer shown after a newer one |
| UnmountIsQuiet | an answer that arrives after the unmount |
| ViewCatchesUp | a failure, an action or an abort that leaves the page behind |

## Runs

Figures are for two workers.

| Run | Instance | States | Shows |
| --- | --- | --- | --- |
| `recovery` | 2 jobs (one upload), 1 attempt, 1 confirmation, all faults | 1.0 M, about 75 s | the safety invariants and the refinement through every fault at every step |
| `handlers` | 2 jobs, 2 attempts, queue of 1, 2 confirmations, store faults and crashes | 3.1 M, 120 s | stale reads of concurrent handlers are harmless; attempts and operations agree; operations start on a clean device |
| `settles` | 2 jobs (one upload), 1 confirmation, store and file faults, crashes, fair | 0.8 M, 90 s | every job finishes, retention is enforced |
| `auth` | 3 calls, 3 codes, 2 jobs, fair | 73 k, 7 s | the broker's challenges stay apart and end |
| `session` | 2 accounts, 2 identities, 3 tokens | 7 k, 1 s | the saved session survives every crash |
| `transport` | 2 decryptions, 2 requests, fair | 5 k, 1 s | requests follow their own job |
| `progress` | 2 callbacks, 3 events, 1 retry, log queue of 1, any level, fair | 0.5 M, 130 s | the last event to enter the channel is kept, and the order; only the debug line waits for the log; cancellation arrives; the join; a store failure ends the run |
| `workspace` | 2 mounts, 2 changes, fair | 1.6 M, 70 s | the page never goes back, polls once, catches up |
| `shutdown` | 2 processes, 2 starts each, fair | 3 k, 1 s | lock, store and exit status through every shutdown |
| `cancel_wins`, `failed_output`, `retry_contact` | 1 job | small | the three disagreements below |

Why the bounds are enough to be interesting: two jobs are what it takes for one run to
disturb another (there is one device, and a third job would only wait); two
confirmations are what it takes for one to be stale after the other resolved; two
attempts give a first and a last. Queue limit 2 lets both jobs in; `handlers` has limit
1, so that the second job meets a full queue. Nothing
else is bounded in `Service`: a row is used once, attempts are bounded by the code
itself, and the process may crash and restart any number of times. Three calls of
`Request` give one refused or late beside two in sequence; three tokens an old, a new
and a renewed one (`MaxTokens` bounds `SecretStore`); two requests and two scopes one
of each before and after a change. Deadlock is checked wherever the system goes on (the
process can always be polling); `auth` and `transport` make each of their calls once
and then stop, and so do the other runs whose cfg says so. Three events and two callbacks are
enough for an event to be drained and overtaken while another is being persisted.
Two mounts give a stale controller beside a live one; two changes an answer that is
older than the one shown. Two processes with two starts each give every overlap of a
shutdown with a start on either side. Symmetry (over jobs and over confirmers) is used only
in runs without liveness whose constants treat the members alike.

### Fairness

`FairSpec` assumes that the goroutine of startup and scheduler takes its next step (Go
schedules it; the library returns because its context has a deadline it honours; a
supervisor restarts a process that ended); that shutdown and begun handlers go on; that
the clock reaches `expires_at`; that the operator inspects a device under review and
confirms it; and that at some point the faults end (`Stabilise`): with store errors for
ever nothing can be promised. Requests are not fair. All of it is weak fairness.
Confirmation needs no more than that, because a review stays open until it is answered.

In `AuthBroker` the goroutine of a call is fair, the operator and the deadline are not:
ChallengeEnds speaks of challenges that have a code or a context that is done. In
`JobTransport` the steps of RoundTrip and the hook's goroutine are fair, and a
cancelled request ends; a peer that never answers is allowed.

In `ProgressMonitor` callbacks, monitor and run are scheduled, the ticker fires, and
the library returns once its context is done. The monitor's select may find tick and
`done` ready together again and again and chooses at random, which is the one place for
strong fairness (MonitorDone). Of the operator's log nothing is assumed where callbacks
meet it: a callback inside its debug line need not come out of it, and the library need
not return while one is there, so RunJoins and StoreFailureEndsRun speak of logs that
take such a line in the end (LogMoves). The lines that the run's own goroutine writes
between attempts and after them are taken to return. In
`ServiceProcess` `run()` goes on and timers fire; handlers, worker and library may hang
for ever. In `WorkspacePoll` timers fire and the live poll is answered; refreshes of actions may stay unanswered,
and ViewCatchesUp asks for a hook that stays mounted and a service that has become
reachable.

### Three disagreements between documents and code

1. `cancel_wins`: `Expire` sets the pending outcome of every cleaning row whose
   retention has elapsed to `failed` (`internal/worker/worker.go:393`), also over
   `cancelled`. A job cancelled after its publication was recorded, with a review open
   when retention elapses, ends `failed`. `internal/jobs/store.go:266`: "Cancellation
   accepted before this transaction always wins". What does hold is
   CancelNeverCompletes.
2. `failed_output`: when `finish` cannot remove the artifact of a failed job, the
   confirmation that settles the review removes `work/`, `inputs/` and `tmp/` and not
   `artifacts/` (`internal/worker/worker.go:412`). `README.md:119`: "Failed output is
   removed." The next restart removes it, and it is never served (DownloadSafe).
3. `retry_contact`: a lock probe that failed is retryable although the device has been
   contacted (`internal/engine/engine.go:234`). `docs/automated-cleanup.md:9`: "Only
   classified pre-device network failures can retry". The retry is preceded by a
   confirmed cleanup, so OperationStartsClean holds.

There is a fourth, without a run of its own: CallbacksReturn has an exception.
`internal/engine/engine.go:125` says "Device work must keep moving even when the operator
log is slow", and `docs/ipadecrypt.md:7` that excess diagnostics are dropped "instead of
blocking device work". That is so for the helper's records. But with
`IPA_NOW_LOG_LEVEL=debug` `OnEvent` also writes "engine progress" itself
(`internal/engine/engine.go:204`), before it passes the event on, and a log that hangs
holds the library there. Without `HeldByLog(e)` in CallbacksReturn, TLC shows it. The
test of a blocked log (`internal/engine/engine_test.go:155`) does not meet this, since
its handler is not enabled below info.

## Proofs

For all values of the constants that satisfy the assumptions of `JobStore` and
`Worker` (`NoJob` is no job, uploads are jobs, `MaxAttempts` is positive, `"main"` is
no confirmer, `Faults` are known kinds):

- **TypeCorrect**: `Spec => []TypeOK`. `TypeOK` is not inductive: several actions use
  `run.job` or a confirmation's job as an index of `jobs`, which is type correct only
  while it names a job. `TypeInv` adds `JobsNamed`, which says at which control points
  it does.
- **DeviceServesOneJob**: `Spec => []OneActiveJob`.
- **RunKeepsLease**: `Spec => []LeaseCoversRun`.
- **QuarantineIsResolvable**: `Spec => []QuarantineHasReview`.

The last three come from one invariant, `LeaseInv`. That two jobs are never active
cannot be shown without knowing why a claim is refused while a job is active: because
the device has an owner, or is quarantined. `HoldInv` says that the active job outside
a review is the job of the run, which holds the lease; `QuarantineInv` ties the
quarantine to a review, and `RowsInv` says that a row under review has a pending
outcome, so that resolving it is possible. `SettledInv` says in which control states
nothing is held, with startup as the case in which a row may be active without a run,
since the crash left it so and `Recover` has not run yet. `FinishInv` says which rows
a run can be at in the steps of `finish`. The stale confirmation is covered because
`Resolve` tests the review in its own transaction, and `QuarantineInv` with
`OneActiveJob` means that no job is claimed while a review is open. `ServiceProof`
has one lemma per group of actions for types and one for `LeaseInv`.

`OutcomeProof` builds on both. Its invariant `ServiceInv` has, beside `TypeInv` and
`LeaseInv`, six groups, each inductive with the help of the ones before it, so each has
its own lemmas (the run; startup, scheduler and process; everybody else):

| Group | Says | Needed because |
| --- | --- | --- |
| `ControlInv` | the row's state at each control point of a run; a begun confirmation's job is cleaning or finished; nothing runs beside startup; an upload in progress has no row | every other group argues about a row from a control point, also after a cancellation or a stale confirmation came between |
| `DeviceInv` | residue belongs to recorded operations of an active job; where an attempt may start, where a run has decided without a review and where a confirmation is in progress, the job has left nothing | a terminal state is written many steps after the cleanup that justifies it |
| `AttemptInv` | loop counter, `attempts` and operations at each step of the loop | `StartOperation` and `Retry` are different transactions, with crashes between them |
| `FilesInv` | inputs exist as long as they are needed; from the removal on a run's and a confirmation's job has no files; after reconciliation nothing is left that no waiting job needs | removal and terminal state are different steps, and four parties remove |
| `OutcomeInv` | what is pending, chosen or recorded agrees with the cancellation and with the artifact | the choice of an outcome, the publication and the end of the job are up to a restart and a review apart |
| `QueueInv` | the unfinished jobs fit the queue; whoever came after an unfinished job waits | the list shows the most recent jobs first and has a limit |

From it follow

- **ResidueStaysOwned**, **AttemptsAreAccounted**, **InputsOutliveQueue**,
  **FinishedJobsLeaveNoFiles**, **DownloadsAreSafe**, **PendingArtifactsAreKept**,
  **CancelledNeverComplete**, **UnfinishedJobsAreListed**: `Spec => []P` for
  ResidueIsOwned, AttemptsAccounted, InputOutlivesQueue, FinishedLeavesNoFiles,
  DownloadSafe, PendingArtifactKept, CancelNeverCompletes and UnfinishedAreListed;
- **OperationsStartClean**: the action property OperationStartsClean. Residue of any job
  is residue of an active one (`DeviceInv`), the only active job is the one that starts
  the attempt (`LeaseInv`), and that job is clean there (`DeviceInv`);
- **StatesOnlyAdvance** (StateMonotonic) and **RefinesLifecycle**
  (`Spec => Lifecycle!Spec`). Both, and `QueueInv`, use the lemma `RowsMove`: under the
  invariant, whatever a step does to rows is an `Enqueue`, a `Claim`, a `Cancel`, one
  row that advances, or nothing that an observer of states and cancellations sees.
  `Recover` and `Resolve` are the cases in which this is not plain: the first touches
  all active rows, of which there is one, and the second ends a job with an outcome
  that `OutcomeInv` allows. `RowsStepRefines` maps each of the five to a step of
  `JobLifecycle` or to a stutter.

UnfinishedJobsAreListed is about the list of 200 jobs (`ListLimit`) and has no run: the
smallest instance that could break it has more than 200 jobs. It covers every
`IPA_NOW_QUEUE_LIMIT` up to 200; the limit is 20 by default and may be set up to 1000,
and beyond 200 the list is what `docs/api.md` calls it, the latest 200 jobs.

For the broker, **ChallengesAreOwned** (`Spec => []ChallengeHasCaller`) and
**CodesStayInChallenge** (`Spec => []CodeStaysInChallenge`) hold for any number of
jobs, calls and codes, assuming only that `None` is none of them. The invariant
`BrokerInv` adds where a code may lie: a channel holds only what was submitted while
the call that made it was open (`BufferInv`), and a call that opened no challenge has
neither code nor channel content (`CallInv`).

For the saved session, **SessionSurvives** (`Spec => []SavedSessionSurvives`) and
**TokensMatch** (`Spec => []TokenMatchesIdentity`), for any accounts, identities and
number of tokens. `StoreInv` adds that data is synced before it is renamed, so that the
name never shows loose data (`FileInv`, `SaveInv`), and that every account that may be
in the file carries a token of its own identity (`Matched`).

For the transport, **RequestsFollowTheirJob** (`Spec => []BoundToOwnJob`) and
**RequestsUnregister** (`Spec => []NothingLeftRegistered`), for any number of
decryptions and requests. `TransportInv` adds that the active scope belongs to the one
Decrypt in progress (`ScopeInv`), that a round trip keeps its Decrypt in progress
(`CallerInv`, the assumption on the library), and where a hook may be registered
(`HookInv`).

For the process, **DataHasOneUser** (`Spec => []OneProcessUsesData`),
**StoreOutlivesAllWork** (`Spec => []StoreOutlivesWork`) and **FailuresAreReported**
(`Spec => []FailureReported`), for any number of processes and starts. `ProcessInv`
says which pieces of a process exist at which stage of `run()` (`StageInv`), that a
process which is not down has the lock (`LockInv`), and where an error of the worker
is on its way to the exit status (`ErrorInv`).

For the progress channel, **LatestIsKept** (`Spec => []LatestKept`) and **RowIsInOrder**
(`Spec => RowKeepsOrder`), for any number of callbacks, events and retries.
`OrderInv` follows an event from `emit` through the channel and the monitor to the
row: at each place it is behind no event that began after its callback had returned,
which holds from the start because a callback that has not returned is in nobody's
`older`. `KeptInv` says that a channel which was emptied was emptied by the monitor,
which keeps the event, or by a callback that has still to resend; `BegunInv` that
nobody refers to events that have not begun.

For the page, **OneChainOfPolls** (`Spec => []OnePollChain`), **ViewOnlyAdvances**
(`Spec => ViewNeverGoesBack`) and **UnmountedIsQuiet** (`Spec => UnmountIsQuiet`), for
any number of mounts and changes. `ChainInv` has the chain as one live poll or the
timer of the present mount, and no timer of an earlier one; `ViewInv` that at most one
request is the latest, and that what it has read is at least as new as what is shown.
`OwedInv` (no more refreshes are owed than changes were made) is needed for the types:
TypeOK bounds the mutations by `MaxVersion`, which is not inductive alone.

All these invariants were model-checked before they were proved. Every safety property
of a passing run, invariant or action property, is stated by a theorem. Only
model-checked is liveness (EveryJobFinishes, RetentionEnforced, ChallengeEnds,
DeadlineEndsRequests, CallbacksReturn, CancelReachesRun, RunJoins, StoreFailureEndsRun,
StopEndsProcess, ViewCatchesUp): fairness and ENABLED are outside the prover's reach. The temporal step
of a theorem uses the safety part of the specification, so the theorems hold of the
fair specifications as well. No module with a theorem uses RECURSIVE operators.

## Not modelled

- Data no decision reads: error texts, byte counts, install flags, targets, the fields
  of log records; `boundedMetadata` and the names of downloads, which shorten and
  replace characters of such data.
- `internal/logging`: formatting and redaction, without state.
- `internal/config`: ranges, syntax and files checked once, before there is any state.
- The queue's `available_at`: it equals the time of creation and is never moved.
- The host and origin gate and the bodies of requests, which are pure checks of one
  request; target validation, the status route, response headers, the
  embedded web assets; forms and rendering of the web client.
- The contents of archives: the verdict of ValidateIPA is modelled, its rules are a
  loop over entries without state of its own.
- `flushHelperLogs`, which only tests call.
- Vendored assets and the build.

## Plan

Modelled, checked and proved: everything above. What is left:

1. Lemmas that would carry the liveness arguments as far as safety goes: which step is
   possible at each control point of a run, of `finish` and of startup, so that what
   EveryJobFinishes leaves to TLC is fairness alone.
2. That the transactions of `JobStore` used by a handler are harmless whatever the
   handler has read, stated for the store alone.
3. The type invariants of the smaller modules as theorems in their own right; they are
   conjuncts of BrokerInv, StoreInv, TransportInv, ProcessInv, MonitorInv and PollInv.
