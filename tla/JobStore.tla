------------------------------- MODULE JobStore -------------------------------
(***************************************************************************)
(* The SQLite job store (internal/jobs): the job rows, the singleton       *)
(* device row and the operation records.  The pool holds one connection    *)
(* (store.go:63), so transactions run one at a time and each is one atomic *)
(* operator here.  An operator describes the call that commits; a call     *)
(* that returns an error changes nothing, and its caller models that.      *)
(*                                                                         *)
(* Left out of a row: text and numbers that no decision reads (target,     *)
(* phase, error code and message, byte counts, install flags).             *)
(* AvailableAt is set to the time of creation and never moved, so its test *)
(* in Claim always holds.  The source of a job is fixed by its id: Uploads *)
(* are the ids handed out to uploads.                                      *)
(***************************************************************************)
EXTENDS Integers, FiniteSets

CONSTANTS
  Jobs,         \* job ids (NewID)
  Uploads,      \* the ids of jobs whose source is an uploaded IPA
  NoJob,        \* the empty owner
  QueueLimit,   \* config IPA_NOW_QUEUE_LIMIT
  MaxAttempts   \* config IPA_NOW_MAX_ATTEMPTS

ASSUME JobsAssumption == Uploads \subseteq Jobs /\ NoJob \notin Jobs
ASSUME LimitsAssumption == QueueLimit \in Nat /\ MaxAttempts \in Nat \ {0}

VARIABLES
  jobs,         \* the rows of table jobs
  device,       \* the row of table devices
  operations    \* the rows of table operations: attempts recorded per job

storeVars == <<jobs, device, operations>>

TerminalStates == {"completed", "failed", "cancelled"}
ActiveStates == {"running", "verifying", "cleaning"}
\* "absent" is the state of an id that has no row yet.
States == {"absent", "queued"} \cup ActiveStates \cup TerminalStates

\* ExpiresAt against the clock: unset, ahead, or passed.
Expiries == {"nil", "future", "past"}

Row == [state           : States,
        attempts        : Nat,
        cancelRequested : BOOLEAN,
        cleanupError    : BOOLEAN,          \* cleanup_error <> ''
        pendingState    : TerminalStates \cup {"none"},
        expiresAt       : Expiries,
        artifactExpired : BOOLEAN,
        after           : SUBSET Jobs]      \* the rows with an earlier created_at

Device == [owner : Jobs \cup {NoJob}, quarantined : BOOLEAN]

NoRow == [state |-> "absent", attempts |-> 0, cancelRequested |-> FALSE,
          cleanupError |-> FALSE, pendingState |-> "none", expiresAt |-> "nil",
          artifactExpired |-> FALSE, after |-> {}]

StoreTypeOK ==
  /\ jobs \in [Jobs -> Row]
  /\ device \in Device
  /\ operations \in [Jobs -> SUBSET Nat]

StoreInit ==
  /\ jobs = [j \in Jobs |-> NoRow]
  /\ device = [owner |-> NoJob, quarantined |-> FALSE]
  /\ operations = [j \in Jobs |-> {}]

Terminal(s) == s \in TerminalStates

CanTransition(a, b) ==
  \/ a = "queued" /\ b \in {"running", "cleaning"}
  \/ a = "running" /\ b \in {"verifying", "cleaning"}
  \/ a = "verifying" /\ b = "cleaning"
  \/ a = "cleaning" /\ Terminal(b)

Active(j) == jobs[j].state \in ActiveStates
Unfinished(j) == jobs[j].state = "queued" \/ Active(j)

\* A row whose cleanup waits for a confirmation.
UnderReview(j) == jobs[j].state = "cleaning" /\ jobs[j].cleanupError

------------------------------------------------------------------------------

\* Store.List(): the newest jobs, whatever their state.
ListLimit == 200
List ==
  {j \in Jobs : /\ jobs[j].state # "absent"
                /\ Cardinality({k \in Jobs : j \in jobs[k].after}) < ListLimit}

Enqueue(j) ==
  /\ jobs[j].state = "absent"
  /\ Cardinality({k \in Jobs : Unfinished(k)}) < QueueLimit
  /\ jobs' = [jobs EXCEPT ![j] = [NoRow EXCEPT
                !.state = "queued",
                !.after = {k \in Jobs : jobs[k].state # "absent"}]]
  /\ UNCHANGED <<device, operations>>

\* Mutant: Claim looks at the owner and not at the quarantine.
Claimable_IgnoresQuarantine(j) ==
  /\ device.owner = NoJob
  /\ jobs[j].state = "queued"
  /\ \A k \in jobs[j].after : jobs[k].state # "queued"

Claimable(j) ==
  /\ ~device.quarantined
  /\ device.owner = NoJob
  /\ jobs[j].state = "queued"
  /\ \A k \in jobs[j].after : jobs[k].state # "queued"

Claim(j) ==
  /\ Claimable(j)
  /\ jobs' = [jobs EXCEPT ![j] = [jobs[j] EXCEPT
                !.state = "running", !.attempts = jobs[j].attempts + 1]]
  /\ device' = [device EXCEPT !.owner = j]
  /\ UNCHANGED operations

Change(j, to) ==
  /\ CanTransition(jobs[j].state, to)
  /\ jobs' = [jobs EXCEPT ![j].state = to]
  /\ UNCHANGED <<device, operations>>

Cancel(j) ==
  /\ jobs[j].state \in {"queued", "running", "verifying"}
  /\ jobs' = [jobs EXCEPT ![j].cancelRequested = TRUE]
  /\ UNCHANGED <<device, operations>>

Release(j) ==
  /\ device' = IF device.owner = j THEN [device EXCEPT !.owner = NoJob] ELSE device
  /\ UNCHANGED <<jobs, operations>>

Quarantine(j, desired) ==
  /\ jobs' = [jobs EXCEPT ![j] = [jobs[j] EXCEPT
                !.cleanupError = TRUE, !.pendingState = desired]]
  /\ device' = [owner |-> NoJob, quarantined |-> TRUE]
  /\ UNCHANGED operations

\* Mutant: resolve looks at the pending outcome alone.
Resolvable_AnyState(j) == Terminal(jobs[j].pendingState)

\* Store.Resolve and Store.ResolveAutomatic differ only in the phase they record.
Resolvable(j) == UnderReview(j) /\ Terminal(jobs[j].pendingState)

\* Mutant: pending_state is cleared before it is read.
Resolve_ClearsFirst(j) ==
  /\ Resolvable(j)
  /\ jobs' = [jobs EXCEPT ![j] = [jobs[j] EXCEPT
                !.cleanupError = FALSE, !.state = "none", !.pendingState = "none"]]
  /\ device' = [owner |-> NoJob, quarantined |-> FALSE]
  /\ UNCHANGED operations

Resolve(j) ==
  /\ Resolvable(j)
  /\ jobs' = [jobs EXCEPT ![j] = [jobs[j] EXCEPT
                !.cleanupError = FALSE,
                !.state = jobs[j].pendingState,
                !.pendingState = "none"]]
  /\ device' = IF \E k \in Jobs \ {j} : UnderReview(k)
               THEN device
               ELSE [owner |-> NoJob, quarantined |-> FALSE]
  /\ UNCHANGED operations

\* Mutant: the attempt is not persisted.
Retry_NotRecorded(j) == UNCHANGED storeVars

Retry(j) ==
  /\ jobs' = IF jobs[j].state = "running"
             THEN [jobs EXCEPT ![j] = [jobs[j] EXCEPT !.attempts = jobs[j].attempts + 1]]
             ELSE jobs
  /\ UNCHANGED <<device, operations>>

\* Metadata with the publication's expires_at (worker.go:198).
RecordExpiry(j) ==
  /\ jobs' = [jobs EXCEPT ![j].expiresAt = "future"]
  /\ UNCHANGED <<device, operations>>

\* Metadata with artifact_expired, and with a failed outcome when the caller's
\* snapshot of the row was cleaning (worker.go:392-398).
RecordExpired(j, wasCleaning) ==
  /\ jobs' = [jobs EXCEPT ![j] = [jobs[j] EXCEPT
                !.artifactExpired = TRUE,
                !.pendingState = IF wasCleaning THEN "failed" ELSE jobs[j].pendingState]]
  /\ UNCHANGED <<device, operations>>

\* Mutant: an interrupted job goes back to the queue.
RecoveredRow_Requeues(r) == [r EXCEPT !.state = "queued"]

\* What Recover makes of a row that was active when the process ended.
RecoveredRow(r) ==
  [r EXCEPT
    !.state = "cleaning",
    !.cleanupError = TRUE,
    !.pendingState = IF r.state = "cleaning" /\ Terminal(r.pendingState) THEN r.pendingState
                     ELSE IF r.cancelRequested THEN "cancelled" ELSE "failed"]

\* Mutant: the interrupted job is put under review, the device is not quarantined.
Recover_DeviceOpen ==
  /\ jobs' = [j \in Jobs |-> IF Active(j) /\ ~UnderReview(j)
                             THEN RecoveredRow(jobs[j]) ELSE jobs[j]]
  /\ device' = [device EXCEPT !.owner = NoJob]
  /\ UNCHANGED operations

\* Mutant: a job that was already cleaning is taken to be under review.
Recover_SkipsCleaning ==
  /\ jobs' = [j \in Jobs |-> IF jobs[j].state \in {"running", "verifying"}
                             THEN RecoveredRow(jobs[j]) ELSE jobs[j]]
  /\ device' = [owner |-> NoJob,
                quarantined |-> device.quarantined \/ \E j \in Jobs : Active(j)]
  /\ UNCHANGED operations

Recover ==
  /\ jobs' = [j \in Jobs |-> IF Active(j) /\ ~UnderReview(j)
                             THEN RecoveredRow(jobs[j]) ELSE jobs[j]]
  /\ device' = [owner |-> NoJob,
                quarantined |-> device.quarantined \/ \E j \in Jobs : Active(j)]
  /\ UNCHANGED operations

\* Mutant: the cut-off does not look at cancel_requested.
CleanupOutcome_IgnoresCancel(j, desired) == desired

\* The outcome BeginCleanup records and returns.
CleanupOutcome(j, desired) == IF jobs[j].cancelRequested THEN "cancelled" ELSE desired

BeginCleanup(j, desired) ==
  /\ CanTransition(jobs[j].state, "cleaning")
  /\ jobs' = [jobs EXCEPT ![j] = [jobs[j] EXCEPT
                !.state = "cleaning", !.pendingState = CleanupOutcome(j, desired)]]
  /\ UNCHANGED <<device, operations>>

\* op stands for the fresh id; the attempt that asks for it names it.
StartOperation(j, op) ==
  /\ jobs[j].state = "running"
  /\ device.owner = j
  /\ ~device.quarantined
  /\ operations' = [operations EXCEPT ![j] = @ \cup {op}]
  /\ UNCHANGED <<jobs, device>>

===============================================================================
