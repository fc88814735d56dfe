-------------------------------- MODULE Worker --------------------------------
(***************************************************************************)
(* The worker (internal/worker) and the engine adapter (internal/engine):  *)
(* one job's run from claim to release, its server files, its device       *)
(* operations, artifact retention and startup recovery.                    *)
(*                                                                         *)
(* The scheduler's goroutine is the control state pc together with the     *)
(* locals of Worker.Run in run; the monitor goroutine that runs beside it  *)
(* is run.monitor.  Every store transaction, file operation and device     *)
(* call is one step; the local code between two of them belongs to the     *)
(* step before it.  A step that fails outside the code's control (a store  *)
(* call, a file removal, a rename) is allowed while Fails(kind).           *)
(***************************************************************************)
EXTENDS JobStore

CONSTANTS
  Confirmers,   \* concurrent confirm-cleanup requests
  Faults        \* the kinds of faults the environment may produce

FaultKinds == {"store", "files", "stop", "crash"}

ASSUME ConfirmersAssumption == "main" \notin Confirmers
ASSUME FaultsAssumption == Faults \subseteq FaultKinds

VARIABLES
  work,         \* jobs that have a directory under work/
  inputs,       \* jobs that have a file under inputs/
  artifacts,    \* what artifacts/<id> holds
  residue,      \* operations that left something on the device
  pc,           \* control state of the startup and scheduler goroutine
  run,          \* locals of Worker.Run and Worker.finish
  exp,          \* one Worker.Expire activation per caller
  recovering,   \* jobs whose device recovery Worker.Recover has still to try
  stopping,     \* the signal context is done
  stable        \* no more faults from here on

fileVars == <<work, inputs, artifacts>>
procVars == <<pc, run, exp, recovering>>
envVars == <<stopping, stable>>

Callers == {"main"} \cup Confirmers
Contents == {"none", "good", "bad"}     \* "good" passes ValidateIPA and Verify

StartupPcs == {"down", "recover", "reconcile", "recover-expire", "recover-device"}
SchedulerPcs == {"poll", "poll-expire", "claim", "stopped", "failed"}
AttemptPcs == {"attempt", "device", "retry-cleanup", "retry", "backoff"}
RunPcs == AttemptPcs \cup
          {"workspace", "decide", "verify", "inspect", "publish", "record", "begin",
           "remove", "cleanup", "settle", "finish-expire", "pending", "change",
           "release", "abort"}

Run == [job        : Jobs \cup {NoJob},
        attempt    : Nat,
        ctxDone    : BOOLEAN,                    \* cancelled by the monitor or past the deadline
        monitor    : {"off", "on", "failed"},
        touched    : BOOLEAN,                    \* the device answered in this attempt
        result     : {"none", "ok", "retryable", "fatal"},
        output     : Contents,                   \* output.ipa in the workspace
        review     : BOOLEAN,
        cleanupErr : BOOLEAN,
        desired    : TerminalStates \cup {"none"}]

Idle == [job |-> NoJob, attempt |-> 0, ctxDone |-> FALSE, monitor |-> "off",
         touched |-> FALSE, result |-> "none", output |-> "none", review |-> FALSE,
         cleanupErr |-> FALSE, desired |-> "none"]

Expiration == [step     : {"idle", "each", "mark"},
               todo     : SUBSET Jobs,           \* snapshot rows still to visit
               cleaning : SUBSET Jobs,           \* snapshot rows that were cleaning
               job      : Jobs \cup {NoJob}]     \* whose artifact was just removed

NoExpiration == [step |-> "idle", todo |-> {}, cleaning |-> {}, job |-> NoJob]

WorkerTypeOK ==
  /\ StoreTypeOK
  /\ work \in SUBSET Jobs
  /\ inputs \in SUBSET Jobs
  /\ artifacts \in [Jobs -> Contents]
  /\ residue \in [Jobs -> SUBSET Nat]
  /\ pc \in StartupPcs \cup SchedulerPcs \cup RunPcs
  /\ run \in Run
  /\ exp \in [Callers -> Expiration]
  /\ recovering \in SUBSET Jobs
  /\ stopping \in BOOLEAN
  /\ stable \in BOOLEAN

WorkerInit ==
  /\ StoreInit
  /\ work = {} /\ inputs = {}
  /\ artifacts = [j \in Jobs |-> "none"]
  /\ residue = [j \in Jobs |-> {}]
  /\ pc = "down" /\ run = Idle
  /\ exp = [p \in Callers |-> NoExpiration]
  /\ recovering = {}
  /\ stopping = FALSE /\ stable = FALSE

\* A fault of this kind may happen now.
Fails(kind) == ~stable /\ kind \in Faults

\* ctx.Err() # nil in Worker.Run: its own context, or the parent's.
CtxErr == run.ctxDone \/ stopping

------------------------------------------------------------------------------
(* Worker.Expire, called by startup, by the scheduler's loop, by finish and  *)
(* by every confirmation.  The rows are a snapshot; time.Now() is not.       *)

BeginExpire(p) ==
  LET kept == {j \in Jobs : jobs[j].expiresAt # "nil" /\ ~jobs[j].artifactExpired}
  IN exp' = [exp EXCEPT ![p] =
               [step |-> "each", todo |-> kept,
                cleaning |-> {j \in kept : jobs[j].state = "cleaning"}, job |-> NoJob]]

ExpireSkip(p, j) ==
  /\ exp[p].step = "each" /\ j \in exp[p].todo
  /\ jobs[j].expiresAt = "future"
  /\ exp' = [exp EXCEPT ![p].todo = exp[p].todo \ {j}]
  /\ UNCHANGED <<storeVars, fileVars, residue, pc, run, recovering, envVars>>

\* Mutant: the error of Remove is ignored.
ExpireRemove_IgnoresError(p, j) ==
  /\ exp[p].step = "each" /\ j \in exp[p].todo
  /\ jobs[j].expiresAt = "past"
  /\ \/ artifacts' = [artifacts EXCEPT ![j] = "none"]
     \/ Fails("files") /\ UNCHANGED artifacts
  /\ exp' = [exp EXCEPT ![p] = [exp[p] EXCEPT
               !.step = "mark", !.todo = exp[p].todo \ {j}, !.job = j]]
  /\ UNCHANGED <<storeVars, work, inputs, residue, pc, run, recovering, envVars>>

ExpireRemove(p, j) ==
  /\ exp[p].step = "each" /\ j \in exp[p].todo
  /\ jobs[j].expiresAt = "past"
  /\ artifacts' = [artifacts EXCEPT ![j] = "none"]
  /\ exp' = [exp EXCEPT ![p] = [exp[p] EXCEPT
               !.step = "mark", !.todo = exp[p].todo \ {j}, !.job = j]]
  /\ UNCHANGED <<storeVars, work, inputs, residue, pc, run, recovering, envVars>>

ExpireMark(p) ==
  /\ exp[p].step = "mark"
  /\ RecordExpired(exp[p].job, exp[p].job \in exp[p].cleaning)
  /\ exp' = [exp EXCEPT ![p] = [exp[p] EXCEPT !.step = "each", !.job = NoJob]]
  /\ UNCHANGED <<fileVars, residue, pc, run, recovering, envVars>>

ExpireStep(p) ==
  \/ \E j \in Jobs : ExpireSkip(p, j) \/ ExpireRemove(p, j)
  \/ ExpireMark(p)

\* Expire returned nil; the caller goes on.
ExpireReturns(p) ==
  /\ exp[p].step = "each" /\ exp[p].todo = {}
  /\ exp' = [exp EXCEPT ![p] = NoExpiration]

\* All, Remove or Metadata failed; the caller gets the error.
ExpireFails(p) ==
  /\ Fails("store") \/ Fails("files")
  /\ exp[p].step # "idle"
  /\ exp' = [exp EXCEPT ![p] = NoExpiration]

------------------------------------------------------------------------------
(* Device cleanup.                                                           *)

\* Adapter.Cleanup: every recorded operation of the job is cleaned in turn and all
\* must be confirmed; a job without operations cannot be.  The library confirms an
\* operation only when nothing of it is left (external).
CleanupReport(j, confirmed) ==
  \E left \in SUBSET residue[j] :
    /\ residue' = [residue EXCEPT ![j] = left]
    /\ operations[j] = {} => left = residue[j]
    /\ confirmed => operations[j] # {} /\ left \cap operations[j] = {}

\* cleanupDevice: a confirmed report may still count as unconfirmed, when the
\* deadline has passed or the uninstall flag cannot be persisted.
CleanupDevice(j, confirmed) ==
  \E reported \in BOOLEAN :
    /\ CleanupReport(j, reported)
    /\ confirmed => reported

------------------------------------------------------------------------------
(* Worker.Run, up to the end of the attempts.                                *)

MakeWorkspace ==
  /\ pc = "workspace"
  /\ run.job \notin work
  /\ work' = work \cup {run.job}
  /\ pc' = "attempt"
  /\ run' = [run EXCEPT !.attempt = 1, !.monitor = "on"]
  /\ UNCHANGED <<storeVars, inputs, artifacts, residue, exp, recovering, envVars>>

WorkspaceFails ==
  /\ pc = "workspace"
  /\ run.job \in work \/ Fails("files")
  /\ pc' = "abort"
  /\ UNCHANGED <<storeVars, fileVars, residue, run, exp, recovering, envVars>>

\* Decrypt returns before an operation exists: HTTP scope, account, login or
\* StartOperation failed.  Not retryable, and Result{} asks for no review.
DecryptRefused ==
  /\ pc = "attempt"
  /\ pc' = "decide"
  /\ run' = [run EXCEPT !.result = "fatal", !.review = FALSE]
  /\ UNCHANGED <<storeVars, fileVars, residue, exp, recovering, envVars>>

DecryptStarts ==
  /\ pc = "attempt"
  /\ StartOperation(run.job, run.attempt)
  /\ pc' = "device"
  /\ run' = [run EXCEPT !.touched = FALSE, !.output = "none"]
  /\ UNCHANGED <<fileVars, residue, exp, recovering, envVars>>

\* The library reports a phase past connecting, and may change the device.
DeviceContact ==
  /\ pc = "device"
  /\ run' = [run EXCEPT !.touched = TRUE]
  /\ residue' \in {residue, [residue EXCEPT ![run.job] = @ \cup {run.attempt}]}
  /\ UNCHANGED <<storeVars, fileVars, pc, exp, recovering, envVars>>

\* What the library's own cleanup on exit leaves of the attempt.
LibraryExit ==
  residue' \in {residue, [residue EXCEPT ![run.job] = @ \ {run.attempt}]}

\* Mutant: a successful return is trusted to have cleaned the device.
DecryptSucceeds_Trusted ==
  /\ pc = "device" /\ run.touched
  /\ LibraryExit
  /\ \E c \in {"good", "bad"} :
       run' = [run EXCEPT !.result = "ok", !.review = FALSE, !.output = c]
  /\ pc' = "decide"
  /\ UNCHANGED <<storeVars, fileVars, exp, recovering, envVars>>

\* A verified result, with or without ErrCleanupUnconfirmed: always for review.
DecryptSucceeds ==
  /\ pc = "device" /\ run.touched
  /\ LibraryExit
  /\ \E c \in {"good", "bad"} :
       run' = [run EXCEPT !.result = "ok", !.review = TRUE, !.output = c]
  /\ pc' = "decide"
  /\ UNCHANGED <<storeVars, fileVars, exp, recovering, envVars>>

\* When the adapter may classify a failure as retryable: a lock probe failed, which the
\* library makes once it has reported probing (engine.go:231), or a network error came
\* before any contact, under a live context.
Retryable == run.touched \/ (~run.touched /\ ~CtxErr)

DecryptFails ==
  /\ pc = "device"
  /\ LibraryExit
  /\ \/ /\ run' = [run EXCEPT !.result = "fatal", !.review = TRUE]
        /\ pc' = "decide"
     \/ /\ Retryable
        /\ run' = [run EXCEPT !.result = "retryable", !.review = TRUE]
        /\ pc' = IF run.attempt = MaxAttempts \/ CtxErr THEN "decide" ELSE "retry-cleanup"
  /\ UNCHANGED <<storeVars, fileVars, exp, recovering, envVars>>

\* Mutant: the retry does not wait for a confirmation.
RetryCleanup_Unconfirmed ==
  /\ pc = "retry-cleanup"
  /\ \E confirmed \in BOOLEAN : CleanupDevice(run.job, confirmed)
  /\ pc' = "retry"
  /\ UNCHANGED <<storeVars, fileVars, run, exp, recovering, envVars>>

RetryCleanup ==
  /\ pc = "retry-cleanup"
  /\ \E confirmed \in BOOLEAN :
       /\ CleanupDevice(run.job, confirmed)
       /\ pc' = IF confirmed THEN "retry" ELSE "decide"
  /\ UNCHANGED <<storeVars, fileVars, run, exp, recovering, envVars>>

RecordRetry ==
  /\ pc = "retry"
  /\ Retry(run.job)
  /\ pc' = "backoff"
  /\ UNCHANGED <<fileVars, residue, run, exp, recovering, envVars>>

\* The persistence error replaces the engine's; the loop ends.
RecordRetryFails ==
  /\ Fails("store")
  /\ pc = "retry"
  /\ pc' = "decide"
  /\ UNCHANGED <<storeVars, fileVars, residue, run, exp, recovering, envVars>>

Backoff ==
  /\ pc = "backoff"
  /\ IF CtxErr
     THEN pc' = "decide" /\ UNCHANGED run
     ELSE /\ pc' = "attempt"
          /\ run' = [run EXCEPT !.attempt = run.attempt + 1, !.result = "none"]
  /\ UNCHANGED <<storeVars, fileVars, residue, exp, recovering, envVars>>

\* The monitor goroutine sees a persisted cancellation and cancels the context.
MonitorCancels ==
  /\ run.monitor = "on" /\ ~run.ctxDone
  /\ jobs[run.job].cancelRequested
  /\ run' = [run EXCEPT !.ctxDone = TRUE]
  /\ UNCHANGED <<storeVars, fileVars, residue, pc, exp, recovering, envVars>>

MonitorFails ==
  /\ Fails("store")
  /\ run.monitor = "on"
  /\ run' = [run EXCEPT !.monitor = "failed", !.ctxDone = TRUE]
  /\ UNCHANGED <<storeVars, fileVars, residue, pc, exp, recovering, envVars>>

\* context.WithTimeout: from the workspace to BeginCleanup.
JobDeadline ==
  /\ pc \in AttemptPcs \cup {"decide", "verify", "inspect", "publish", "record", "begin"}
  /\ ~run.ctxDone
  /\ run' = [run EXCEPT !.ctxDone = TRUE]
  /\ UNCHANGED <<storeVars, fileVars, residue, pc, exp, recovering, envVars>>

------------------------------------------------------------------------------
(* Worker.Run, from the end of the attempts to finish.                       *)

Outcome ==
  IF jobs[run.job].cancelRequested THEN "cancelled"
  ELSE IF CtxErr \/ run.result # "ok" THEN "failed" ELSE "completed"

\* Join the monitor, read the row, choose the outcome, record the result flags.
\* The locals that nothing reads again are reset, here and in EnterCleaning.
Decide ==
  /\ pc = "decide"
  /\ IF run.monitor = "failed"
     THEN pc' = "abort" /\ UNCHANGED run
     ELSE /\ pc' = IF Outcome = "completed" THEN "verify" ELSE "begin"
          /\ run' = [run EXCEPT !.monitor = "off", !.desired = Outcome,
                                !.attempt = 0, !.touched = FALSE, !.result = "none"]
  /\ UNCHANGED <<storeVars, fileVars, residue, exp, recovering, envVars>>

EnterVerifying ==
  /\ pc = "verify"
  /\ Change(run.job, "verifying")
  /\ pc' = "inspect"
  /\ UNCHANGED <<fileVars, residue, run, exp, recovering, envVars>>

\* Mutant: the library's verdict replaces the independent verification.
InspectOutput_Skipped ==
  /\ pc = "inspect"
  /\ pc' = "publish"
  /\ UNCHANGED <<storeVars, fileVars, residue, run, exp, recovering, envVars>>

\* ValidateIPA and Engine.Verify on the workspace's output.
InspectOutput ==
  /\ pc = "inspect"
  /\ \/ run.output = "good" /\ pc' = "publish" /\ UNCHANGED run
     \/ /\ run.output # "good" \/ Fails("files")
        /\ pc' = "begin" /\ run' = [run EXCEPT !.desired = "failed"]
  /\ UNCHANGED <<storeVars, fileVars, residue, exp, recovering, envVars>>

\* Publish renames the output; it can fail before the rename or after it.
PublishOutput ==
  /\ pc = "publish"
  /\ \/ artifacts' = [artifacts EXCEPT ![run.job] = run.output]
        /\ pc' = "record" /\ run' = [run EXCEPT !.output = "none"]
     \/ /\ Fails("files")
        /\ artifacts' \in {artifacts, [artifacts EXCEPT ![run.job] = run.output]}
        /\ pc' = "begin" /\ run' = [run EXCEPT !.desired = "failed", !.output = "none"]
  /\ UNCHANGED <<storeVars, work, inputs, residue, exp, recovering, envVars>>

RecordPublication ==
  /\ pc = "record"
  /\ RecordExpiry(run.job)
  /\ pc' = "begin"
  /\ UNCHANGED <<fileVars, residue, run, exp, recovering, envVars>>

\* The last look at the context, then the cancellation cut-off.
EnterCleaning ==
  LET desired == IF CtxErr THEN "failed" ELSE run.desired
  IN /\ pc = "begin"
     /\ BeginCleanup(run.job, desired)
     /\ run' = [Idle EXCEPT !.job = run.job, !.review = run.review,
                            !.desired = CleanupOutcome(run.job, desired)]
     /\ pc' = "remove"
     /\ UNCHANGED <<fileVars, residue, exp, recovering, envVars>>

------------------------------------------------------------------------------
(* Worker.finish after BeginCleanup.                                         *)

\* tmp/ holds only the library's scratch copies, which no row names and nothing reads
\* again: emptying it (CleanupTemp) changes no state here, failing to do so counts.
Removals == {"work", "inputs", "tmp", "artifacts"}

RemoveFiles ==
  /\ pc = "remove"
  /\ \E failed \in SUBSET Removals :
       /\ failed # {} => Fails("files")
       /\ run.desired = "completed" => "artifacts" \notin failed
       /\ work' = IF "work" \in failed THEN work ELSE work \ {run.job}
       /\ inputs' = IF "inputs" \in failed THEN inputs ELSE inputs \ {run.job}
       /\ artifacts' = IF "artifacts" \in failed \/ run.desired = "completed" THEN artifacts
                       ELSE [artifacts EXCEPT ![run.job] = "none"]
       /\ run' = [run EXCEPT !.cleanupErr = failed # {}]
  /\ pc' = IF run.review THEN "cleanup" ELSE "settle"
  /\ UNCHANGED <<storeVars, residue, exp, recovering, envVars>>

FinishCleanup ==
  /\ pc = "cleanup"
  /\ \E confirmed \in BOOLEAN :
       /\ CleanupDevice(run.job, confirmed)
       /\ run' = [run EXCEPT !.review = ~confirmed]
  /\ pc' = "settle"
  /\ UNCHANGED <<storeVars, fileVars, exp, recovering, envVars>>

\* Mutant: an error of the server cleanup is logged and dropped.
Settle_DropsServerError ==
  /\ pc = "settle"
  /\ IF run.review
     THEN Quarantine(run.job, run.desired) /\ pc' = "release" /\ UNCHANGED exp
     ELSE BeginExpire("main") /\ pc' = "finish-expire" /\ UNCHANGED storeVars
  /\ UNCHANGED <<fileVars, residue, run, recovering, envVars>>

Settle ==
  /\ pc = "settle"
  /\ IF run.cleanupErr \/ run.review
     THEN Quarantine(run.job, run.desired) /\ pc' = "release" /\ UNCHANGED exp
     ELSE BeginExpire("main") /\ pc' = "finish-expire" /\ UNCHANGED storeVars
  /\ UNCHANGED <<fileVars, residue, run, recovering, envVars>>

FinishExpired ==
  /\ pc = "finish-expire"
  /\ ExpireReturns("main")
  /\ pc' = "pending"
  /\ UNCHANGED <<storeVars, fileVars, residue, run, recovering, envVars>>

ReadPending ==
  /\ pc = "pending"
  /\ run' = [run EXCEPT !.desired = jobs[run.job].pendingState]
  /\ pc' = "change"
  /\ UNCHANGED <<storeVars, fileVars, residue, exp, recovering, envVars>>

EnterTerminal ==
  /\ pc = "change"
  /\ Change(run.job, run.desired)
  /\ pc' = "release"
  /\ UNCHANGED <<fileVars, residue, run, exp, recovering, envVars>>

\* A store call of Run or finish fails, or its transition is refused: Run returns
\* the error.
RunFails ==
  /\ \/ Fails("store") /\ pc \in {"decide", "verify", "record", "begin", "settle",
                                  "pending", "change"}
     \/ pc = "verify" /\ ~CanTransition(jobs[run.job].state, "verifying")
     \/ pc = "begin" /\ ~CanTransition(jobs[run.job].state, "cleaning")
     \/ pc = "change" /\ ~CanTransition(jobs[run.job].state, run.desired)
  /\ pc' = "abort"
  /\ UNCHANGED <<storeVars, fileVars, residue, run, exp, recovering, envVars>>

FinishExpireFails ==
  /\ pc = "finish-expire"
  /\ ExpireFails("main")
  /\ pc' = "abort"
  /\ UNCHANGED <<storeVars, fileVars, residue, run, recovering, envVars>>

\* The deferred Release; an error of it, or one already returned, ends the scheduler.
ReleaseLease ==
  /\ pc \in {"release", "abort"}
  /\ \/ Release(run.job) /\ pc' = IF pc = "release" THEN "poll" ELSE "failed"
     \/ Fails("store") /\ UNCHANGED storeVars /\ pc' = "failed"
  /\ run' = Idle
  /\ UNCHANGED <<fileVars, residue, exp, recovering, envVars>>

------------------------------------------------------------------------------
(* Worker.Recover: before the listener opens, so nothing runs beside it.     *)

RecoverJobs ==
  /\ pc = "recover"
  /\ Recover
  /\ recovering' = {j \in Jobs : Active(j)}
  /\ pc' = "reconcile"
  /\ UNCHANGED <<fileVars, residue, run, exp, envVars>>

\* Mutant: startup keeps the input of the job that was running, not of those queued.
KeepInput_ActiveOnly(j) == Active(j)

\* Mutant: startup keeps the artifacts of completed jobs only.
KeepArtifact_CompletedOnly(j) == jobs[j].state = "completed"

KeepInput(j) == jobs[j].state = "queued"
KeepArtifact(j) ==
  \/ jobs[j].state = "completed"
  \/ jobs[j].state = "cleaning" /\ jobs[j].pendingState = "completed"

\* Every entry whose row does not ask for it goes: work/, then inputs/, then artifacts/,
\* then tmp/.  The first removal that fails ends startup, with the directories before it
\* done, its own partly and those after it untouched.
Reconcile ==
  /\ pc = "reconcile"
  /\ \/ /\ work' = {}
        /\ inputs' = {j \in inputs : KeepInput(j)}
        /\ artifacts' = [j \in Jobs |-> IF KeepArtifact(j) THEN artifacts[j] ELSE "none"]
        /\ BeginExpire("main")
        /\ pc' = "recover-expire"
        /\ UNCHANGED recovering
     \/ /\ Fails("files")
        /\ \E leftWork, leftInputs, leftArtifacts \in SUBSET Jobs :
             /\ leftWork # {} => leftInputs = Jobs
             /\ leftInputs # {} => leftArtifacts = Jobs
             /\ work' = work \cap leftWork
             /\ inputs' = {j \in inputs : KeepInput(j) \/ j \in leftInputs}
             /\ artifacts' = [j \in Jobs |-> IF KeepArtifact(j) \/ j \in leftArtifacts
                                             THEN artifacts[j] ELSE "none"]
        /\ recovering' = {}
        /\ pc' = "down"
        /\ UNCHANGED exp
  /\ UNCHANGED <<storeVars, residue, run, envVars>>

RecoverExpired ==
  /\ pc = "recover-expire"
  /\ ExpireReturns("main")
  /\ pc' = "recover-device"
  /\ UNCHANGED <<storeVars, fileVars, residue, run, recovering, envVars>>

\* cleanupDevice and, when it confirms, ResolveAutomatic.
RecoverDevice(j) ==
  /\ pc = "recover-device" /\ j \in recovering
  /\ \E confirmed \in BOOLEAN :
       /\ CleanupDevice(j, confirmed)
       /\ IF confirmed THEN Resolve(j) ELSE UNCHANGED storeVars
  /\ recovering' = recovering \ {j}
  /\ UNCHANGED <<fileVars, pc, run, exp, envVars>>

\* ResolveAutomatic fails after the device was cleaned: startup ends.
RecoverDeviceFails(j) ==
  /\ Fails("store") \/ ~Resolvable(j)
  /\ pc = "recover-device" /\ j \in recovering
  /\ CleanupDevice(j, TRUE)
  /\ recovering' = {}
  /\ pc' = "down"
  /\ UNCHANGED <<storeVars, fileVars, run, exp, envVars>>

===============================================================================
