----------------------------- MODULE OutcomeProof -----------------------------
(***************************************************************************)
(* What becomes of a job, its files, its artifact and its device           *)
(* operations, for every instance.                                         *)
(*                                                                         *)
(* ServiceProof says who holds the device.  Built on it, the invariants    *)
(* say what the rows, the files and the device look like at every control  *)
(* point of a run, of a confirmation and of startup; the safety properties *)
(* of Service, its action properties and the refinement of JobLifecycle    *)
(* follow from them.                                                       *)
(***************************************************************************)
EXTENDS ServiceProof, FiniteSetTheorems

(***************************************************************************)
(* 0. What the transactions with several effects do to the rows.           *)
(***************************************************************************)

\* The columns that only Enqueue and a claim, a retry or a request write.
SameJob(j) ==
  /\ jobs'[j].attempts = jobs[j].attempts
  /\ jobs'[j].cancelRequested = jobs[j].cancelRequested
  /\ jobs'[j].expiresAt = jobs[j].expiresAt
  /\ jobs'[j].after = jobs[j].after

\* Resolve ends the review of one job with the outcome that was pending.
LEMMA ResolveRow ==
  ASSUME jobs \in [Jobs -> Row], NEW j \in Jobs, Resolve(j)
  PROVE  /\ \A k \in Jobs \ {j} : jobs'[k] = jobs[k]
         /\ jobs[j].state = "cleaning"
         /\ jobs'[j].state = jobs[j].pendingState /\ jobs'[j].state \in TerminalStates
         /\ SameJob(j)
         /\ UNCHANGED operations
<1>1. /\ jobs' = [jobs EXCEPT ![j] = [jobs[j] EXCEPT !.cleanupError = FALSE,
                    !.state = jobs[j].pendingState, !.pendingState = "none"]]
      /\ UNCHANGED operations /\ Resolvable(j)
  BY DEF Resolve
<1>. QED BY <1>1 DEF Resolvable, UnderReview, Terminal, Row, SameJob

\* Quarantine records the outcome a review will settle and moves no state.
LEMMA QuarantineRow ==
  ASSUME jobs \in [Jobs -> Row], NEW j \in Jobs, NEW desired, Quarantine(j, desired)
  PROVE  /\ \A k \in Jobs \ {j} : jobs'[k] = jobs[k]
         /\ jobs'[j].state = jobs[j].state /\ jobs'[j].pendingState = desired
         /\ SameJob(j)
         /\ UNCHANGED operations
BY DEF Quarantine, Row, SameJob

\* A step of Expire moves no state; it may turn a pending outcome into "failed".
LEMMA ExpireRows ==
  ASSUME TypeInv, NEW p \in Callers, ExpireStep(p)
  PROVE  /\ \A j \in Jobs : /\ SameJob(j) /\ jobs'[j].state = jobs[j].state
                            /\ jobs'[j].pendingState \in {jobs[j].pendingState, "failed"}
         /\ UNCHANGED <<operations, work, inputs, residue, pc, run>>
<1>1. jobs \in [Jobs -> Row]
  BY TypeFacts DEF StoreTypeOK
<1>2. CASE ExpireMark(p)
  <2>1. RecordExpired(exp[p].job, exp[p].job \in exp[p].cleaning)
    BY <1>2 DEF ExpireMark
  <2>2. \A j \in Jobs : /\ SameJob(j) /\ jobs'[j].state = jobs[j].state
                        /\ jobs'[j].pendingState \in {jobs[j].pendingState, "failed"}
    BY <1>1, <2>1 DEF RecordExpired, Row, SameJob
  <2>. QED BY <1>2, <2>1, <2>2 DEF ExpireMark, RecordExpired, fileVars
<1>3. CASE \E j \in Jobs : ExpireSkip(p, j) \/ ExpireRemove(p, j)
  BY <1>3 DEF ExpireSkip, ExpireRemove, storeVars, fileVars, SameJob
<1>. QED BY <1>2, <1>3 DEF ExpireStep

\* Recover leaves a row alone, or turns an active one into a review of its outcome.
LEMMA RecoverRows ==
  ASSUME jobs \in [Jobs -> Row], Recover
  PROVE  \A j \in Jobs :
           \/ jobs'[j] = jobs[j] /\ (Active(j) => UnderReview(j))
           \/ /\ Active(j) /\ SameJob(j)
              /\ jobs'[j].state = "cleaning"
              /\ jobs'[j].pendingState =
                   IF jobs[j].state = "cleaning" /\ Terminal(jobs[j].pendingState)
                   THEN jobs[j].pendingState
                   ELSE IF jobs[j].cancelRequested THEN "cancelled" ELSE "failed"
<1>. TAKE j \in Jobs
<1>1. jobs'[j] = IF Active(j) /\ ~UnderReview(j) THEN RecoveredRow(jobs[j]) ELSE jobs[j]
  BY DEF Recover
<1>2. /\ RecoveredRow(jobs[j]).state = "cleaning"
      /\ RecoveredRow(jobs[j]).attempts = jobs[j].attempts
      /\ RecoveredRow(jobs[j]).cancelRequested = jobs[j].cancelRequested
      /\ RecoveredRow(jobs[j]).expiresAt = jobs[j].expiresAt
      /\ RecoveredRow(jobs[j]).after = jobs[j].after
      /\ RecoveredRow(jobs[j]).pendingState =
           IF jobs[j].state = "cleaning" /\ Terminal(jobs[j].pendingState)
           THEN jobs[j].pendingState
           ELSE IF jobs[j].cancelRequested THEN "cancelled" ELSE "failed"
  BY DEF RecoveredRow, Row
<1>. QED BY <1>1, <1>2 DEF SameJob

(***************************************************************************)
(* 1. Where the row of a job stands while somebody works on it.            *)
(***************************************************************************)

\* Up to the transaction that enters verifying.
RunningPcs == AttemptPcs \cup {"workspace", "decide", "verify"}
VerifyingPcs == {"inspect", "publish", "record"}

RowInv ==
  /\ pc \in RunningPcs => jobs[run.job].state = "running"
  /\ pc \in VerifyingPcs => jobs[run.job].state = "verifying"
  /\ pc = "begin" => jobs[run.job].state \in {"running", "verifying"}

\* A confirmation that has begun can only meet its job later, not earlier.
ConfirmInv ==
  \A c \in Confirmers : confirm[c].step # "idle" =>
    jobs[confirm[c].job].state \in {"cleaning"} \cup TerminalStates

\* Nothing runs beside startup.
StartupInv ==
  pc \in StartupPcs =>
    /\ http = "off" /\ uploading = NoJob
    /\ \A c \in Confirmers : confirm[c].step = "idle"

UploadInv == uploading # NoJob => uploading \in Uploads /\ jobs[uploading].state = "absent"

ControlInv == RowInv /\ ConfirmInv /\ StartupInv /\ UploadInv

\* A step that moves no row to another state, within a run or outside it.
LEMMA ControlFrame ==
  ASSUME TypeInv, ControlInv,
         \A j \in Jobs : jobs'[j].state = jobs[j].state,
         pc' \in RunPcs => pc \in RunPcs /\ run'.job = run.job,
         pc' \in RunningPcs => pc \in RunningPcs,
         pc' \in VerifyingPcs => pc \in VerifyingPcs,
         pc' = "begin" => pc \in {"begin"} \cup RunningPcs \cup VerifyingPcs,
         pc' \in StartupPcs => pc \in StartupPcs /\ http' = http,
         uploading' \in {uploading, NoJob},
         \A c \in Confirmers : confirm'[c].step # "idle" =>
           confirm[c].step # "idle" /\ confirm'[c].job = confirm[c].job
  PROVE  ControlInv'
<1>1. pc \in RunPcs => run.job \in Jobs
  BY DEF TypeInv, JobsNamed
<1>2. RowInv'
  BY <1>1 DEF ControlInv, RowInv, RunPcs, RunningPcs, VerifyingPcs
<1>3. ConfirmInv'
  BY DEF ControlInv, ConfirmInv, TypeInv, JobsNamed
<1>4. StartupInv' /\ UploadInv'
  BY JobsAssumption DEF ControlInv, StartupInv, UploadInv
<1>. QED BY <1>2, <1>3, <1>4 DEF ControlInv

\* The steps of a run take the row's state along with the control point.
LEMMA ControlRun ==
  ASSUME TypeInv, LeaseInv, ControlInv, RunStep, UNCHANGED httpVars
  PROVE  ControlInv'
<1>. USE DEF RunPcs, AttemptPcs, RunningPcs, VerifyingPcs, StartupPcs, storeVars, httpVars
<1>1. jobs \in [Jobs -> Row] /\ run \in Run /\ (pc \in RunPcs => run.job \in Jobs)
  BY TypeFacts DEF StoreTypeOK
<1>2. ASSUME MakeWorkspace \/ WorkspaceFails \/ DecryptRefused \/ DecryptStarts \/ DeviceContact
      PROVE  ControlInv'
  BY <1>1, <1>2, ControlFrame
  DEF MakeWorkspace, WorkspaceFails, DecryptRefused, DecryptStarts, DeviceContact, StartOperation, Run
<1>3. ASSUME DecryptSucceeds \/ DecryptFails \/ RetryCleanup \/ RecordRetryFails \/ Backoff \/ Decide
      PROVE  ControlInv'
  BY <1>1, <1>3, ControlFrame
  DEF DecryptSucceeds, DecryptFails, RetryCleanup, RecordRetryFails, Backoff, Decide, Run
<1>4. ASSUME InspectOutput \/ PublishOutput \/ RemoveFiles \/ FinishCleanup
      PROVE  ControlInv'
  BY <1>1, <1>4, ControlFrame DEF InspectOutput, PublishOutput, RemoveFiles, FinishCleanup, Run
<1>5. ASSUME FinishExpired \/ ReadPending \/ RunFails \/ FinishExpireFails
      PROVE  ControlInv'
  BY <1>1, <1>5, ControlFrame DEF FinishExpired, ReadPending, RunFails, FinishExpireFails, Run
<1>6. ASSUME RecordRetry \/ RecordPublication PROVE ControlInv'
  <2>1. \A j \in Jobs : jobs'[j].state = jobs[j].state
    BY <1>1, <1>6 DEF RecordRetry, RecordPublication, Retry, RecordExpiry, Row
  <2>. QED BY <1>6, <2>1, ControlFrame DEF RecordRetry, RecordPublication
<1>7. ASSUME EnterVerifying \/ EnterCleaning \/ EnterTerminal PROVE ControlInv'
  <2>1. /\ pc \in {"verify", "begin", "change"} /\ pc' \in {"inspect", "remove", "release"}
        /\ pc' = "inspect" => pc = "verify"
        /\ run'.job = run.job
    BY <1>7 DEF EnterVerifying, EnterCleaning, EnterTerminal, Run, Idle
  <2>2. /\ \A j \in Jobs \ {run.job} : jobs'[j].state = jobs[j].state
        /\ pc = "verify" => jobs'[run.job].state = "verifying"
        /\ pc # "verify" => jobs'[run.job].state \in {"cleaning"} \cup TerminalStates
    <3>1. CASE EnterVerifying
      BY <1>1, <3>1 DEF EnterVerifying, Change, Row
    <3>2. CASE EnterCleaning
      BY <1>1, <3>2 DEF EnterCleaning, BeginCleanup, Row
    <3>3. CASE EnterTerminal
      <4>1. run.desired \in TerminalStates
        BY <3>3 DEF EnterTerminal, Change, CanTransition, LeaseInv, FinishInv, FinishPcs, Terminal
      <4>. QED BY <1>1, <3>3, <4>1 DEF EnterTerminal, Change, Row
    <3>. QED BY <1>7, <3>1, <3>2, <3>3
  <2>3. RowInv' /\ StartupInv'
    BY <2>1, <2>2 DEF RowInv, StartupInv
  <2>4. pc = "verify" => jobs[run.job].state = "running"
    BY DEF ControlInv, RowInv
  <2>5. ConfirmInv'
    BY <2>1, <2>2, <2>4 DEF ControlInv, ConfirmInv, TypeInv, JobsNamed, TerminalStates
  <2>6. jobs[run.job].state # "absent"
    BY <2>1 DEF ControlInv, RowInv, LeaseInv, FinishInv, FinishPcs
  <2>7. UploadInv'
    BY <1>1, <2>1, <2>2, <2>6, JobsAssumption DEF ControlInv, UploadInv
  <2>. QED BY <2>3, <2>5, <2>7 DEF ControlInv
<1>8. ASSUME Settle PROVE ControlInv'
  <2>1. \A j \in Jobs : jobs'[j].state = jobs[j].state
    <3>1. CASE run.cleanupErr \/ run.review
      <4>1. Quarantine(run.job, run.desired) /\ run.job \in Jobs
        BY <1>1, <1>8, <3>1 DEF Settle
      <4>. QED BY <1>1, <4>1 DEF Quarantine, Row
    <3>2. CASE ~(run.cleanupErr \/ run.review)
      BY <1>8, <3>2 DEF Settle
    <3>. QED BY <3>1, <3>2
  <2>. QED BY <1>8, <2>1, ControlFrame DEF Settle
<1>9. ASSUME ReleaseLease PROVE ControlInv'
  BY <1>9, ControlFrame DEF ReleaseLease, Release
<1>. QED BY <1>2, <1>3, <1>4, <1>5, <1>6, <1>7, <1>8, <1>9 DEF RunStep

\* Startup, scheduling and the ends of the process.
LEMMA ControlMain ==
  ASSUME TypeInv, LeaseInv, ControlInv,
         \/ RecoverStep /\ UNCHANGED httpVars
         \/ Start \/ Serve \/ Poll \/ PollExpired \/ ClaimNothing \/ SchedulerFails
         \/ Stop \/ Shutdown \/ Exit \/ Crash \/ StartupFails
         \/ \E j \in Jobs : ClaimJob(j)
  PROVE  ControlInv'
<1>. USE DEF RunPcs, AttemptPcs, RunningPcs, VerifyingPcs, StartupPcs, storeVars, httpVars, procVars
<1>1. jobs \in [Jobs -> Row] /\ (pc \in RunPcs => run.job \in Jobs)
  BY TypeFacts DEF StoreTypeOK
<1>2. ASSUME RecoverJobs, UNCHANGED httpVars PROVE ControlInv'
  <2>1. \A j \in Jobs : jobs'[j].state # jobs[j].state => Active(j) /\ jobs'[j].state = "cleaning"
    BY <1>1, <1>2, RecoverRows DEF RecoverJobs
  <2>2. StartupInv' /\ RowInv'
    BY <1>2 DEF RecoverJobs, ControlInv, StartupInv, RowInv
  <2>3. ConfirmInv' /\ UploadInv'
    BY <2>1, <2>2, <1>2 DEF StartupInv, ConfirmInv, UploadInv, RecoverJobs
  <2>. QED BY <2>2, <2>3 DEF ControlInv
<1>3. ASSUME Reconcile \/ RecoverExpired, UNCHANGED httpVars PROVE ControlInv'
  BY <1>3, ControlFrame DEF Reconcile, RecoverExpired
<1>4. ASSUME NEW j \in Jobs, RecoverDevice(j) \/ RecoverDeviceFails(j), UNCHANGED httpVars
      PROVE  ControlInv'
  <2>1. pc = "recover-device" /\ pc' \in StartupPcs /\ run' = run
    BY <1>4 DEF RecoverDevice, RecoverDeviceFails
  <2>2. \A c \in Confirmers : confirm'[c].step = "idle"
    BY <1>4, <2>1 DEF ControlInv, StartupInv
  <2>. QED BY <1>4, <2>1, <2>2 DEF ControlInv, StartupInv, RowInv, ConfirmInv, UploadInv
<1>5. ASSUME Start \/ Serve \/ Poll \/ PollExpired \/ ClaimNothing \/ SchedulerFails
      PROVE  ControlInv'
  BY <1>5, ControlFrame DEF Start, Serve, Poll, PollExpired, ClaimNothing, SchedulerFails
<1>6. ASSUME Stop \/ Shutdown PROVE ControlInv'
  BY <1>6, ControlFrame DEF Stop, Shutdown, ControlInv, StartupInv
<1>7. ASSUME Exit \/ Crash \/ StartupFails PROVE ControlInv'
  <2>1. ProcessEnds
    BY <1>7 DEF Exit, Crash, StartupFails
  <2>. QED BY <2>1
       DEF ProcessEnds, ControlInv, RowInv, ConfirmInv, StartupInv, UploadInv, NoConfirmation
<1>8. ASSUME NEW j \in Jobs, ClaimJob(j) PROVE ControlInv'
  <2>1. /\ pc = "claim" /\ pc' \in {"begin", "workspace"} /\ run'.job = j
        /\ jobs[j].state = "queued" /\ jobs'[j].state = "running"
        /\ \A k \in Jobs \ {j} : jobs'[k] = jobs[k]
    <3>1. pc = "claim" /\ pc' \in {"begin", "workspace"} /\ run'.job = j /\ Claim(j)
      BY <1>8 DEF ClaimJob, Idle
    <3>. QED BY <1>1, <3>1 DEF Claim, Claimable, Row
  <2>2. RowInv' /\ StartupInv'
    BY <2>1 DEF RowInv, StartupInv
  <2>3. ConfirmInv'
    BY <1>8, <2>1 DEF ClaimJob, ControlInv, ConfirmInv, TypeInv, JobsNamed, TerminalStates
  <2>4. UploadInv'
    BY <1>8, <2>1, JobsAssumption DEF ClaimJob, ControlInv, UploadInv
  <2>. QED BY <2>2, <2>3, <2>4 DEF ControlInv
<1>. QED BY <1>2, <1>3, <1>4, <1>5, <1>6, <1>7, <1>8 DEF RecoverStep

\* The monitor, Expire, the handlers and the environment beside a run.
LEMMA ControlOthers ==
  ASSUME TypeInv, LeaseInv, ControlInv,
         \/ /\ MonitorCancels \/ MonitorFails \/ JobDeadline
            /\ UNCHANGED httpVars
         \/ \E p \in Callers : ExpireStep(p) /\ UNCHANGED httpVars
         \/ UploadAccepted \/ UploadRefused
         \/ \E c \in Confirmers : ConfirmRemoves(c) \/ ConfirmExpired(c) \/ ConfirmResolves(c)
         \/ \E j \in Jobs : Request(j) \/ OperatorCleans(j) \/ RetentionElapses(j)
  PROVE  ControlInv'
<1>. USE DEF storeVars, httpVars, procVars
<1>1. /\ jobs \in [Jobs -> Row] /\ run \in Run /\ (pc \in RunPcs => run.job \in Jobs)
      /\ confirm \in [Confirmers -> Confirmation]
  BY TypeFacts DEF StoreTypeOK, TypeInv, TypeOK
<1>2. ASSUME NEW j \in Jobs, Enqueue(j), UNCHANGED <<pc, run, http, confirm>>,
             uploading' = NoJob \/ (uploading' = uploading /\ j # uploading)
      PROVE  ControlInv'
  <2>1. /\ jobs[j].state = "absent" /\ jobs'[j].state = "queued"
        /\ \A k \in Jobs \ {j} : jobs'[k] = jobs[k]
    BY <1>1, <1>2 DEF Enqueue, NoRow
  <2>2. RowInv'
    BY <1>1, <1>2, <2>1 DEF ControlInv, RowInv, RunPcs, RunningPcs, VerifyingPcs
  <2>3. ConfirmInv'
    BY <1>2, <2>1 DEF ControlInv, ConfirmInv, TypeInv, JobsNamed, TerminalStates
  <2>4. StartupInv' /\ UploadInv'
    BY <1>2, <2>1, JobsAssumption DEF ControlInv, StartupInv, UploadInv
  <2>. QED BY <2>2, <2>3, <2>4 DEF ControlInv
<1>3. ASSUME NEW j \in Jobs, Resolve(j), UNCHANGED <<pc, run, http, uploading>>,
             \A c \in Confirmers : confirm'[c].step # "idle" =>
               confirm[c].step # "idle" /\ confirm'[c].job = confirm[c].job
      PROVE  ControlInv'
  <2>1. /\ jobs[j].state = "cleaning" /\ jobs'[j].state \in TerminalStates
        /\ \A k \in Jobs \ {j} : jobs'[k] = jobs[k]
    BY <1>1, <1>3 DEF Resolve, Resolvable, UnderReview, Terminal, Row
  <2>2. RowInv'
    BY <1>1, <1>3, <2>1 DEF ControlInv, RowInv, RunPcs, RunningPcs, VerifyingPcs
  <2>3. ConfirmInv'
    BY <1>3, <2>1 DEF ControlInv, ConfirmInv, TypeInv, JobsNamed
  <2>4. StartupInv' /\ UploadInv'
    BY <1>3, <2>1, JobsAssumption DEF ControlInv, StartupInv, UploadInv
  <2>. QED BY <2>2, <2>3, <2>4 DEF ControlInv
<1>4. ASSUME MonitorCancels \/ MonitorFails \/ JobDeadline, UNCHANGED httpVars PROVE ControlInv'
  BY <1>1, <1>4, ControlFrame DEF MonitorCancels, MonitorFails, JobDeadline, Run
<1>5. ASSUME NEW p \in Callers, ExpireStep(p), UNCHANGED httpVars PROVE ControlInv'
  <2>1. \A j \in Jobs : jobs'[j].state = jobs[j].state
    BY <1>5, ExpireRows
  <2>. QED BY <1>5, <2>1, ControlFrame DEF ExpireStep, ExpireSkip, ExpireRemove, ExpireMark
<1>6. ASSUME UploadAccepted PROVE ControlInv'
  <2>1. PICK j \in Jobs : j = uploading
    BY <1>6 DEF UploadAccepted, TypeInv, TypeOK
  <2>2. Enqueue(j) /\ UNCHANGED <<pc, run, http, confirm>> /\ uploading' = NoJob
    BY <1>6, <2>1 DEF UploadAccepted
  <2>. QED BY <1>2, <2>2
<1>7. ASSUME UploadRefused PROVE ControlInv'
  BY <1>7, ControlFrame DEF UploadRefused
<1>8. ASSUME NEW c \in Confirmers, ConfirmRemoves(c) \/ ConfirmExpired(c) PROVE ControlInv'
  BY <1>1, <1>8, ControlFrame DEF ConfirmRemoves, ConfirmExpired, Confirmation, NoConfirmation
<1>9. ASSUME NEW c \in Confirmers, ConfirmResolves(c) PROVE ControlInv'
  <2>1. confirm[c].job \in Jobs
    BY <1>9 DEF ConfirmResolves, TypeInv, JobsNamed
  <2>2. \A d \in Confirmers : confirm'[d].step # "idle" =>
          confirm[d].step # "idle" /\ confirm'[d].job = confirm[d].job
    BY <1>1, <1>9 DEF ConfirmResolves, NoConfirmation
  <2>. QED BY <1>3, <1>9, <2>1, <2>2, ControlFrame DEF ConfirmResolves
<1>10. ASSUME NEW j \in Jobs, EnqueueRequest(j) PROVE ControlInv'
  BY <1>2, <1>10, JobsAssumption DEF EnqueueRequest, ControlInv, UploadInv
<1>11. ASSUME NEW j \in Jobs, UploadBegins(j) PROVE ControlInv'
  BY <1>11 DEF UploadBegins, ControlInv, RowInv, ConfirmInv, StartupInv, UploadInv
<1>12. ASSUME NEW j \in Jobs, CancelRequest(j) \/ RetentionElapses(j) PROVE ControlInv'
  <2>1. \A k \in Jobs : jobs'[k].state = jobs[k].state
    BY <1>1, <1>12 DEF CancelRequest, RetentionElapses, Cancel, Row
  <2>. QED BY <1>12, <2>1, ControlFrame DEF CancelRequest, RetentionElapses
<1>13. ASSUME NEW j \in Jobs, NEW c \in Confirmers, ConfirmBegins(c, j) PROVE ControlInv'
  <2>1. \A d \in Confirmers : confirm'[d].step # "idle" =>
          jobs[confirm'[d].job].state \in {"cleaning"} \cup TerminalStates
    BY <1>1, <1>13 DEF ConfirmBegins, UnderReview, ControlInv, ConfirmInv
  <2>. QED BY <1>13, <2>1 DEF ConfirmBegins, ControlInv, RowInv, ConfirmInv, StartupInv, UploadInv
<1>14. ASSUME NEW j \in Jobs, OperatorCleans(j) PROVE ControlInv'
  BY <1>14, ControlFrame DEF OperatorCleans
<1>. QED
  BY <1>4, <1>5, <1>6, <1>7, <1>8, <1>9, <1>10, <1>11, <1>12, <1>13, <1>14 DEF Request

\* Nothing runs at first.
LEMMA ControlInit == Init => ControlInv
BY DEF Init, WorkerInit, StoreInit, ControlInv, RowInv, ConfirmInv, StartupInv, UploadInv,
       NoConfirmation, RunningPcs, VerifyingPcs, AttemptPcs

\* Every action keeps the rows where their control points say they are.
LEMMA ControlStep == TypeInv /\ LeaseInv /\ ControlInv /\ [Next]_vars => ControlInv'
<1>. SUFFICES ASSUME TypeInv, LeaseInv, ControlInv, [Next]_vars PROVE ControlInv'
  OBVIOUS
<1>1. CASE UNCHANGED vars
  BY <1>1, ControlFrame DEF vars, storeVars, procVars, httpVars
<1>2. CASE MainStep
  BY <1>2, ControlRun, ControlMain, ControlOthers DEF MainStep, Callers
<1>3. CASE \E c \in Confirmers : ConfirmStep(c)
  BY <1>3, ControlOthers DEF ConfirmStep, Callers
<1>. QED
  BY <1>1, <1>2, <1>3, ControlMain, ControlOthers DEF Next


(***************************************************************************)
(* 2. The device.                                                          *)
(***************************************************************************)

\* Before an attempt and after a finish without review.
CleanPcs == {"workspace", "attempt", "retry", "backoff", "finish-expire", "pending", "change"}

\* The run takes the device to be clean of its job: it is about to start an attempt, or
\* it is past the attempts and no review is asked for.
TakenClean == pc \in CleanPcs \/ (pc \in {"decide"} \cup DesiredPcs /\ ~run.review)

DeviceInv ==
  /\ ResidueIsOwned
  /\ pc = "device" => run.attempt \in operations[run.job]
  /\ TakenClean => residue[run.job] = {}
  /\ pc = "retry-cleanup" => run.review
  /\ \A c \in Confirmers : confirm[c].step # "idle" => residue[confirm[c].job] = {}

\* A step that leaves nothing new on the device.
LEMMA DeviceFrame ==
  ASSUME TypeInv, DeviceInv, UNCHANGED operations,
         \A j \in Jobs : /\ residue'[j] \subseteq residue[j]
                         /\ residue'[j] # {} /\ jobs[j].state \in ActiveStates =>
                              jobs'[j].state \in ActiveStates,
         pc' = "device" => pc = "device" /\ run'.job = run.job /\ run'.attempt = run.attempt,
         TakenClean' => \/ TakenClean /\ pc \in RunPcs /\ run'.job = run.job
                        \/ residue'[run'.job] = {},
         pc' = "retry-cleanup" => run'.review,
         \A c \in Confirmers : confirm'[c].step # "idle" =>
           confirm[c].step # "idle" /\ confirm'[c].job = confirm[c].job
  PROVE  DeviceInv'
<1>1. \A j \in Jobs : residue[j] = {} => residue'[j] = {}
  OBVIOUS
<1>2. \A j \in Jobs : residue[j] \subseteq operations[j] /\ (residue[j] # {} => Active(j))
  BY DEF DeviceInv, ResidueIsOwned
<1>3. \A j \in Jobs : residue'[j] \subseteq operations'[j] /\ (residue'[j] # {} => Active(j)')
  BY <1>1, <1>2 DEF Active
<1>4. TakenClean' => residue'[run'.job] = {}
  BY <1>1 DEF DeviceInv, TypeInv, JobsNamed
<1>5. \A c \in Confirmers : confirm'[c].step # "idle" => residue'[confirm'[c].job] = {}
  BY <1>1 DEF DeviceInv, TypeInv, JobsNamed
<1>6. pc' = "device" => run'.attempt \in operations'[run'.job]
  BY DEF DeviceInv
<1>. QED BY <1>3, <1>4, <1>5, <1>6 DEF DeviceInv, ResidueIsOwned

\* A confirmed cleanup leaves nothing of the job: all it left belonged to recorded
\* operations, and every one of them was cleaned.
LEMMA CleanupFacts ==
  ASSUME TypeInv, DeviceInv, NEW j \in Jobs, NEW confirmed \in BOOLEAN,
         CleanupDevice(j, confirmed)
  PROVE  /\ \A k \in Jobs : residue'[k] \subseteq residue[k]
         /\ confirmed => residue'[j] = {}
<1>1. residue \in [Jobs -> SUBSET Nat] /\ ResidueIsOwned
  BY DEF TypeInv, TypeOK, WorkerTypeOK, DeviceInv
<1>2. PICK left \in SUBSET residue[j] :
        /\ residue' = [residue EXCEPT ![j] = left]
        /\ confirmed => left \cap operations[j] = {}
  BY DEF CleanupDevice, CleanupReport
<1>3. residue[j] \subseteq operations[j]
  BY <1>1 DEF ResidueIsOwned
<1>. QED BY <1>1, <1>2, <1>3

\* The steps of a run: an attempt starts clean, and a decision without review ends clean.
LEMMA DeviceRun ==
  ASSUME TypeInv, LeaseInv, ControlInv, DeviceInv, RunStep, UNCHANGED httpVars
  PROVE  DeviceInv'
<1>. USE DEF RunPcs, AttemptPcs, CleanPcs, DesiredPcs, TakenClean, storeVars, httpVars
<1>1. /\ jobs \in [Jobs -> Row] /\ run \in Run /\ (pc \in RunPcs => run.job \in Jobs)
      /\ residue \in [Jobs -> SUBSET Nat] /\ operations \in [Jobs -> SUBSET Nat]
  BY TypeFacts DEF StoreTypeOK, TypeInv, TypeOK, WorkerTypeOK
<1>2. ASSUME MakeWorkspace \/ WorkspaceFails \/ DecryptRefused PROVE DeviceInv'
  BY <1>1, <1>2, DeviceFrame DEF MakeWorkspace, WorkspaceFails, DecryptRefused, Run
<1>3. ASSUME DecryptStarts PROVE DeviceInv'
  <2>1. /\ pc = "attempt" /\ pc' = "device" /\ run'.job = run.job /\ run'.attempt = run.attempt
        /\ operations' = [operations EXCEPT ![run.job] = @ \cup {run.attempt}]
        /\ UNCHANGED <<jobs, residue>>
    BY <1>1, <1>3 DEF DecryptStarts, StartOperation, Run
  <2>2. run.attempt \in operations'[run.job]
    BY <1>1, <2>1
  <2>3. ResidueIsOwned'
    BY <1>1, <2>1 DEF DeviceInv, ResidueIsOwned, Active
  <2>. QED BY <2>1, <2>2, <2>3 DEF DeviceInv
<1>4. ASSUME DeviceContact PROVE DeviceInv'
  <2>1. /\ pc = "device" /\ pc' = "device" /\ run'.job = run.job /\ run'.attempt = run.attempt
        /\ UNCHANGED <<jobs, operations>>
    BY <1>1, <1>4 DEF DeviceContact, Run
  <2>2. /\ \A j \in Jobs \ {run.job} : residue'[j] = residue[j]
        /\ residue'[run.job] \subseteq residue[run.job] \cup {run.attempt}
    BY <1>1, <1>4 DEF DeviceContact
  <2>3. jobs[run.job].state = "running" /\ run.attempt \in operations[run.job]
    BY <2>1 DEF ControlInv, RowInv, RunningPcs, DeviceInv
  <2>4. ResidueIsOwned'
    BY <2>1, <2>2, <2>3 DEF DeviceInv, ResidueIsOwned, Active, ActiveStates
  <2>5. \A c \in Confirmers : confirm[c].step # "idle" => residue'[confirm[c].job] = {}
    BY <2>2, <2>3 DEF DeviceInv, ControlInv, ConfirmInv, TypeInv, JobsNamed, TerminalStates
  <2>. QED BY <2>1, <2>3, <2>4, <2>5 DEF DeviceInv
<1>5. ASSUME DecryptSucceeds \/ DecryptFails PROVE DeviceInv'
  <2>1. \A j \in Jobs : residue'[j] \subseteq residue[j]
    BY <1>1, <1>5 DEF DecryptSucceeds, DecryptFails, LibraryExit
  <2>2. run'.review /\ pc' # "device" /\ pc' \notin CleanPcs /\ UNCHANGED <<jobs, operations>>
    BY <1>1, <1>5 DEF DecryptSucceeds, DecryptFails, Run
  <2>. QED BY <2>1, <2>2, DeviceFrame
<1>6. ASSUME RetryCleanup \/ FinishCleanup PROVE DeviceInv'
  <2>1. PICK confirmed \in BOOLEAN :
          /\ CleanupDevice(run.job, confirmed)
          /\ pc = "retry-cleanup" => pc' = IF confirmed THEN "retry" ELSE "decide"
          /\ pc = "cleanup" => pc' = "settle" /\ run'.review = ~confirmed
    BY <1>1, <1>6 DEF RetryCleanup, FinishCleanup, Run
  <2>2. /\ pc \in {"retry-cleanup", "cleanup"} /\ run'.job = run.job
        /\ pc = "retry-cleanup" => run' = run
        /\ UNCHANGED <<jobs, operations>>
    BY <1>1, <1>6 DEF RetryCleanup, FinishCleanup, Run
  <2>3. /\ \A k \in Jobs : residue'[k] \subseteq residue[k]
        /\ confirmed => residue'[run.job] = {}
    BY <1>1, <2>1, <2>2, CleanupFacts
  <2>4. TakenClean' => residue'[run'.job] = {}
    BY <2>1, <2>2, <2>3 DEF DeviceInv
  <2>. QED BY <2>1, <2>2, <2>3, <2>4, DeviceFrame
<1>7. ASSUME RecordRetry \/ RecordPublication PROVE DeviceInv'
  <2>1. \A j \in Jobs : jobs'[j].state = jobs[j].state
    BY <1>1, <1>7 DEF RecordRetry, RecordPublication, Retry, RecordExpiry, Row
  <2>. QED BY <1>7, <2>1, DeviceFrame DEF RecordRetry, RecordPublication, Retry, RecordExpiry
<1>8. ASSUME RecordRetryFails \/ Backoff \/ Decide PROVE DeviceInv'
  BY <1>1, <1>8, DeviceFrame DEF RecordRetryFails, Backoff, Decide, Run
<1>9. ASSUME InspectOutput \/ PublishOutput \/ RemoveFiles PROVE DeviceInv'
  BY <1>1, <1>9, DeviceFrame DEF InspectOutput, PublishOutput, RemoveFiles, Run
<1>10. ASSUME FinishExpired \/ ReadPending \/ RunFails \/ FinishExpireFails PROVE DeviceInv'
  BY <1>1, <1>10, DeviceFrame DEF FinishExpired, ReadPending, RunFails, FinishExpireFails, Run
<1>11. ASSUME EnterVerifying \/ EnterCleaning PROVE DeviceInv'
  <2>1. \A j \in Jobs : jobs[j].state \in ActiveStates => jobs'[j].state \in ActiveStates
    <3>1. CASE EnterVerifying
      BY <1>1, <3>1 DEF EnterVerifying, Change, Row, ActiveStates
    <3>2. CASE EnterCleaning
      <4>1. PICK d : BeginCleanup(run.job, d)
        BY <3>2 DEF EnterCleaning
      <4>. QED BY <1>1, <4>1 DEF BeginCleanup, Row, ActiveStates
    <3>. QED BY <1>11, <3>1, <3>2
  <2>2. /\ pc \in DesiredPcs /\ pc' \in {"inspect", "remove"}
        /\ run'.job = run.job /\ run'.review = run.review
        /\ UNCHANGED <<residue, operations>>
    BY <1>11 DEF EnterVerifying, EnterCleaning, Change, BeginCleanup, Idle
  <2>. QED BY <2>1, <2>2, DeviceFrame
<1>12. ASSUME Settle PROVE DeviceInv'
  <2>1. CASE run.cleanupErr \/ run.review
    <3>1. /\ Quarantine(run.job, run.desired) /\ run.job \in Jobs /\ pc' = "release"
          /\ UNCHANGED <<residue, run>>
      BY <1>1, <1>12, <2>1 DEF Settle
    <3>2. \A j \in Jobs : jobs'[j].state = jobs[j].state
      BY <1>1, <3>1 DEF Quarantine, Row
    <3>. QED BY <3>1, <3>2, DeviceFrame DEF Quarantine
  <2>2. CASE ~(run.cleanupErr \/ run.review)
    BY <1>12, <2>2, DeviceFrame DEF Settle
  <2>. QED BY <2>1, <2>2
<1>13. ASSUME EnterTerminal PROVE DeviceInv'
  <2>1. /\ pc = "change" /\ pc' = "release" /\ residue[run.job] = {}
        /\ UNCHANGED <<residue, operations, run>>
    BY <1>13 DEF EnterTerminal, Change, DeviceInv
  <2>2. \A j \in Jobs \ {run.job} : jobs'[j] = jobs[j]
    BY <1>1, <1>13 DEF EnterTerminal, Change
  <2>. QED BY <2>1, <2>2, DeviceFrame
<1>14. ASSUME ReleaseLease PROVE DeviceInv'
  BY <1>14, DeviceFrame DEF ReleaseLease, Release
<1>. QED BY <1>2, <1>3, <1>4, <1>5, <1>6, <1>7, <1>8, <1>9, <1>10, <1>11, <1>12, <1>13, <1>14
     DEF RunStep

\* A process that ends leaves its residue with an active row, which Recover puts under review.
LEMMA DeviceMain ==
  ASSUME TypeInv, LeaseInv, ControlInv, DeviceInv,
         \/ RecoverStep /\ UNCHANGED httpVars
         \/ Start \/ Serve \/ Poll \/ PollExpired \/ ClaimNothing \/ SchedulerFails
         \/ Stop \/ Shutdown \/ Exit \/ Crash \/ StartupFails
         \/ \E j \in Jobs : ClaimJob(j)
  PROVE  DeviceInv'
<1>. USE DEF RunPcs, AttemptPcs, CleanPcs, DesiredPcs, TakenClean, storeVars, httpVars, procVars
<1>1. /\ jobs \in [Jobs -> Row] /\ (pc \in RunPcs => run.job \in Jobs)
      /\ residue \in [Jobs -> SUBSET Nat]
  BY TypeFacts DEF StoreTypeOK, TypeInv, TypeOK, WorkerTypeOK
<1>2. ASSUME RecoverJobs, UNCHANGED httpVars PROVE DeviceInv'
  <2>1. \A j \in Jobs : jobs[j].state \in ActiveStates => jobs'[j].state \in ActiveStates
    BY <1>1, <1>2, RecoverRows DEF RecoverJobs, ActiveStates
  <2>. QED BY <1>2, <2>1, DeviceFrame DEF RecoverJobs, Recover
<1>3. ASSUME Reconcile \/ RecoverExpired, UNCHANGED httpVars PROVE DeviceInv'
  BY <1>3, DeviceFrame DEF Reconcile, RecoverExpired
<1>4. ASSUME NEW j \in Jobs, RecoverDevice(j), UNCHANGED httpVars PROVE DeviceInv'
  <2>1. PICK confirmed \in BOOLEAN :
          /\ CleanupDevice(j, confirmed)
          /\ IF confirmed THEN Resolve(j) ELSE UNCHANGED storeVars
    BY <1>4 DEF RecoverDevice
  <2>2. /\ \A k \in Jobs : residue'[k] \subseteq residue[k]
        /\ confirmed => residue'[j] = {}
    BY <2>1, CleanupFacts
  <2>3. \A k \in Jobs : jobs'[k] = jobs[k] \/ (k = j /\ residue'[k] = {})
    BY <1>1, <2>1, <2>2 DEF Resolve
  <2>4. UNCHANGED operations
    BY <2>1 DEF Resolve
  <2>5. pc' = "recover-device" /\ UNCHANGED confirm
    BY <1>4 DEF RecoverDevice
  <2>6. ~TakenClean'
    BY <2>5
  <2>. QED BY <2>2, <2>3, <2>4, <2>5, <2>6, DeviceFrame
<1>5. ASSUME NEW j \in Jobs, RecoverDeviceFails(j), UNCHANGED httpVars PROVE DeviceInv'
  BY <1>5, CleanupFacts, DeviceFrame DEF RecoverDeviceFails
<1>6. ASSUME Start \/ Serve \/ Poll \/ PollExpired \/ ClaimNothing \/ SchedulerFails
      PROVE  DeviceInv'
  BY <1>6, DeviceFrame DEF Start, Serve, Poll, PollExpired, ClaimNothing, SchedulerFails
<1>9. ASSUME Stop \/ Shutdown PROVE DeviceInv'
  BY <1>9 DEF Stop, Shutdown, DeviceInv, ResidueIsOwned, Active
<1>7. ASSUME Exit \/ Crash \/ StartupFails PROVE DeviceInv'
  <2>1. ProcessEnds
    BY <1>7 DEF Exit, Crash, StartupFails
  <2>. QED BY <2>1, DeviceFrame DEF ProcessEnds, NoConfirmation
<1>8. ASSUME NEW j \in Jobs, ClaimJob(j) PROVE DeviceInv'
  <2>1. /\ pc' \in {"begin", "workspace"} /\ run'.job = j
        /\ jobs[j].state = "queued" /\ jobs'[j].state = "running"
        /\ \A k \in Jobs \ {j} : jobs'[k] = jobs[k]
        /\ UNCHANGED <<operations, residue, confirm>>
    <3>1. /\ pc' \in {"begin", "workspace"} /\ run'.job = j /\ Claim(j)
          /\ UNCHANGED <<residue, confirm>>
      BY <1>8 DEF ClaimJob, Idle
    <3>. QED BY <1>1, <3>1 DEF Claim, Claimable, Row
  <2>2. residue[j] = {}
    BY <2>1 DEF DeviceInv, ResidueIsOwned, Active, ActiveStates
  <2>3. \A k \in Jobs : jobs[k].state \in ActiveStates => jobs'[k].state \in ActiveStates
    BY <2>1 DEF ActiveStates
  <2>. QED BY <2>1, <2>2, <2>3, DeviceFrame
<1>. QED BY <1>2, <1>3, <1>4, <1>5, <1>6, <1>7, <1>8, <1>9 DEF RecoverStep

\* What runs beside a run leaves nothing on the device.
LEMMA DeviceOthers ==
  ASSUME TypeInv, LeaseInv, ControlInv, DeviceInv,
         \/ /\ MonitorCancels \/ MonitorFails \/ JobDeadline
            /\ UNCHANGED httpVars
         \/ \E p \in Callers : ExpireStep(p) /\ UNCHANGED httpVars
         \/ UploadAccepted \/ UploadRefused
         \/ \E c \in Confirmers : ConfirmRemoves(c) \/ ConfirmExpired(c) \/ ConfirmResolves(c)
         \/ \E j \in Jobs : Request(j) \/ OperatorCleans(j) \/ RetentionElapses(j)
  PROVE  DeviceInv'
<1>. USE DEF storeVars, httpVars, procVars, TakenClean
<1>1. /\ jobs \in [Jobs -> Row] /\ run \in Run /\ (pc \in RunPcs => run.job \in Jobs)
      /\ confirm \in [Confirmers -> Confirmation] /\ residue \in [Jobs -> SUBSET Nat]
  BY TypeFacts DEF StoreTypeOK, TypeInv, TypeOK, WorkerTypeOK
<1>2. TakenClean => pc \in RunPcs
  BY DEF CleanPcs, DesiredPcs, RunPcs, AttemptPcs
<1>3. ASSUME NEW j \in Jobs, Enqueue(j), UNCHANGED <<residue, pc, run, confirm>> PROVE DeviceInv'
  <2>1. \A k \in Jobs : jobs[k].state \in ActiveStates => jobs'[k] = jobs[k]
    BY <1>1, <1>3 DEF Enqueue, ActiveStates
  <2>. QED BY <1>2, <1>3, <2>1, DeviceFrame DEF Enqueue, DeviceInv
<1>4. ASSUME MonitorCancels \/ MonitorFails \/ JobDeadline, UNCHANGED httpVars PROVE DeviceInv'
  <2>1. /\ run'.job = run.job /\ run'.attempt = run.attempt /\ run'.review = run.review
        /\ UNCHANGED <<jobs, operations, residue, pc, confirm>>
    BY <1>1, <1>4 DEF MonitorCancels, MonitorFails, JobDeadline, Run
  <2>. QED BY <1>2, <2>1, DeviceFrame DEF DeviceInv
<1>5. ASSUME NEW p \in Callers, ExpireStep(p), UNCHANGED httpVars PROVE DeviceInv'
  <2>1. \A j \in Jobs : jobs'[j].state = jobs[j].state
    BY <1>5, ExpireRows
  <2>2. UNCHANGED <<operations, residue, pc, run, confirm>>
    BY <1>5 DEF ExpireStep, ExpireSkip, ExpireRemove, ExpireMark, RecordExpired
  <2>. QED BY <1>2, <2>1, <2>2, DeviceFrame DEF DeviceInv
<1>6. ASSUME UploadAccepted PROVE DeviceInv'
  <2>1. PICK j \in Jobs : j = uploading
    BY <1>6 DEF UploadAccepted, TypeInv, TypeOK
  <2>. QED BY <1>3, <1>6, <2>1 DEF UploadAccepted
<1>7. ASSUME UploadRefused PROVE DeviceInv'
  BY <1>2, <1>7, DeviceFrame DEF UploadRefused, DeviceInv
<1>8. ASSUME NEW c \in Confirmers, ConfirmRemoves(c) \/ ConfirmExpired(c) PROVE DeviceInv'
  <2>1. UNCHANGED <<jobs, operations, residue, pc, run>>
    BY <1>8 DEF ConfirmRemoves, ConfirmExpired
  <2>2. \A d \in Confirmers : confirm'[d].step # "idle" =>
          confirm[d].step # "idle" /\ confirm'[d].job = confirm[d].job
    BY <1>1, <1>8 DEF ConfirmRemoves, ConfirmExpired, Confirmation, NoConfirmation
  <2>. QED BY <1>2, <2>1, <2>2, DeviceFrame DEF DeviceInv
<1>9. ASSUME NEW c \in Confirmers, ConfirmResolves(c) PROVE DeviceInv'
  <2>1. confirm[c].job \in Jobs /\ residue[confirm[c].job] = {}
    BY <1>9 DEF ConfirmResolves, TypeInv, JobsNamed, DeviceInv
  <2>2. \A d \in Confirmers : confirm'[d].step # "idle" =>
          confirm[d].step # "idle" /\ confirm'[d].job = confirm[d].job
    BY <1>1, <1>9 DEF ConfirmResolves, NoConfirmation
  <2>3. \A k \in Jobs : jobs'[k] = jobs[k] \/ residue[k] = {}
    BY <1>1, <1>9, <2>1 DEF ConfirmResolves, Resolve
  <2>4. UNCHANGED <<operations, residue, pc, run>>
    BY <1>9 DEF ConfirmResolves, Resolve
  <2>. QED BY <1>2, <2>2, <2>3, <2>4, DeviceFrame DEF DeviceInv
<1>10. ASSUME NEW j \in Jobs, EnqueueRequest(j) PROVE DeviceInv'
  BY <1>3, <1>10 DEF EnqueueRequest
<1>11. ASSUME NEW j \in Jobs, UploadBegins(j) PROVE DeviceInv'
  BY <1>2, <1>11, DeviceFrame DEF UploadBegins, DeviceInv
<1>12. ASSUME NEW j \in Jobs, CancelRequest(j) \/ RetentionElapses(j) PROVE DeviceInv'
  <2>1. \A k \in Jobs : jobs'[k].state = jobs[k].state
    BY <1>1, <1>12 DEF CancelRequest, RetentionElapses, Cancel, Row
  <2>2. UNCHANGED <<operations, residue, pc, run, confirm>>
    BY <1>12 DEF CancelRequest, RetentionElapses, Cancel
  <2>. QED BY <1>2, <2>1, <2>2, DeviceFrame DEF DeviceInv
<1>13. ASSUME NEW j \in Jobs, NEW c \in Confirmers, ConfirmBegins(c, j) PROVE DeviceInv'
  <2>1. \A d \in Confirmers : confirm'[d].step # "idle" => residue[confirm'[d].job] = {}
    BY <1>1, <1>13 DEF ConfirmBegins, DeviceInv
  <2>. QED BY <1>13, <2>1 DEF ConfirmBegins, DeviceInv, ResidueIsOwned, Active
<1>14. ASSUME NEW j \in Jobs, OperatorCleans(j) PROVE DeviceInv'
  <2>1. \A k \in Jobs : residue'[k] \subseteq residue[k]
    BY <1>1, <1>14 DEF OperatorCleans
  <2>. QED BY <1>2, <1>14, <2>1, DeviceFrame DEF OperatorCleans, DeviceInv
<1>. QED
  BY <1>4, <1>5, <1>6, <1>7, <1>8, <1>9, <1>10, <1>11, <1>12, <1>13, <1>14 DEF Request

\* The device is clean at first.
LEMMA DeviceInit == Init => DeviceInv
BY DEF Init, WorkerInit, StoreInit, DeviceInv, ResidueIsOwned, TakenClean, CleanPcs, DesiredPcs,
       NoConfirmation

\* Every action keeps what is on the device with an active job that recorded it.
LEMMA DeviceStep ==
  TypeInv /\ LeaseInv /\ ControlInv /\ DeviceInv /\ [Next]_vars => DeviceInv'
<1>. SUFFICES ASSUME TypeInv, LeaseInv, ControlInv, DeviceInv, [Next]_vars PROVE DeviceInv'
  OBVIOUS
<1>1. CASE UNCHANGED vars
  BY <1>1 DEF vars, storeVars, procVars, httpVars, DeviceInv, ResidueIsOwned, Active, TakenClean
<1>2. CASE MainStep
  BY <1>2, DeviceRun, DeviceMain, DeviceOthers DEF MainStep, Callers
<1>3. CASE \E c \in Confirmers : ConfirmStep(c)
  BY <1>3, DeviceOthers DEF ConfirmStep, Callers
<1>. QED
  BY <1>1, <1>2, <1>3, DeviceMain, DeviceOthers DEF Next

(***************************************************************************)
(* 3. Attempts.  What the loop of Worker.Run counts is what the row says.  *)
(***************************************************************************)

AttemptInv ==
  /\ AttemptsAccounted
  /\ \A j \in Jobs : jobs[j].state \in {"absent", "queued"} => jobs[j].attempts = 0
  /\ pc = "workspace" => jobs[run.job].attempts = 1
  /\ pc \in {"attempt", "device", "retry-cleanup", "retry"} =>
       run.attempt >= 1 /\ run.attempt = jobs[run.job].attempts
  /\ pc \in {"retry-cleanup", "retry"} => run.attempt # MaxAttempts
  /\ pc = "backoff" => jobs[run.job].attempts = run.attempt + 1

\* A step that counts no attempt and starts none.
LEMMA AttemptFrame ==
  ASSUME TypeInv, AttemptInv, UNCHANGED operations,
         \A j \in Jobs : /\ jobs'[j].attempts = jobs[j].attempts
                         /\ jobs'[j].state \in {"absent", "queued"} =>
                              jobs[j].state \in {"absent", "queued"},
         pc' \in {"workspace"} \cup AttemptPcs =>
           pc' = pc /\ run'.job = run.job /\ run'.attempt = run.attempt
  PROVE  AttemptInv'
<1>1. pc \in {"workspace"} \cup AttemptPcs => run.job \in Jobs
  BY DEF TypeInv, JobsNamed, RunPcs
<1>2. AttemptsAccounted'
  BY DEF AttemptInv, AttemptsAccounted
<1>. QED BY <1>1, <1>2 DEF AttemptInv, AttemptPcs

\* The attempt loop: StartOperation, Retry and the counter stay together.
LEMMA AttemptRun ==
  ASSUME TypeInv, LeaseInv, ControlInv, AttemptInv, RunStep
  PROVE  AttemptInv'
<1>. USE DEF RunPcs, AttemptPcs, storeVars
<1>1. /\ jobs \in [Jobs -> Row] /\ run \in Run /\ (pc \in RunPcs => run.job \in Jobs)
      /\ operations \in [Jobs -> SUBSET Nat] /\ MaxAttempts \in Nat
  BY TypeFacts, LimitsAssumption DEF StoreTypeOK
<1>2. /\ \A j \in Jobs : jobs[j].attempts \in Nat /\ jobs[j].state \in States
      /\ run.attempt \in Nat
  BY <1>1 DEF Row, Run
<1>3. ASSUME WorkspaceFails \/ DecryptRefused \/ DeviceContact \/ DecryptSucceeds \/ RecordRetryFails
             \/ Decide
      PROVE  AttemptInv'
  BY <1>1, <1>3, AttemptFrame
  DEF WorkspaceFails, DecryptRefused, DeviceContact, DecryptSucceeds, RecordRetryFails, Decide, Run
<1>4. ASSUME InspectOutput \/ PublishOutput \/ RemoveFiles \/ FinishCleanup \/ FinishExpired
             \/ ReadPending \/ RunFails \/ FinishExpireFails
      PROVE  AttemptInv'
  BY <1>1, <1>4, AttemptFrame
  DEF InspectOutput, PublishOutput, RemoveFiles, FinishCleanup, FinishExpired, ReadPending, RunFails,
      FinishExpireFails
<1>5. ASSUME MakeWorkspace \/ DecryptFails \/ RetryCleanup \/ Backoff PROVE AttemptInv'
  <2>1. UNCHANGED <<jobs, operations>> /\ run'.job = run.job
    BY <1>1, <1>5 DEF MakeWorkspace, DecryptFails, RetryCleanup, Backoff, Run
  <2>2. AttemptsAccounted' /\ \A j \in Jobs : jobs'[j].state \in {"absent", "queued"} =>
                                jobs'[j].attempts = 0
    BY <2>1 DEF AttemptInv, AttemptsAccounted
  <2>3. CASE MakeWorkspace
    BY <1>1, <2>1, <2>2, <2>3 DEF MakeWorkspace, AttemptInv, Run
  <2>4. CASE DecryptFails
    BY <1>1, <2>1, <2>2, <2>4 DEF DecryptFails, AttemptInv, Run
  <2>5. CASE RetryCleanup
    BY <2>1, <2>2, <2>5 DEF RetryCleanup, AttemptInv
  <2>6. CASE Backoff
    <3>1. CASE pc' = "decide"
      BY <2>2, <3>1 DEF AttemptInv
    <3>2. CASE pc' = "attempt"
      <4>1. pc = "backoff" /\ run'.attempt = run.attempt + 1
        BY <1>1, <2>6, <3>2 DEF Backoff, Run
      <4>2. run'.attempt = jobs'[run'.job].attempts /\ run'.attempt >= 1
        BY <1>2, <2>1, <4>1 DEF AttemptInv
      <4>. QED BY <2>2, <3>2, <4>2 DEF AttemptInv
    <3>. QED BY <2>6, <3>1, <3>2 DEF Backoff
  <2>. QED BY <1>5, <2>3, <2>4, <2>5, <2>6
<1>6. ASSUME DecryptStarts PROVE AttemptInv'
  <2>1. /\ pc = "attempt" /\ pc' = "device" /\ UNCHANGED jobs
        /\ run'.job = run.job /\ run'.attempt = run.attempt
        /\ operations' = [operations EXCEPT ![run.job] = @ \cup {run.attempt}]
    BY <1>1, <1>6 DEF DecryptStarts, StartOperation, Run
  <2>2. run.attempt \in 1 .. jobs[run.job].attempts
    BY <1>1, <1>2, <2>1 DEF AttemptInv
  <2>3. AttemptsAccounted'
    BY <1>1, <2>1, <2>2 DEF AttemptInv, AttemptsAccounted
  <2>. QED BY <2>1, <2>3 DEF AttemptInv
<1>7. ASSUME RecordRetry PROVE AttemptInv'
  <2>1. /\ pc = "retry" /\ pc' = "backoff" /\ run' = run /\ UNCHANGED operations /\ Retry(run.job)
    BY <1>7 DEF RecordRetry, Retry
  <2>2. jobs[run.job].state = "running" /\ run.job \in Jobs
    BY <1>1, <2>1 DEF ControlInv, RowInv, RunningPcs
  <2>3. /\ jobs'[run.job].attempts = jobs[run.job].attempts + 1
        /\ jobs'[run.job].state = "running"
        /\ \A k \in Jobs \ {run.job} : jobs'[k] = jobs[k]
    BY <1>1, <2>1, <2>2 DEF Retry, Row
  <2>4. /\ run.attempt = jobs[run.job].attempts /\ run.attempt # MaxAttempts
        /\ \A j \in Jobs : /\ operations[j] \subseteq 1 .. jobs[j].attempts
                           /\ jobs[j].attempts <= MaxAttempts
    BY <2>1 DEF AttemptInv, AttemptsAccounted
  <2>5. jobs'[run.job].attempts <= MaxAttempts
    BY <1>1, <1>2, <2>2, <2>3, <2>4
  <2>6. \A n \in Nat : 1 .. n \subseteq 1 .. (n + 1)
    OBVIOUS
  <2>7. AttemptsAccounted'
    BY <1>2, <2>1, <2>2, <2>3, <2>4, <2>5, <2>6 DEF AttemptsAccounted
  <2>. QED BY <2>1, <2>2, <2>3, <2>4, <2>7 DEF AttemptInv
<1>8. ASSUME RecordPublication \/ EnterVerifying \/ EnterCleaning \/ EnterTerminal \/ Settle
             \/ ReleaseLease
      PROVE  AttemptInv'
  <2>1. pc' \notin {"workspace"} \cup AttemptPcs /\ run.job \in Jobs /\ UNCHANGED operations
    BY <1>1, <1>8
    DEF RecordPublication, EnterVerifying, EnterCleaning, EnterTerminal, Settle, ReleaseLease,
        RecordExpiry, Change, BeginCleanup, Quarantine, Release
  <2>2. \A j \in Jobs : /\ jobs'[j].attempts = jobs[j].attempts
                        /\ jobs'[j].state \in {"absent", "queued"} => jobs'[j].state = jobs[j].state
    <3>1. CASE RecordPublication
      BY <1>1, <3>1 DEF RecordPublication, RecordExpiry, Row
    <3>2. CASE EnterVerifying
      BY <1>1, <3>2 DEF EnterVerifying, Change, Row
    <3>3. CASE EnterCleaning
      BY <1>1, <3>3 DEF EnterCleaning, BeginCleanup, Row
    <3>4. CASE EnterTerminal
      BY <1>1, <3>4 DEF EnterTerminal, Change, CanTransition, Terminal, TerminalStates, Row
    <3>5. CASE Settle
      BY <1>1, <2>1, <3>5, QuarantineRow DEF Settle, SameJob
    <3>6. CASE ReleaseLease
      BY <3>6 DEF ReleaseLease, Release
    <3>. QED BY <1>8, <3>1, <3>2, <3>3, <3>4, <3>5, <3>6
  <2>. QED BY <2>1, <2>2, AttemptFrame
<1>. QED BY <1>3, <1>4, <1>5, <1>6, <1>7, <1>8 DEF RunStep

\* Claim counts the first attempt; startup and shutdown count none.
LEMMA AttemptMain ==
  ASSUME TypeInv, LeaseInv, ControlInv, AttemptInv,
         \/ RecoverStep /\ UNCHANGED httpVars
         \/ Start \/ Serve \/ Poll \/ PollExpired \/ ClaimNothing \/ SchedulerFails
         \/ Stop \/ Shutdown \/ Exit \/ Crash \/ StartupFails
         \/ \E j \in Jobs : ClaimJob(j)
  PROVE  AttemptInv'
<1>. USE DEF AttemptPcs, storeVars, procVars
<1>1. jobs \in [Jobs -> Row] /\ MaxAttempts \in Nat \ {0}
  BY TypeFacts, LimitsAssumption DEF StoreTypeOK
<1>2. ASSUME RecoverJobs PROVE AttemptInv'
  <2>1. \A j \in Jobs : /\ jobs'[j].attempts = jobs[j].attempts
                        /\ jobs'[j].state \in {jobs[j].state, "cleaning"}
    BY <1>1, <1>2, RecoverRows DEF RecoverJobs, SameJob
  <2>. QED BY <1>2, <2>1, AttemptFrame DEF RecoverJobs, Recover
<1>3. ASSUME Reconcile \/ RecoverExpired PROVE AttemptInv'
  BY <1>3, AttemptFrame DEF Reconcile, RecoverExpired
<1>4. ASSUME NEW j \in Jobs, RecoverDevice(j) \/ RecoverDeviceFails(j) PROVE AttemptInv'
  <2>1. pc' \in StartupPcs /\ (Resolve(j) \/ UNCHANGED storeVars)
    BY <1>4 DEF RecoverDevice, RecoverDeviceFails, StartupPcs
  <2>2. /\ \A k \in Jobs : /\ jobs'[k].attempts = jobs[k].attempts
                           /\ jobs'[k].state \in {jobs[k].state} \cup TerminalStates
        /\ UNCHANGED operations
    BY <1>1, <2>1, ResolveRow DEF SameJob
  <2>. QED BY <2>1, <2>2, AttemptFrame DEF TerminalStates, StartupPcs
<1>5. ASSUME Start \/ Serve \/ Poll \/ PollExpired \/ ClaimNothing \/ SchedulerFails PROVE AttemptInv'
  BY <1>5, AttemptFrame DEF Start, Serve, Poll, PollExpired, ClaimNothing, SchedulerFails
<1>6. ASSUME Stop \/ Shutdown \/ Exit \/ Crash \/ StartupFails PROVE AttemptInv'
  BY <1>6, AttemptFrame DEF Stop, Shutdown, Exit, Crash, StartupFails, ProcessEnds
<1>7. ASSUME NEW j \in Jobs, ClaimJob(j) PROVE AttemptInv'
  <2>1. /\ pc' \in {"begin", "workspace"} /\ run'.job = j /\ UNCHANGED operations
        /\ jobs[j].state = "queued"
        /\ jobs'[j].state = "running" /\ jobs'[j].attempts = jobs[j].attempts + 1
        /\ \A k \in Jobs \ {j} : jobs'[k] = jobs[k]
    <3>1. /\ pc' \in {"begin", "workspace"} /\ run'.job = j /\ Claim(j)
      BY <1>7 DEF ClaimJob, Idle
    <3>. QED BY <1>1, <3>1 DEF Claim, Claimable, Row
  <2>2. jobs[j].attempts = 0 /\ jobs'[j].attempts = 1
    BY <2>1 DEF AttemptInv
  <2>3. operations'[j] \subseteq 1 .. 1 /\ 1 <= MaxAttempts
    <3>1. operations[j] \subseteq 1 .. 0
      BY <2>2 DEF AttemptInv, AttemptsAccounted
    <3>. QED BY <1>1, <2>1, <3>1
  <2>4. AttemptsAccounted'
    BY <2>1, <2>2, <2>3 DEF AttemptInv, AttemptsAccounted
  <2>. QED BY <2>1, <2>2, <2>4 DEF AttemptInv
<1>. QED BY <1>2, <1>3, <1>4, <1>5, <1>6, <1>7 DEF RecoverStep

\* Nobody but the run counts attempts.
LEMMA AttemptOthers ==
  ASSUME TypeInv, LeaseInv, ControlInv, AttemptInv,
         \/ /\ MonitorCancels \/ MonitorFails \/ JobDeadline
            /\ UNCHANGED httpVars
         \/ \E p \in Callers : ExpireStep(p) /\ UNCHANGED httpVars
         \/ UploadAccepted \/ UploadRefused
         \/ \E c \in Confirmers : ConfirmRemoves(c) \/ ConfirmExpired(c) \/ ConfirmResolves(c)
         \/ \E j \in Jobs : Request(j) \/ OperatorCleans(j) \/ RetentionElapses(j)
  PROVE  AttemptInv'
<1>. USE DEF storeVars, procVars
<1>1. jobs \in [Jobs -> Row] /\ run \in Run
  BY TypeFacts DEF StoreTypeOK
<1>2. ASSUME NEW j \in Jobs, Enqueue(j) \/ Resolve(j), UNCHANGED <<pc, run>> PROVE AttemptInv'
  <2>1. \A k \in Jobs \ {j} : jobs'[k] = jobs[k]
    BY <1>1, <1>2 DEF Enqueue, Resolve
  <2>2. CASE Enqueue(j)
    <3>1. jobs[j].state = "absent" /\ jobs'[j].attempts = 0 /\ jobs[j].attempts = 0
      BY <1>1, <2>2 DEF Enqueue, NoRow, AttemptInv
    <3>. QED BY <1>2, <2>1, <2>2, <3>1, AttemptFrame DEF Enqueue
  <2>3. CASE Resolve(j)
    <3>1. jobs'[j].state \in TerminalStates /\ jobs'[j].attempts = jobs[j].attempts
      BY <1>1, <2>3 DEF Resolve, Resolvable, Terminal, Row
    <3>. QED BY <1>2, <2>1, <2>3, <3>1, AttemptFrame DEF Resolve, TerminalStates
  <2>. QED BY <1>2, <2>2, <2>3
<1>3. ASSUME MonitorCancels \/ MonitorFails \/ JobDeadline PROVE AttemptInv'
  BY <1>1, <1>3, AttemptFrame DEF MonitorCancels, MonitorFails, JobDeadline, Run
<1>4. ASSUME NEW p \in Callers, ExpireStep(p) PROVE AttemptInv'
  <2>1. \A j \in Jobs : jobs'[j].state = jobs[j].state /\ jobs'[j].attempts = jobs[j].attempts
    BY <1>4, ExpireRows DEF SameJob
  <2>2. UNCHANGED <<operations, pc, run>>
    BY <1>4 DEF ExpireStep, ExpireSkip, ExpireRemove, ExpireMark, RecordExpired
  <2>. QED BY <2>1, <2>2, AttemptFrame
<1>5. ASSUME UploadAccepted PROVE AttemptInv'
  <2>1. PICK j \in Jobs : j = uploading
    BY <1>5 DEF UploadAccepted, TypeInv, TypeOK
  <2>. QED BY <1>2, <1>5, <2>1 DEF UploadAccepted
<1>6. ASSUME UploadRefused PROVE AttemptInv'
  BY <1>6, AttemptFrame DEF UploadRefused
<1>7. ASSUME NEW c \in Confirmers, ConfirmRemoves(c) \/ ConfirmExpired(c) PROVE AttemptInv'
  BY <1>7, AttemptFrame DEF ConfirmRemoves, ConfirmExpired
<1>8. ASSUME NEW c \in Confirmers, ConfirmResolves(c) PROVE AttemptInv'
  <2>1. confirm[c].job \in Jobs
    BY <1>8 DEF ConfirmResolves, TypeInv, JobsNamed
  <2>. QED BY <1>2, <1>8, <2>1, AttemptFrame DEF ConfirmResolves
<1>9. ASSUME NEW j \in Jobs, EnqueueRequest(j) PROVE AttemptInv'
  BY <1>2, <1>9 DEF EnqueueRequest
<1>10. ASSUME NEW j \in Jobs, CancelRequest(j) \/ RetentionElapses(j) PROVE AttemptInv'
  <2>1. \A k \in Jobs : jobs'[k].state = jobs[k].state /\ jobs'[k].attempts = jobs[k].attempts
    BY <1>1, <1>10 DEF CancelRequest, RetentionElapses, Cancel, Row
  <2>. QED BY <1>10, <2>1, AttemptFrame DEF CancelRequest, RetentionElapses, Cancel
<1>11. ASSUME NEW j \in Jobs,
              UploadBegins(j) \/ OperatorCleans(j) \/ (\E c \in Confirmers : ConfirmBegins(c, j))
       PROVE  AttemptInv'
  BY <1>11, AttemptFrame DEF UploadBegins, OperatorCleans, ConfirmBegins
<1>. QED BY <1>3, <1>4, <1>5, <1>6, <1>7, <1>8, <1>9, <1>10, <1>11 DEF Request

\* No attempts at first.
LEMMA AttemptInit == Init => AttemptInv
BY LimitsAssumption DEF Init, WorkerInit, StoreInit, NoRow, AttemptInv, AttemptsAccounted

\* Every action keeps the count of the row, the loop and the operations in step.
LEMMA AttemptStep ==
  TypeInv /\ LeaseInv /\ ControlInv /\ AttemptInv /\ [Next]_vars => AttemptInv'
<1>. SUFFICES ASSUME TypeInv, LeaseInv, ControlInv, AttemptInv, [Next]_vars PROVE AttemptInv'
  OBVIOUS
<1>1. CASE UNCHANGED vars
  BY <1>1, AttemptFrame DEF vars, storeVars, procVars
<1>2. CASE MainStep
  BY <1>2, AttemptRun, AttemptMain, AttemptOthers DEF MainStep, Callers
<1>3. CASE \E c \in Confirmers : ConfirmStep(c)
  BY <1>3, AttemptOthers DEF ConfirmStep, Callers
<1>. QED
  BY <1>1, <1>2, <1>3, AttemptMain, AttemptOthers DEF Next

(***************************************************************************)
(* 4. The files.                                                           *)
(***************************************************************************)

\* The attempts of a run still read its input.
InputPcs == {"workspace"} \cup AttemptPcs

\* finish has removed the files of its job, without an error.
FilesGone ==
  \/ pc \in {"cleanup", "settle"} /\ ~run.cleanupErr
  \/ pc \in {"finish-expire", "pending", "change"}

\* Startup has reconciled the files with the rows.
ReconciledPcs == {"recover-expire", "recover-device"}

NoFiles(j) == j \notin work /\ j \notin inputs

FilesInv ==
  /\ FinishedLeavesNoFiles
  /\ \A j \in Uploads :
       jobs[j].state = "queued" \/ (run.job = j /\ pc \in InputPcs) => j \in inputs
  /\ uploading # NoJob => uploading \in inputs
  /\ FilesGone => NoFiles(run.job)
  /\ \A c \in Confirmers : confirm[c].step \in {"expire", "resolve"} => NoFiles(confirm[c].job)
  /\ pc \in ReconciledPcs => work = {} /\ \A j \in inputs : jobs[j].state = "queued"

\* A step that creates no file: a job finishes only without files, and an input goes
\* only when nobody is to read it.
LEMMA FilesFrame ==
  ASSUME FilesInv, work' \subseteq work, inputs' \subseteq inputs,
         \A j \in Jobs : jobs'[j].state # jobs[j].state =>
           /\ jobs'[j].state # "queued"
           /\ jobs'[j].state \in TerminalStates => NoFiles(j)',
         \A j \in inputs \ inputs' :
           jobs[j].state # "queued" /\ j # uploading' /\ ~(run'.job = j /\ pc' \in InputPcs),
         pc' \in InputPcs =>
           \/ pc \in InputPcs /\ run'.job = run.job
           \/ jobs[run'.job].state = "queued",
         uploading' \in {uploading, NoJob},
         FilesGone' => (FilesGone /\ run'.job = run.job) \/ NoFiles(run.job)',
         \A c \in Confirmers : confirm'[c].step \in {"expire", "resolve"} =>
           \/ confirm[c].step \in {"expire", "resolve"} /\ confirm'[c].job = confirm[c].job
           \/ confirm'[c].job \notin work' /\ confirm'[c].job \notin inputs',
         pc' \in ReconciledPcs =>
           /\ work' = {}
           /\ \A j \in inputs' : jobs'[j].state = "queued"
  PROVE  FilesInv'
<1>1. FinishedLeavesNoFiles'
  BY DEF FilesInv, FinishedLeavesNoFiles, Terminal, NoFiles
<1>2. ASSUME NEW j \in Uploads,
             jobs'[j].state = "queued" \/ (run'.job = j /\ pc' \in InputPcs)
      PROVE  j \in inputs'
  <2>1. j \in Jobs
    BY JobsAssumption
  <2>2. j \in inputs
    BY <1>2, <2>1 DEF FilesInv
  <2>. QED BY <1>2, <2>1, <2>2
<1>3. uploading' # NoJob => uploading' \in inputs'
  <2>. SUFFICES ASSUME uploading' # NoJob, uploading' \notin inputs' PROVE FALSE
    OBVIOUS
  <2>1. uploading' = uploading /\ uploading \in inputs
    BY DEF FilesInv
  <2>. QED BY <2>1
<1>. QED BY <1>1, <1>2, <1>3 DEF FilesInv, NoFiles

\* The steps of a run: files are removed before the row may become terminal.
LEMMA FilesRun ==
  ASSUME TypeInv, LeaseInv, ControlInv, FilesInv, RunStep, UNCHANGED httpVars
  PROVE  FilesInv'
<1>. USE DEF RunPcs, AttemptPcs, InputPcs, FilesGone, ReconciledPcs, storeVars, fileVars, httpVars
<1>1. jobs \in [Jobs -> Row] /\ run \in Run /\ (pc \in RunPcs => run.job \in Jobs)
  BY TypeFacts DEF StoreTypeOK
<1>2. ASSUME MakeWorkspace PROVE FilesInv'
  <2>1. /\ pc = "workspace" /\ pc' = "attempt" /\ work' = work \cup {run.job} /\ run'.job = run.job
        /\ UNCHANGED <<jobs, inputs>> /\ run.job \in Jobs
    BY <1>1, <1>2 DEF MakeWorkspace, Run
  <2>2. jobs[run.job].state = "running"
    BY <2>1 DEF ControlInv, RowInv, RunningPcs
  <2>3. FinishedLeavesNoFiles'
    BY <2>1, <2>2 DEF FilesInv, FinishedLeavesNoFiles, Terminal, TerminalStates
  <2>4. \A c \in Confirmers : confirm[c].step # "idle" => confirm[c].job # run.job
    BY <2>2 DEF ControlInv, ConfirmInv, TerminalStates
  <2>5. \A c \in Confirmers : confirm'[c].step \in {"expire", "resolve"} =>
          confirm'[c].job \notin work' /\ confirm'[c].job \notin inputs'
    BY <2>1, <2>4 DEF FilesInv, NoFiles
  <2>. QED BY <2>1, <2>3, <2>5 DEF FilesInv, NoFiles
<1>3. ASSUME WorkspaceFails \/ DecryptRefused \/ DecryptStarts \/ DeviceContact \/ DecryptSucceeds
             \/ DecryptFails
      PROVE  FilesInv'
  BY <1>1, <1>3, FilesFrame
  DEF WorkspaceFails, DecryptRefused, DecryptStarts, StartOperation, DeviceContact, DecryptSucceeds,
      DecryptFails, Run
<1>4. ASSUME RetryCleanup \/ RecordRetryFails \/ Backoff \/ Decide \/ InspectOutput \/ PublishOutput
      PROVE  FilesInv'
  BY <1>1, <1>4, FilesFrame
  DEF RetryCleanup, RecordRetryFails, Backoff, Decide, InspectOutput, PublishOutput, Run
<1>5. ASSUME FinishCleanup \/ FinishExpired \/ ReadPending \/ RunFails \/ FinishExpireFails
      PROVE  FilesInv'
  BY <1>1, <1>5, FilesFrame
  DEF FinishCleanup, FinishExpired, ReadPending, RunFails, FinishExpireFails, Run
<1>6. ASSUME RecordRetry \/ RecordPublication PROVE FilesInv'
  <2>1. \A j \in Jobs : jobs'[j].state = jobs[j].state
    BY <1>1, <1>6 DEF RecordRetry, RecordPublication, Retry, RecordExpiry, Row
  <2>. QED BY <1>6, <2>1, FilesFrame DEF RecordRetry, RecordPublication
<1>7. ASSUME EnterVerifying \/ EnterCleaning PROVE FilesInv'
  <2>1. \A j \in Jobs : jobs'[j].state \in {jobs[j].state, "verifying", "cleaning"}
    <3>1. CASE EnterVerifying
      BY <1>1, <3>1 DEF EnterVerifying, Change, Row
    <3>2. CASE EnterCleaning
      BY <1>1, <3>2 DEF EnterCleaning, BeginCleanup, Row
    <3>. QED BY <1>7, <3>1, <3>2
  <2>2. pc' \in {"inspect", "remove"} /\ UNCHANGED <<work, inputs>>
    BY <1>7 DEF EnterVerifying, EnterCleaning
  <2>. QED BY <2>1, <2>2, FilesFrame DEF TerminalStates
<1>8. ASSUME RemoveFiles PROVE FilesInv'
  <2>1. /\ pc = "remove" /\ pc' \in {"cleanup", "settle"} /\ UNCHANGED jobs /\ run'.job = run.job
        /\ run.job \in Jobs /\ jobs[run.job].state = "cleaning"
    BY <1>1, <1>8 DEF RemoveFiles, Run, LeaseInv, FinishInv, FinishPcs
  <2>2. /\ work \ work' \subseteq {run.job} /\ inputs \ inputs' \subseteq {run.job}
        /\ work' \subseteq work /\ inputs' \subseteq inputs
        /\ ~run'.cleanupErr => NoFiles(run.job)'
    <3>1. PICK failed \in SUBSET Removals :
            /\ work' = IF "work" \in failed THEN work ELSE work \ {run.job}
            /\ inputs' = IF "inputs" \in failed THEN inputs ELSE inputs \ {run.job}
            /\ run' = [run EXCEPT !.cleanupErr = failed # {}]
      BY <1>8 DEF RemoveFiles
    <3>2. run'.cleanupErr = (failed # {})
      BY <1>1, <3>1 DEF Run
    <3>3. ~run'.cleanupErr => run.job \notin work' /\ run.job \notin inputs'
      BY <3>1, <3>2
    <3>. QED BY <2>1, <3>1, <3>3 DEF NoFiles
  <2>3. uploading # run.job
    BY <2>1, JobsAssumption DEF ControlInv, UploadInv
  <2>. QED BY <2>1, <2>2, <2>3, FilesFrame
<1>9. ASSUME Settle PROVE FilesInv'
  <2>1. CASE run.cleanupErr \/ run.review
    <3>1. /\ Quarantine(run.job, run.desired) /\ run.job \in Jobs /\ pc' = "release"
          /\ UNCHANGED <<work, inputs>>
      BY <1>1, <1>9, <2>1 DEF Settle
    <3>2. \A j \in Jobs : jobs'[j].state = jobs[j].state
      BY <1>1, <3>1, QuarantineRow
    <3>. QED BY <3>1, <3>2, FilesFrame
  <2>2. CASE ~(run.cleanupErr \/ run.review)
    BY <1>9, <2>2, FilesFrame DEF Settle
  <2>. QED BY <2>1, <2>2
<1>10. ASSUME EnterTerminal PROVE FilesInv'
  <2>1. /\ pc = "change" /\ pc' = "release" /\ UNCHANGED <<work, inputs>> /\ NoFiles(run.job)
        /\ jobs[run.job].state = "cleaning" /\ run.job \in Jobs
    BY <1>1, <1>10 DEF EnterTerminal, FilesInv, LeaseInv, FinishInv, FinishPcs
  <2>2. /\ \A j \in Jobs \ {run.job} : jobs'[j] = jobs[j]
        /\ jobs'[run.job].state # "queued"
    BY <1>1, <1>10, <2>1 DEF EnterTerminal, Change, CanTransition, Terminal, TerminalStates, Row
  <2>. QED BY <2>1, <2>2, FilesFrame DEF NoFiles
<1>11. ASSUME ReleaseLease PROVE FilesInv'
  BY <1>11, FilesFrame DEF ReleaseLease, Release
<1>. QED BY <1>2, <1>3, <1>4, <1>5, <1>6, <1>7, <1>8, <1>9, <1>10, <1>11 DEF RunStep

\* Reconciliation removes what no waiting job needs.
LEMMA FilesMain ==
  ASSUME TypeInv, LeaseInv, ControlInv, FilesInv,
         \/ RecoverStep /\ UNCHANGED httpVars
         \/ Start \/ Serve \/ Poll \/ PollExpired \/ ClaimNothing \/ SchedulerFails
         \/ Stop \/ Shutdown \/ Exit \/ Crash \/ StartupFails
         \/ \E j \in Jobs : ClaimJob(j)
  PROVE  FilesInv'
<1>. USE DEF RunPcs, AttemptPcs, InputPcs, FilesGone, ReconciledPcs, storeVars, fileVars, procVars,
             httpVars
<1>1. jobs \in [Jobs -> Row] /\ (pc \in RunPcs => run.job \in Jobs)
  BY TypeFacts DEF StoreTypeOK
<1>2. ASSUME RecoverJobs, UNCHANGED httpVars PROVE FilesInv'
  <2>1. \A j \in Jobs : jobs'[j].state \in {jobs[j].state, "cleaning"}
    BY <1>1, <1>2, RecoverRows DEF RecoverJobs
  <2>. QED BY <1>2, <2>1, FilesFrame DEF RecoverJobs, TerminalStates
<1>3. ASSUME Reconcile, UNCHANGED httpVars PROVE FilesInv'
  <2>1. /\ UNCHANGED jobs /\ pc' \in {"recover-expire", "down"}
        /\ work' \subseteq work /\ inputs' \subseteq inputs
        /\ \A j \in inputs \ inputs' : jobs[j].state # "queued"
        /\ pc' = "recover-expire" => work' = {} /\ \A j \in inputs' : jobs[j].state = "queued"
    BY <1>3 DEF Reconcile, KeepInput
  <2>2. uploading = NoJob /\ \A c \in Confirmers : confirm[c].step = "idle"
    BY <1>3 DEF Reconcile, ControlInv, StartupInv, StartupPcs
  <2>3. \A j \in inputs : j # uploading'
    BY <1>3, <2>2, JobsAssumption DEF TypeInv, TypeOK, WorkerTypeOK
  <2>. QED BY <1>3, <2>1, <2>2, <2>3, FilesFrame
<1>4. ASSUME RecoverExpired, UNCHANGED httpVars PROVE FilesInv'
  BY <1>4, FilesFrame DEF RecoverExpired, FilesInv
<1>5. ASSUME NEW j \in Jobs, RecoverDevice(j) \/ RecoverDeviceFails(j), UNCHANGED httpVars
      PROVE  FilesInv'
  <2>1. /\ pc = "recover-device" /\ pc' \in {"recover-device", "down"} /\ UNCHANGED <<work, inputs>>
        /\ Resolve(j) \/ UNCHANGED storeVars
    BY <1>5 DEF RecoverDevice, RecoverDeviceFails
  <2>2. work = {} /\ \A k \in inputs : jobs[k].state = "queued"
    BY <2>1 DEF FilesInv
  <2>3. \A k \in Jobs : jobs'[k].state # jobs[k].state =>
          jobs[k].state = "cleaning" /\ jobs'[k].state \in TerminalStates
    BY <1>1, <2>1, ResolveRow
  <2>4. inputs \subseteq Jobs
    BY DEF TypeInv, TypeOK, WorkerTypeOK
  <2>5. \A k \in Jobs : jobs'[k].state # jobs[k].state => NoFiles(k)'
    BY <2>1, <2>2, <2>3 DEF NoFiles
  <2>6. \A k \in inputs' : jobs'[k].state = "queued"
    BY <2>1, <2>2, <2>3, <2>4
  <2>. QED BY <1>5, <2>1, <2>2, <2>3, <2>5, <2>6, FilesFrame DEF TerminalStates
<1>6. ASSUME Start \/ Serve \/ Poll \/ PollExpired \/ ClaimNothing \/ SchedulerFails PROVE FilesInv'
  BY <1>6, FilesFrame DEF Start, Serve, Poll, PollExpired, ClaimNothing, SchedulerFails
<1>7. ASSUME Stop \/ Shutdown PROVE FilesInv'
  BY <1>7 DEF Stop, Shutdown, FilesInv, FinishedLeavesNoFiles, NoFiles
<1>8. ASSUME Exit \/ Crash \/ StartupFails PROVE FilesInv'
  <2>1. ProcessEnds
    BY <1>8 DEF Exit, Crash, StartupFails
  <2>. QED BY <2>1, FilesFrame DEF ProcessEnds, NoConfirmation
<1>9. ASSUME NEW j \in Jobs, ClaimJob(j) PROVE FilesInv'
  <2>1. /\ pc' \in {"begin", "workspace"} /\ run'.job = j
        /\ jobs[j].state = "queued" /\ jobs'[j].state = "running"
        /\ \A k \in Jobs \ {j} : jobs'[k] = jobs[k]
        /\ UNCHANGED <<work, inputs, confirm, uploading>>
    <3>1. /\ pc' \in {"begin", "workspace"} /\ run'.job = j /\ Claim(j)
          /\ UNCHANGED <<work, inputs, confirm, uploading>>
      BY <1>9 DEF ClaimJob, Idle
    <3>. QED BY <1>1, <3>1 DEF Claim, Claimable, Row
  <2>. QED BY <2>1, FilesFrame DEF TerminalStates
<1>. QED BY <1>2, <1>3, <1>4, <1>5, <1>6, <1>7, <1>8, <1>9 DEF RecoverStep

\* Uploads and confirmations: an accepted upload has its input, a settled job no files.
LEMMA FilesOthers ==
  ASSUME TypeInv, LeaseInv, ControlInv, FilesInv,
         \/ /\ MonitorCancels \/ MonitorFails \/ JobDeadline
            /\ UNCHANGED httpVars
         \/ \E p \in Callers : ExpireStep(p) /\ UNCHANGED httpVars
         \/ UploadAccepted \/ UploadRefused
         \/ \E c \in Confirmers : ConfirmRemoves(c) \/ ConfirmExpired(c) \/ ConfirmResolves(c)
         \/ \E j \in Jobs : Request(j) \/ OperatorCleans(j) \/ RetentionElapses(j)
  PROVE  FilesInv'
<1>. USE DEF storeVars, fileVars, procVars, httpVars
<1>1. /\ jobs \in [Jobs -> Row] /\ run \in Run /\ (pc \in RunPcs => run.job \in Jobs)
      /\ confirm \in [Confirmers -> Confirmation]
  BY TypeFacts DEF StoreTypeOK, TypeInv, TypeOK
<1>2. /\ pc \in InputPcs => jobs[run.job].state = "running"
      /\ FilesGone => jobs[run.job].state = "cleaning"
      /\ pc \in InputPcs \/ FilesGone => pc \in RunPcs
  BY DEF InputPcs, FilesGone, RunPcs, AttemptPcs, ControlInv, RowInv, RunningPcs, LeaseInv, FinishInv,
         FinishPcs
<1>3. \A c \in Confirmers : confirm[c].step # "idle" =>
        confirm[c].job \in Jobs /\ jobs[confirm[c].job].state \in {"cleaning"} \cup TerminalStates
  BY DEF ControlInv, ConfirmInv, TypeInv, JobsNamed
<1>4. pc \in ReconciledPcs =>
        http = "off" /\ uploading = NoJob /\ \A c \in Confirmers : confirm[c].step = "idle"
  BY DEF ControlInv, StartupInv, StartupPcs, ReconciledPcs
<1>5. ASSUME UNCHANGED <<work, inputs, pc, confirm, uploading>>, run'.job = run.job,
             run'.cleanupErr = run.cleanupErr, \A j \in Jobs : jobs'[j].state = jobs[j].state
      PROVE  FilesInv'
  <2>1. pc' \in ReconciledPcs => work' = {} /\ \A j \in inputs' : jobs'[j].state = "queued"
    BY <1>5 DEF FilesInv, TypeInv, TypeOK, WorkerTypeOK
  <2>. QED BY <1>5, <2>1, FilesFrame DEF FilesGone
<1>6. ASSUME NEW j \in Jobs, Enqueue(j), j \in Uploads => j \in inputs, pc \notin ReconciledPcs,
             UNCHANGED <<work, inputs, pc, run, confirm>>, uploading' \in {uploading, NoJob}
      PROVE  FilesInv'
  <2>1. jobs'[j].state = "queued" /\ \A k \in Jobs \ {j} : jobs'[k] = jobs[k]
    BY <1>1, <1>6 DEF Enqueue, NoRow
  <2>2. FinishedLeavesNoFiles'
    BY <1>6, <2>1 DEF FilesInv, FinishedLeavesNoFiles, Terminal, TerminalStates
  <2>. QED BY <1>6, <2>1, <2>2, JobsAssumption DEF FilesInv, FilesGone, NoFiles
<1>7. ASSUME MonitorCancels \/ MonitorFails \/ JobDeadline, UNCHANGED httpVars PROVE FilesInv'
  BY <1>1, <1>5, <1>7 DEF MonitorCancels, MonitorFails, JobDeadline, Run
<1>8. ASSUME NEW p \in Callers, ExpireStep(p), UNCHANGED httpVars PROVE FilesInv'
  BY <1>5, <1>8, ExpireRows
<1>9. ASSUME UploadAccepted PROVE FilesInv'
  <2>1. PICK j \in Jobs : j = uploading
    BY <1>9 DEF UploadAccepted, TypeInv, TypeOK
  <2>2. j \in inputs /\ pc \notin ReconciledPcs
    BY <1>4, <1>9, <2>1 DEF UploadAccepted, FilesInv
  <2>. QED BY <1>6, <1>9, <2>1, <2>2 DEF UploadAccepted
<1>10. ASSUME UploadRefused PROVE FilesInv'
  <2>1. /\ UNCHANGED <<jobs, work, pc, run, confirm>> /\ uploading' = NoJob
        /\ inputs' \subseteq inputs /\ inputs \ inputs' \subseteq {uploading}
        /\ uploading # NoJob
    BY <1>10 DEF UploadRefused
  <2>2. uploading \in Jobs /\ jobs[uploading].state = "absent" /\ pc \notin ReconciledPcs
    BY <1>4, <2>1 DEF ControlInv, UploadInv, TypeInv, TypeOK
  <2>. QED BY <1>2, <2>1, <2>2, FilesFrame DEF FilesGone
<1>11. ASSUME NEW c \in Confirmers, ConfirmRemoves(c) PROVE FilesInv'
  <2>1. /\ UNCHANGED <<jobs, pc, run, uploading>> /\ confirm[c].step = "remove"
        /\ \A d \in Confirmers \ {c} : confirm'[d] = confirm[d]
    BY <1>1, <1>11 DEF ConfirmRemoves
  <2>2. /\ work' \subseteq work /\ inputs' \subseteq inputs
        /\ inputs \ inputs' \subseteq {confirm[c].job}
        /\ \/ confirm'[c].step = "idle"
           \/ confirm'[c].job \notin work' /\ confirm'[c].job \notin inputs'
    <3>1. PICK failed \in SUBSET {"work", "inputs", "tmp"} :
            /\ work' = IF "work" \in failed THEN work ELSE work \ {confirm[c].job}
            /\ inputs' = IF "inputs" \in failed THEN inputs ELSE inputs \ {confirm[c].job}
            /\ IF failed = {}
               THEN confirm' = [confirm EXCEPT ![c].step = "expire"]
               ELSE confirm' = [confirm EXCEPT ![c] = NoConfirmation]
      BY <1>11 DEF ConfirmRemoves
    <3>2. CASE failed = {}
      BY <1>1, <3>1, <3>2 DEF Confirmation
    <3>3. CASE failed # {}
      BY <1>1, <3>1, <3>3 DEF NoConfirmation
    <3>. QED BY <3>2, <3>3
  <2>3. jobs[confirm[c].job].state \in {"cleaning"} \cup TerminalStates /\ pc \notin ReconciledPcs
    BY <1>3, <1>4, <2>1
  <2>4. confirm[c].job # uploading
    BY <1>3, <2>1, <2>3, JobsAssumption DEF ControlInv, UploadInv, TerminalStates
  <2>5. jobs[confirm[c].job].state \notin {"queued", "running"}
    BY <2>3 DEF TerminalStates
  <2>. QED BY <1>2, <2>1, <2>2, <2>3, <2>4, <2>5, FilesFrame DEF FilesGone
<1>12. ASSUME NEW c \in Confirmers, ConfirmExpired(c) PROVE FilesInv'
  <2>1. UNCHANGED <<jobs, work, inputs, pc, run, uploading>>
    BY <1>12 DEF ConfirmExpired
  <2>2. \A d \in Confirmers : confirm'[d].step \in {"expire", "resolve"} =>
          confirm[d].step \in {"expire", "resolve"} /\ confirm'[d].job = confirm[d].job
    BY <1>1, <1>12 DEF ConfirmExpired, Confirmation, NoConfirmation
  <2>. QED BY <2>1, <2>2, FilesFrame DEF FilesInv, FilesGone
<1>13. ASSUME NEW c \in Confirmers, ConfirmResolves(c) PROVE FilesInv'
  <2>1. /\ UNCHANGED <<work, inputs, pc, run, uploading>>
        /\ confirm[c].step = "resolve" /\ confirm[c].job \in Jobs
        /\ Resolve(confirm[c].job) \/ UNCHANGED jobs
    BY <1>3, <1>13 DEF ConfirmResolves
  <2>2. \A d \in Confirmers : confirm'[d].step \in {"expire", "resolve"} =>
          confirm[d].step \in {"expire", "resolve"} /\ confirm'[d].job = confirm[d].job
    BY <1>1, <1>13 DEF ConfirmResolves, NoConfirmation
  <2>3. \A k \in Jobs : jobs'[k].state # jobs[k].state =>
          k = confirm[c].job /\ jobs'[k].state \in TerminalStates
    BY <1>1, <2>1, ResolveRow
  <2>4. NoFiles(confirm[c].job) /\ pc \notin ReconciledPcs
    BY <1>4, <2>1 DEF FilesInv
  <2>. QED BY <2>1, <2>2, <2>3, <2>4, FilesFrame DEF FilesGone, NoFiles, TerminalStates
<1>14. ASSUME NEW j \in Jobs, EnqueueRequest(j) PROVE FilesInv'
  BY <1>4, <1>6, <1>14 DEF EnqueueRequest
<1>15. ASSUME NEW j \in Jobs, UploadBegins(j) PROVE FilesInv'
  <2>1. /\ inputs' = inputs \cup {j} /\ uploading' = j /\ jobs[j].state = "absent"
        /\ UNCHANGED <<jobs, work, pc, run, confirm>> /\ http = "open"
    BY <1>15 DEF UploadBegins
  <2>2. FinishedLeavesNoFiles'
    BY <2>1 DEF FilesInv, FinishedLeavesNoFiles, Terminal, TerminalStates
  <2>3. FilesGone => run.job # j
    BY <1>2, <2>1
  <2>4. \A c \in Confirmers : confirm[c].step # "idle" => confirm[c].job # j
    BY <1>3, <2>1 DEF TerminalStates
  <2>5. pc \notin ReconciledPcs
    BY <1>4, <2>1
  <2>. QED BY <2>1, <2>2, <2>3, <2>4, <2>5 DEF FilesInv, FilesGone, NoFiles
<1>16. ASSUME NEW j \in Jobs, CancelRequest(j) \/ RetentionElapses(j) PROVE FilesInv'
  <2>1. \A k \in Jobs : jobs'[k].state = jobs[k].state
    BY <1>1, <1>16 DEF CancelRequest, RetentionElapses, Cancel, Row
  <2>. QED BY <1>5, <1>16, <2>1 DEF CancelRequest, RetentionElapses
<1>17. ASSUME NEW j \in Jobs, NEW c \in Confirmers, ConfirmBegins(c, j) PROVE FilesInv'
  <2>1. UNCHANGED <<jobs, work, inputs, pc, run, uploading>>
    BY <1>17 DEF ConfirmBegins
  <2>2. \A d \in Confirmers : confirm'[d].step \in {"expire", "resolve"} => confirm'[d] = confirm[d]
    BY <1>1, <1>17 DEF ConfirmBegins
  <2>. QED BY <2>1, <2>2, FilesFrame DEF FilesInv, FilesGone
<1>18. ASSUME NEW j \in Jobs, OperatorCleans(j) PROVE FilesInv'
  BY <1>5, <1>18 DEF OperatorCleans
<1>. QED
  BY <1>7, <1>8, <1>9, <1>10, <1>11, <1>12, <1>13, <1>14, <1>15, <1>16, <1>17, <1>18 DEF Request

\* There are no files at first.
LEMMA FilesInit == Init => FilesInv
BY JobsAssumption
DEF Init, WorkerInit, StoreInit, NoRow, NoConfirmation, FilesInv, FinishedLeavesNoFiles, Terminal,
    TerminalStates, InputPcs, AttemptPcs, FilesGone, ReconciledPcs

\* Every action keeps inputs as long as they are needed, and no longer than their job.
LEMMA FilesStep ==
  TypeInv /\ LeaseInv /\ ControlInv /\ FilesInv /\ [Next]_vars => FilesInv'
<1>. SUFFICES ASSUME TypeInv, LeaseInv, ControlInv, FilesInv, [Next]_vars PROVE FilesInv'
  OBVIOUS
<1>1. CASE UNCHANGED vars
  BY <1>1
  DEF vars, storeVars, fileVars, procVars, httpVars, FilesInv, FinishedLeavesNoFiles, FilesGone, NoFiles
<1>2. CASE MainStep
  BY <1>2, FilesRun, FilesMain, FilesOthers DEF MainStep, Callers
<1>3. CASE \E c \in Confirmers : ConfirmStep(c)
  BY <1>3, FilesOthers DEF ConfirmStep, Callers
<1>. QED
  BY <1>1, <1>2, <1>3, FilesMain, FilesOthers DEF Next

(***************************************************************************)
(* 5. The outcome and the artifact.                                        *)
(***************************************************************************)

\* The row says completed, or will once its review is resolved.
Promised(r) == r.state = "completed" \/ (r.state = "cleaning" /\ r.pendingState = "completed")

OutcomePcs == {"begin"} \cup FinishPcs

RecordInv ==
  \A j \in Jobs :
    /\ jobs[j].state = "absent" => ~jobs[j].cancelRequested
    /\ jobs[j].state \in {"absent", "queued"} => jobs[j].expiresAt = "nil"
    /\ Promised(jobs[j]) => ~jobs[j].cancelRequested
    /\ jobs[j].state = "cleaning" /\ jobs[j].pendingState = "cancelled" => jobs[j].cancelRequested

ArtifactInv ==
  \A j \in Jobs : Promised(jobs[j]) /\ jobs[j].expiresAt = "future" => artifacts[j] = "good"

DecisionInv ==
  /\ pc \in RunningPcs \cup VerifyingPcs => jobs[run.job].expiresAt = "nil"
  /\ pc \in {"verify"} \cup VerifyingPcs => run.desired = "completed"
  /\ pc = "publish" => run.output = "good"
  /\ pc = "record" => artifacts[run.job] = "good"
  /\ pc \in OutcomePcs =>
       /\ run.desired = "completed" /\ jobs[run.job].expiresAt = "future" =>
            artifacts[run.job] = "good"
       /\ run.desired = "cancelled" => jobs[run.job].cancelRequested
  /\ pc \in FinishPcs =>
       /\ run.desired = "completed" => ~jobs[run.job].cancelRequested
       /\ jobs[run.job].pendingState \in {run.desired, "failed"}

OutcomeInv == RecordInv /\ ArtifactInv /\ DecisionInv

\* A step that changes no outcome; an artifact goes only when its retention has elapsed.
LEMMA OutcomeFrame ==
  ASSUME TypeInv, OutcomeInv,
         \A j \in Jobs : /\ jobs'[j].state = jobs[j].state
                         /\ jobs'[j].cancelRequested = jobs[j].cancelRequested
                         /\ jobs'[j].expiresAt = jobs[j].expiresAt
                         /\ jobs'[j].pendingState \in {jobs[j].pendingState, "failed"}
                         /\ artifacts'[j] = artifacts[j] \/ jobs[j].expiresAt = "past",
         pc' \in RunningPcs \cup VerifyingPcs =>
           pc \in RunningPcs \cup VerifyingPcs /\ run'.job = run.job,
         pc' \in {"verify"} \cup VerifyingPcs =>
           pc \in {"verify"} \cup VerifyingPcs /\ run'.desired = run.desired,
         pc' = "publish" => run'.output = "good",
         pc' = "record" => pc = "record",
         pc' \in OutcomePcs =>
           /\ run'.job = run.job
           /\ \/ pc \in OutcomePcs /\ run'.desired = run.desired
              \/ pc \in RunPcs /\ run'.desired = "failed",
         pc' \in FinishPcs => pc \in FinishPcs /\ run'.desired = run.desired
  PROVE  OutcomeInv'
<1>1. /\ pc \in RunningPcs \cup VerifyingPcs \cup OutcomePcs => run.job \in Jobs
      /\ "record" \in VerifyingPcs /\ FinishPcs \subseteq OutcomePcs
  BY DEF TypeInv, JobsNamed, RunPcs, RunningPcs, VerifyingPcs, AttemptPcs, OutcomePcs, FinishPcs
<1>2. RecordInv'
  BY DEF OutcomeInv, RecordInv, Promised
<1>3. ArtifactInv'
  BY DEF OutcomeInv, ArtifactInv, Promised
<1>4. DecisionInv'
  <2>1. pc' \in RunningPcs \cup VerifyingPcs => jobs'[run'.job].expiresAt = "nil"
    BY <1>1 DEF OutcomeInv, DecisionInv
  <2>2. pc' = "record" => artifacts'[run'.job] = "good"
    BY <1>1 DEF OutcomeInv, DecisionInv
  <2>3. ASSUME pc' \in OutcomePcs
        PROVE  /\ run'.desired = "completed" /\ jobs'[run'.job].expiresAt = "future" =>
                    artifacts'[run'.job] = "good"
               /\ run'.desired = "cancelled" => jobs'[run'.job].cancelRequested
    <3>1. CASE pc \in OutcomePcs /\ run'.desired = run.desired
      BY <1>1, <2>3, <3>1 DEF OutcomeInv, DecisionInv
    <3>2. CASE run'.desired = "failed"
      BY <3>2
    <3>. QED BY <2>3, <3>1, <3>2
  <2>4. ASSUME pc' \in FinishPcs
        PROVE  /\ run'.desired = "completed" => ~jobs'[run'.job].cancelRequested
               /\ jobs'[run'.job].pendingState \in {run'.desired, "failed"}
    BY <1>1, <2>4 DEF OutcomeInv, DecisionInv
  <2>. QED BY <2>1, <2>2, <2>3, <2>4 DEF OutcomeInv, DecisionInv
<1>. QED BY <1>2, <1>3, <1>4 DEF OutcomeInv

\* The steps of a run: what is chosen, published and recorded agrees.
LEMMA OutcomeRun ==
  ASSUME TypeInv, LeaseInv, ControlInv, OutcomeInv, RunStep
  PROVE  OutcomeInv'
<1>. USE DEF RunPcs, AttemptPcs, RunningPcs, VerifyingPcs, FinishPcs, OutcomePcs, storeVars, fileVars
<1>1. /\ jobs \in [Jobs -> Row] /\ run \in Run /\ (pc \in RunPcs => run.job \in Jobs)
      /\ artifacts \in [Jobs -> Contents]
  BY TypeFacts DEF StoreTypeOK, TypeInv, TypeOK, WorkerTypeOK
<1>2. /\ pc \in RunningPcs => jobs[run.job].state = "running"
      /\ pc \in VerifyingPcs => jobs[run.job].state = "verifying"
      /\ pc \in FinishPcs => jobs[run.job].state = "cleaning"
  BY DEF ControlInv, RowInv, LeaseInv, FinishInv
<1>3. ASSUME MakeWorkspace \/ WorkspaceFails \/ DecryptRefused \/ DecryptStarts \/ DeviceContact
      PROVE  OutcomeInv'
  BY <1>1, <1>3, OutcomeFrame
  DEF MakeWorkspace, WorkspaceFails, DecryptRefused, DecryptStarts, StartOperation, DeviceContact, Run
<1>4. ASSUME DecryptSucceeds \/ DecryptFails \/ RetryCleanup \/ RecordRetryFails \/ Backoff
      PROVE  OutcomeInv'
  BY <1>1, <1>4, OutcomeFrame
  DEF DecryptSucceeds, DecryptFails, RetryCleanup, RecordRetryFails, Backoff, Run
<1>5. ASSUME RecordRetry PROVE OutcomeInv'
  <2>1. \A j \in Jobs : /\ jobs'[j].state = jobs[j].state
                        /\ jobs'[j].cancelRequested = jobs[j].cancelRequested
                        /\ jobs'[j].expiresAt = jobs[j].expiresAt
                        /\ jobs'[j].pendingState = jobs[j].pendingState
    BY <1>1, <1>5 DEF RecordRetry, Retry, Row
  <2>. QED BY <1>5, <2>1, OutcomeFrame DEF RecordRetry
<1>6. ASSUME Decide PROVE OutcomeInv'
  <2>1. CASE pc' = "abort"
    BY <1>6, <2>1, OutcomeFrame DEF Decide
  <2>2. CASE pc' # "abort"
    <3>1. /\ pc = "decide" /\ UNCHANGED <<jobs, artifacts>> /\ run'.job = run.job
          /\ run'.desired = Outcome
          /\ pc' = IF Outcome = "completed" THEN "verify" ELSE "begin"
      BY <1>1, <1>6, <2>2 DEF Decide, Run
    <3>2. Outcome = "cancelled" => jobs[run.job].cancelRequested
      BY DEF Outcome
    <3>3. RecordInv' /\ ArtifactInv'
      BY <3>1 DEF OutcomeInv, RecordInv, ArtifactInv
    <3>4. DecisionInv'
      BY <3>1, <3>2 DEF OutcomeInv, DecisionInv
    <3>. QED BY <3>3, <3>4 DEF OutcomeInv
  <2>. QED BY <2>1, <2>2
<1>7. ASSUME EnterVerifying PROVE OutcomeInv'
  <2>1. /\ pc = "verify" /\ pc' = "inspect" /\ UNCHANGED <<run, artifacts>> /\ run.job \in Jobs
        /\ jobs' = [jobs EXCEPT ![run.job].state = "verifying"]
    BY <1>1, <1>7 DEF EnterVerifying, Change
  <2>2. RecordInv' /\ ArtifactInv'
    BY <1>1, <2>1 DEF OutcomeInv, RecordInv, ArtifactInv, Promised, Row
  <2>3. DecisionInv'
    BY <1>1, <2>1 DEF OutcomeInv, DecisionInv, Row
  <2>. QED BY <2>2, <2>3 DEF OutcomeInv
<1>8. ASSUME InspectOutput PROVE OutcomeInv'
  BY <1>1, <1>8, OutcomeFrame DEF InspectOutput, Run
<1>9. ASSUME PublishOutput PROVE OutcomeInv'
  <2>1. /\ pc = "publish" /\ pc' \in {"record", "begin"} /\ UNCHANGED jobs /\ run'.job = run.job
        /\ pc' = "record" => artifacts' = [artifacts EXCEPT ![run.job] = run.output]
        /\ pc' = "begin" => run'.desired = "failed"
        /\ \A j \in Jobs \ {run.job} : artifacts'[j] = artifacts[j]
    BY <1>1, <1>9 DEF PublishOutput, Run
  <2>2. run.output = "good" /\ jobs[run.job].state = "verifying" /\ run.job \in Jobs
    BY <1>1, <1>2, <2>1 DEF OutcomeInv, DecisionInv
  <2>3. RecordInv' /\ ArtifactInv'
    BY <2>1, <2>2 DEF OutcomeInv, RecordInv, ArtifactInv, Promised
  <2>4. run'.desired \in {run.desired, "failed"} /\ (pc' = "record" => run'.desired = run.desired)
    BY <1>1, <1>9 DEF PublishOutput, Run
  <2>5. /\ pc' = "record" => artifacts'[run.job] = "good" /\ run'.desired = "completed"
        /\ jobs[run.job].expiresAt = "nil"
    BY <1>1, <2>1, <2>2, <2>4 DEF OutcomeInv, DecisionInv
  <2>6. DecisionInv'
    BY <2>1, <2>5 DEF DecisionInv
  <2>. QED BY <2>3, <2>6 DEF OutcomeInv
<1>10. ASSUME RecordPublication PROVE OutcomeInv'
  <2>1. /\ pc = "record" /\ pc' = "begin" /\ UNCHANGED <<run, artifacts>> /\ run.job \in Jobs
        /\ jobs' = [jobs EXCEPT ![run.job].expiresAt = "future"]
    BY <1>1, <1>10 DEF RecordPublication, RecordExpiry
  <2>2. /\ jobs[run.job].state = "verifying" /\ artifacts[run.job] = "good"
        /\ run.desired = "completed"
    BY <1>2, <2>1 DEF OutcomeInv, DecisionInv
  <2>3. RecordInv' /\ ArtifactInv'
    BY <1>1, <2>1, <2>2 DEF OutcomeInv, RecordInv, ArtifactInv, Promised, Row
  <2>4. DecisionInv'
    BY <1>1, <2>1, <2>2 DEF OutcomeInv, DecisionInv, Row
  <2>. QED BY <2>3, <2>4 DEF OutcomeInv
<1>11. ASSUME EnterCleaning PROVE OutcomeInv'
  <2>. DEFINE asked == IF CtxErr THEN "failed" ELSE run.desired
              kept == CleanupOutcome(run.job, asked)
  <2>1. /\ pc = "begin" /\ pc' = "remove" /\ UNCHANGED artifacts /\ run.job \in Jobs
        /\ jobs' = [jobs EXCEPT ![run.job] = [jobs[run.job] EXCEPT
                      !.state = "cleaning", !.pendingState = kept]]
        /\ run'.job = run.job /\ run'.desired = kept
    BY <1>1, <1>11 DEF EnterCleaning, BeginCleanup, Idle
  <2>2. /\ kept = "completed" => run.desired = "completed" /\ ~jobs[run.job].cancelRequested
        /\ kept = "cancelled" => jobs[run.job].cancelRequested
    BY <2>1 DEF CleanupOutcome, OutcomeInv, DecisionInv
  <2>. HIDE DEF asked, kept
  <2>3. kept = "completed" /\ jobs[run.job].expiresAt = "future" => artifacts[run.job] = "good"
    BY <2>1, <2>2 DEF OutcomeInv, DecisionInv
  <2>4. /\ jobs'[run.job].state = "cleaning" /\ jobs'[run.job].pendingState = kept
        /\ SameJob(run.job)
        /\ \A j \in Jobs \ {run.job} : jobs'[j] = jobs[j]
    BY <1>1, <2>1 DEF Row, SameJob
  <2>5. RecordInv' /\ ArtifactInv'
    BY <2>1, <2>2, <2>3, <2>4 DEF OutcomeInv, RecordInv, ArtifactInv, Promised, SameJob
  <2>6. DecisionInv'
    BY <2>1, <2>2, <2>3, <2>4 DEF DecisionInv, SameJob
  <2>. QED BY <2>5, <2>6 DEF OutcomeInv
<1>12. ASSUME RemoveFiles PROVE OutcomeInv'
  <2>1. /\ pc = "remove" /\ pc' \in {"cleanup", "settle"} /\ UNCHANGED jobs /\ run.job \in Jobs
        /\ run'.job = run.job /\ run'.desired = run.desired
        /\ \A j \in Jobs \ {run.job} : artifacts'[j] = artifacts[j]
        /\ run.desired = "completed" => artifacts' = artifacts
    BY <1>1, <1>12 DEF RemoveFiles, Run
  <2>2. Promised(jobs[run.job]) => run.desired = "completed"
    BY <1>2, <2>1 DEF OutcomeInv, DecisionInv, Promised
  <2>3. RecordInv' /\ ArtifactInv'
    BY <2>1, <2>2 DEF OutcomeInv, RecordInv, ArtifactInv
  <2>4. DecisionInv'
    BY <2>1 DEF OutcomeInv, DecisionInv
  <2>. QED BY <2>3, <2>4 DEF OutcomeInv
<1>13. ASSUME FinishCleanup \/ FinishExpired \/ RunFails \/ FinishExpireFails PROVE OutcomeInv'
  BY <1>1, <1>13, OutcomeFrame DEF FinishCleanup, FinishExpired, RunFails, FinishExpireFails, Run
<1>14. ASSUME Settle PROVE OutcomeInv'
  <2>1. CASE run.cleanupErr \/ run.review
    <3>1. /\ pc = "settle" /\ pc' = "release" /\ UNCHANGED artifacts /\ run.job \in Jobs
          /\ Quarantine(run.job, run.desired)
      BY <1>1, <1>14, <2>1 DEF Settle
    <3>2. /\ jobs'[run.job].state = "cleaning" /\ jobs'[run.job].pendingState = run.desired
          /\ SameJob(run.job)
          /\ \A j \in Jobs \ {run.job} : jobs'[j] = jobs[j]
      BY <1>1, <1>2, <3>1, QuarantineRow
    <3>3. /\ run.desired = "completed" => ~jobs[run.job].cancelRequested
          /\ run.desired = "cancelled" => jobs[run.job].cancelRequested
          /\ run.desired = "completed" /\ jobs[run.job].expiresAt = "future" =>
               artifacts[run.job] = "good"
      BY <3>1 DEF OutcomeInv, DecisionInv
    <3>4. RecordInv' /\ ArtifactInv'
      BY <3>1, <3>2, <3>3 DEF OutcomeInv, RecordInv, ArtifactInv, Promised, SameJob
    <3>. QED BY <3>1, <3>4 DEF OutcomeInv, DecisionInv
  <2>2. CASE ~(run.cleanupErr \/ run.review)
    BY <1>14, <2>2, OutcomeFrame DEF Settle
  <2>. QED BY <2>1, <2>2
<1>15. ASSUME ReadPending PROVE OutcomeInv'
  <2>1. /\ pc = "pending" /\ pc' = "change" /\ UNCHANGED <<jobs, artifacts>> /\ run.job \in Jobs
        /\ run'.job = run.job /\ run'.desired = jobs[run.job].pendingState
    BY <1>1, <1>15 DEF ReadPending, Run
  <2>2. RecordInv' /\ ArtifactInv'
    BY <2>1 DEF OutcomeInv, RecordInv, ArtifactInv
  <2>3. DecisionInv'
    BY <1>2, <2>1 DEF OutcomeInv, RecordInv, ArtifactInv, DecisionInv, Promised
  <2>. QED BY <2>2, <2>3 DEF OutcomeInv
<1>16. ASSUME EnterTerminal PROVE OutcomeInv'
  <2>1. /\ pc = "change" /\ pc' = "release" /\ UNCHANGED artifacts /\ run.job \in Jobs
        /\ jobs' = [jobs EXCEPT ![run.job].state = run.desired]
        /\ run.desired \in TerminalStates
    BY <1>1, <1>2, <1>16 DEF EnterTerminal, Change, CanTransition, Terminal
  <2>2. /\ jobs'[run.job].state = run.desired /\ SameJob(run.job)
        /\ \A j \in Jobs \ {run.job} : jobs'[j] = jobs[j]
    BY <1>1, <2>1 DEF Row, SameJob
  <2>3. /\ run.desired = "completed" => ~jobs[run.job].cancelRequested
        /\ run.desired = "completed" /\ jobs[run.job].expiresAt = "future" =>
             artifacts[run.job] = "good"
    BY <2>1 DEF OutcomeInv, DecisionInv
  <2>4. RecordInv' /\ ArtifactInv'
    BY <2>1, <2>2, <2>3
    DEF OutcomeInv, RecordInv, ArtifactInv, Promised, SameJob, TerminalStates
  <2>. QED BY <2>1, <2>4 DEF OutcomeInv, DecisionInv
<1>17. ASSUME ReleaseLease PROVE OutcomeInv'
  BY <1>17, OutcomeFrame DEF ReleaseLease, Release
<1>. QED
  BY <1>3, <1>4, <1>5, <1>6, <1>7, <1>8, <1>9, <1>10, <1>11, <1>12, <1>13, <1>14, <1>15, <1>16, <1>17
  DEF RunStep

\* An outcome that was pending survives the end of the process and Recover.
LEMMA OutcomeMain ==
  ASSUME TypeInv, LeaseInv, ControlInv, OutcomeInv,
         \/ RecoverStep /\ UNCHANGED httpVars
         \/ Start \/ Serve \/ Poll \/ PollExpired \/ ClaimNothing \/ SchedulerFails
         \/ Stop \/ Shutdown \/ Exit \/ Crash \/ StartupFails
         \/ \E j \in Jobs : ClaimJob(j)
  PROVE  OutcomeInv'
<1>. USE DEF RunPcs, AttemptPcs, RunningPcs, VerifyingPcs, FinishPcs, OutcomePcs, storeVars, fileVars,
             procVars
<1>1. /\ jobs \in [Jobs -> Row] /\ (pc \in RunPcs => run.job \in Jobs)
  BY TypeFacts DEF StoreTypeOK
<1>2. ASSUME RecoverJobs PROVE OutcomeInv'
  <2>1. pc' = "reconcile" /\ UNCHANGED artifacts /\ Recover
    BY <1>2 DEF RecoverJobs
  <2>2. ASSUME NEW j \in Jobs
        PROVE  /\ jobs'[j].cancelRequested = jobs[j].cancelRequested
               /\ jobs'[j].expiresAt = jobs[j].expiresAt
               /\ jobs'[j].state \in {"absent", "queued"} => jobs'[j].state = jobs[j].state
               /\ Promised(jobs'[j]) => Promised(jobs[j])
               /\ jobs'[j].state = "cleaning" /\ jobs'[j].pendingState = "cancelled" =>
                    \/ jobs[j].cancelRequested
                    \/ jobs[j].state = "cleaning" /\ jobs[j].pendingState = "cancelled"
    <3>1. CASE jobs'[j] = jobs[j]
      BY <3>1
    <3>2. CASE /\ SameJob(j)
               /\ jobs'[j].state = "cleaning"
               /\ jobs'[j].pendingState =
                    IF jobs[j].state = "cleaning" /\ Terminal(jobs[j].pendingState)
                    THEN jobs[j].pendingState
                    ELSE IF jobs[j].cancelRequested THEN "cancelled" ELSE "failed"
      BY <3>2 DEF SameJob, Promised
    <3>. QED BY <1>1, <2>1, <3>1, <3>2, RecoverRows
  <2>3. RecordInv' /\ ArtifactInv'
    BY <2>1, <2>2 DEF OutcomeInv, RecordInv, ArtifactInv
  <2>. QED BY <2>1, <2>3 DEF OutcomeInv, DecisionInv
<1>3. ASSUME Reconcile PROVE OutcomeInv'
  <2>1. /\ UNCHANGED jobs /\ pc' \in {"recover-expire", "down"}
        /\ \A j \in Jobs : Promised(jobs[j]) => artifacts'[j] = artifacts[j]
    BY <1>3 DEF Reconcile, KeepArtifact, Promised
  <2>2. RecordInv' /\ ArtifactInv'
    BY <2>1 DEF OutcomeInv, RecordInv, ArtifactInv
  <2>. QED BY <2>1, <2>2 DEF OutcomeInv, DecisionInv
<1>4. ASSUME RecoverExpired PROVE OutcomeInv'
  BY <1>4, OutcomeFrame DEF RecoverExpired
<1>5. ASSUME NEW j \in Jobs, RecoverDevice(j) \/ RecoverDeviceFails(j) PROVE OutcomeInv'
  <2>1. /\ pc' \in {"recover-device", "down"} /\ UNCHANGED artifacts
        /\ Resolve(j) \/ UNCHANGED storeVars
    BY <1>5 DEF RecoverDevice, RecoverDeviceFails
  <2>2. CASE Resolve(j)
    BY <1>1, <2>1, <2>2, ResolveRow
    DEF OutcomeInv, RecordInv, ArtifactInv, DecisionInv, Promised, SameJob, TerminalStates
  <2>3. CASE UNCHANGED storeVars
    BY <2>1, <2>3, OutcomeFrame
  <2>. QED BY <2>1, <2>2, <2>3
<1>6. ASSUME Start \/ Serve \/ Poll \/ PollExpired \/ ClaimNothing \/ SchedulerFails
      PROVE  OutcomeInv'
  BY <1>6, OutcomeFrame DEF Start, Serve, Poll, PollExpired, ClaimNothing, SchedulerFails
<1>7. ASSUME Stop \/ Shutdown PROVE OutcomeInv'
  BY <1>7, OutcomeFrame DEF Stop, Shutdown, OutcomeInv, DecisionInv
<1>8. ASSUME Exit \/ Crash \/ StartupFails PROVE OutcomeInv'
  BY <1>8, OutcomeFrame DEF Exit, Crash, StartupFails, ProcessEnds
<1>9. ASSUME NEW j \in Jobs, ClaimJob(j) PROVE OutcomeInv'
  <2>1. /\ pc' = IF jobs[j].cancelRequested THEN "begin" ELSE "workspace"
        /\ run'.job = j /\ run'.desired \in {"none", "cancelled"}
        /\ Claim(j) /\ UNCHANGED artifacts
    BY <1>9 DEF ClaimJob, Idle
  <2>2. /\ jobs[j].state = "queued" /\ jobs'[j].state = "running"
        /\ jobs'[j].cancelRequested = jobs[j].cancelRequested
        /\ jobs'[j].expiresAt = jobs[j].expiresAt
        /\ \A k \in Jobs \ {j} : jobs'[k] = jobs[k]
    BY <1>1, <2>1 DEF Claim, Claimable, Row
  <2>3. RecordInv' /\ ArtifactInv'
    BY <2>1, <2>2 DEF OutcomeInv, RecordInv, ArtifactInv, Promised
  <2>4. jobs[j].expiresAt = "nil"
    BY <2>2 DEF OutcomeInv, RecordInv
  <2>5. DecisionInv'
    BY <2>1, <2>2, <2>4 DEF DecisionInv
  <2>. QED BY <2>3, <2>5 DEF OutcomeInv
<1>. QED BY <1>2, <1>3, <1>4, <1>5, <1>6, <1>7, <1>8, <1>9 DEF RecoverStep

\* Expire, cancellations and confirmations beside the choice of an outcome.
LEMMA OutcomeOthers ==
  ASSUME TypeInv, LeaseInv, ControlInv, OutcomeInv,
         \/ /\ MonitorCancels \/ MonitorFails \/ JobDeadline
            /\ UNCHANGED httpVars
         \/ \E p \in Callers : ExpireStep(p) /\ UNCHANGED httpVars
         \/ UploadAccepted \/ UploadRefused
         \/ \E c \in Confirmers : ConfirmRemoves(c) \/ ConfirmExpired(c) \/ ConfirmResolves(c)
         \/ \E j \in Jobs : Request(j) \/ OperatorCleans(j) \/ RetentionElapses(j)
  PROVE  OutcomeInv'
<1>. USE DEF storeVars, fileVars, procVars
<1>1. /\ jobs \in [Jobs -> Row] /\ run \in Run /\ artifacts \in [Jobs -> Contents]
  BY TypeFacts DEF StoreTypeOK, TypeInv, TypeOK, WorkerTypeOK
<1>2. /\ pc \in RunningPcs \cup VerifyingPcs \cup OutcomePcs =>
           run.job \in Jobs /\ jobs[run.job].state \in ActiveStates
      /\ pc \in FinishPcs => jobs[run.job].state = "cleaning"
      /\ {"verify"} \cup VerifyingPcs \subseteq RunningPcs \cup VerifyingPcs
      /\ "publish" \in VerifyingPcs /\ "record" \in VerifyingPcs /\ FinishPcs \subseteq OutcomePcs
  BY DEF TypeInv, JobsNamed, RunPcs, RunningPcs, VerifyingPcs, AttemptPcs, OutcomePcs, FinishPcs,
         ControlInv, RowInv, LeaseInv, FinishInv, ActiveStates
<1>3. ASSUME UNCHANGED <<pc, artifacts>>,
             run'.job = run.job, run'.desired = run.desired, run'.output = run.output,
             \A j \in Jobs : /\ jobs'[j].state = jobs[j].state
                             /\ jobs'[j].cancelRequested = jobs[j].cancelRequested
                             /\ jobs'[j].expiresAt = jobs[j].expiresAt
                             /\ jobs'[j].pendingState \in {jobs[j].pendingState, "failed"}
      PROVE  OutcomeInv'
  BY <1>2, <1>3, OutcomeFrame DEF OutcomeInv, DecisionInv
<1>4. ASSUME NEW j \in Jobs, Enqueue(j), UNCHANGED <<pc, run, artifacts>> PROVE OutcomeInv'
  <2>1. /\ jobs[j].state = "absent" /\ jobs'[j].state = "queued" /\ jobs'[j].expiresAt = "nil"
        /\ \A k \in Jobs \ {j} : jobs'[k] = jobs[k]
    BY <1>1, <1>4 DEF Enqueue, NoRow
  <2>2. RecordInv' /\ ArtifactInv'
    BY <1>4, <2>1 DEF OutcomeInv, RecordInv, ArtifactInv, Promised
  <2>3. pc \in RunningPcs \cup VerifyingPcs \cup OutcomePcs => jobs'[run.job] = jobs[run.job]
    BY <1>2, <2>1 DEF ActiveStates
  <2>4. DecisionInv'
    BY <1>2, <1>4, <2>3 DEF OutcomeInv, DecisionInv
  <2>. QED BY <2>2, <2>4 DEF OutcomeInv
<1>5. ASSUME MonitorCancels \/ MonitorFails \/ JobDeadline PROVE OutcomeInv'
  BY <1>1, <1>3, <1>5 DEF MonitorCancels, MonitorFails, JobDeadline, Run
<1>6. ASSUME NEW p \in Callers, ExpireStep(p) PROVE OutcomeInv'
  <2>1. /\ UNCHANGED <<pc, run>>
        /\ \A j \in Jobs : /\ jobs'[j].state = jobs[j].state
                           /\ jobs'[j].cancelRequested = jobs[j].cancelRequested
                           /\ jobs'[j].expiresAt = jobs[j].expiresAt
                           /\ jobs'[j].pendingState \in {jobs[j].pendingState, "failed"}
    BY <1>6, ExpireRows DEF SameJob
  <2>2. \A j \in Jobs : artifacts'[j] = artifacts[j] \/ jobs[j].expiresAt = "past"
    BY <1>1, <1>6 DEF ExpireStep, ExpireSkip, ExpireRemove, ExpireMark
  <2>. QED BY <1>2, <2>1, <2>2, OutcomeFrame DEF OutcomeInv, DecisionInv
<1>7. ASSUME UploadAccepted PROVE OutcomeInv'
  <2>1. PICK j \in Jobs : j = uploading
    BY <1>7 DEF UploadAccepted, TypeInv, TypeOK
  <2>. QED BY <1>4, <1>7, <2>1 DEF UploadAccepted
<1>8. ASSUME UploadRefused PROVE OutcomeInv'
  BY <1>3, <1>8 DEF UploadRefused
<1>9. ASSUME NEW c \in Confirmers, ConfirmRemoves(c) \/ ConfirmExpired(c) PROVE OutcomeInv'
  BY <1>3, <1>9 DEF ConfirmRemoves, ConfirmExpired
<1>10. ASSUME NEW c \in Confirmers, ConfirmResolves(c) PROVE OutcomeInv'
  <2>1. /\ UNCHANGED <<pc, run, artifacts>> /\ confirm[c].job \in Jobs
        /\ Resolve(confirm[c].job) \/ UNCHANGED jobs
    BY <1>10 DEF ConfirmResolves, TypeInv, JobsNamed
  <2>2. CASE Resolve(confirm[c].job)
    <3>. DEFINE j == confirm[c].job
    <3>1. /\ j \in Jobs /\ jobs[j].state = "cleaning" /\ UnderReview(j)
          /\ jobs'[j].state = jobs[j].pendingState /\ jobs'[j].state \in TerminalStates
          /\ SameJob(j)
          /\ \A k \in Jobs \ {j} : jobs'[k] = jobs[k]
      BY <1>1, <2>1, <2>2, ResolveRow DEF Resolve, Resolvable
    <3>. HIDE DEF j
    <3>2. RecordInv' /\ ArtifactInv'
      BY <2>1, <3>1 DEF OutcomeInv, RecordInv, ArtifactInv, Promised, SameJob, TerminalStates
    <3>3. pc \notin RunningPcs \cup VerifyingPcs \cup OutcomePcs
      <4>1. device.quarantined
        BY <3>1 DEF LeaseInv, QuarantineInv
      <4>. QED BY <4>1 DEF LeaseInv, HoldInv, HoldPcs, RunPcs, RunningPcs, VerifyingPcs, OutcomePcs,
                           AttemptPcs, FinishPcs
    <3>. QED BY <1>2, <2>1, <3>2, <3>3 DEF OutcomeInv, DecisionInv
  <2>3. CASE UNCHANGED jobs
    BY <1>3, <2>1, <2>3
  <2>. QED BY <2>1, <2>2, <2>3
<1>11. ASSUME NEW j \in Jobs, EnqueueRequest(j) PROVE OutcomeInv'
  BY <1>4, <1>11 DEF EnqueueRequest
<1>12. ASSUME NEW j \in Jobs, CancelRequest(j) PROVE OutcomeInv'
  <2>1. /\ jobs[j].state \in {"queued", "running", "verifying"}
        /\ jobs' = [jobs EXCEPT ![j].cancelRequested = TRUE]
        /\ UNCHANGED <<pc, run, artifacts>>
    BY <1>12 DEF CancelRequest, Cancel
  <2>2. /\ jobs'[j].state = jobs[j].state /\ jobs'[j].expiresAt = jobs[j].expiresAt
        /\ jobs'[j].pendingState = jobs[j].pendingState /\ jobs'[j].cancelRequested
        /\ \A k \in Jobs \ {j} : jobs'[k] = jobs[k]
    BY <1>1, <2>1 DEF Row
  <2>3. RecordInv' /\ ArtifactInv'
    BY <2>1, <2>2 DEF OutcomeInv, RecordInv, ArtifactInv, Promised
  <2>4. pc \in FinishPcs => run.job # j
    BY <1>2, <2>1
  <2>5. DecisionInv'
    BY <1>2, <2>1, <2>2, <2>4 DEF OutcomeInv, DecisionInv
  <2>. QED BY <2>3, <2>5 DEF OutcomeInv
<1>13. ASSUME NEW j \in Jobs, RetentionElapses(j) PROVE OutcomeInv'
  <2>1. /\ jobs[j].expiresAt = "future" /\ jobs' = [jobs EXCEPT ![j].expiresAt = "past"]
        /\ UNCHANGED <<pc, run, artifacts>>
    BY <1>13 DEF RetentionElapses
  <2>2. /\ jobs'[j].state = jobs[j].state /\ jobs'[j].expiresAt = "past"
        /\ jobs'[j].pendingState = jobs[j].pendingState
        /\ jobs'[j].cancelRequested = jobs[j].cancelRequested
        /\ \A k \in Jobs \ {j} : jobs'[k] = jobs[k]
    BY <1>1, <2>1 DEF Row
  <2>3. RecordInv' /\ ArtifactInv'
    BY <2>1, <2>2 DEF OutcomeInv, RecordInv, ArtifactInv, Promised
  <2>4. DecisionInv'
    BY <1>2, <2>1, <2>2 DEF OutcomeInv, DecisionInv
  <2>. QED BY <2>3, <2>4 DEF OutcomeInv
<1>14. ASSUME NEW j \in Jobs,
              UploadBegins(j) \/ OperatorCleans(j) \/ (\E c \in Confirmers : ConfirmBegins(c, j))
       PROVE  OutcomeInv'
  BY <1>3, <1>14 DEF UploadBegins, OperatorCleans, ConfirmBegins
<1>. QED
  BY <1>5, <1>6, <1>7, <1>8, <1>9, <1>10, <1>11, <1>12, <1>13, <1>14 DEF Request

\* Nothing is promised at first.
LEMMA OutcomeInit == Init => OutcomeInv
BY DEF Init, WorkerInit, StoreInit, NoRow, OutcomeInv, RecordInv, ArtifactInv, DecisionInv, Promised,
       RunningPcs, VerifyingPcs, AttemptPcs, OutcomePcs, FinishPcs

\* Every action keeps promised artifacts and the outcomes of cancelled jobs.
LEMMA OutcomeStep ==
  TypeInv /\ LeaseInv /\ ControlInv /\ OutcomeInv /\ [Next]_vars => OutcomeInv'
<1>. SUFFICES ASSUME TypeInv, LeaseInv, ControlInv, OutcomeInv, [Next]_vars PROVE OutcomeInv'
  OBVIOUS
<1>1. CASE UNCHANGED vars
  BY <1>1
  DEF vars, storeVars, fileVars, procVars, OutcomeInv, RecordInv, ArtifactInv, DecisionInv
<1>2. CASE MainStep
  BY <1>2, OutcomeRun, OutcomeMain, OutcomeOthers DEF MainStep, Callers
<1>3. CASE \E c \in Confirmers : ConfirmStep(c)
  BY <1>3, OutcomeOthers DEF ConfirmStep, Callers
<1>. QED
  BY <1>1, <1>2, <1>3, OutcomeMain, OutcomeOthers DEF Next

(***************************************************************************)
(* 6. What a step does to the rows: one job moves, or none.                *)
(***************************************************************************)

SameRow(j) ==
  /\ jobs'[j].state = jobs[j].state
  /\ jobs'[j].cancelRequested = jobs[j].cancelRequested
  /\ jobs'[j].after = jobs[j].after

OthersSame(j) == \A k \in Jobs \ {j} : SameRow(k)

\* The job goes forward within its run, or to the outcome the run or its review decided.
Advances(j) ==
  /\ OthersSame(j)
  /\ jobs'[j].cancelRequested = jobs[j].cancelRequested
  /\ jobs'[j].after = jobs[j].after
  /\ \/ jobs[j].state = "running" /\ jobs'[j].state = "verifying"
     \/ jobs[j].state \in {"running", "verifying"} /\ jobs'[j].state = "cleaning"
     \/ /\ jobs[j].state = "cleaning"
        /\ jobs'[j].state \in TerminalStates
        /\ jobs'[j].state = "cancelled" => jobs[j].cancelRequested
        /\ jobs'[j].state = "completed" => ~jobs[j].cancelRequested

RowsStep ==
  \/ \A j \in Jobs : SameRow(j)
  \/ \E j \in Jobs : Enqueue(j)
  \/ \E j \in Jobs : Claim(j) /\ pc = "claim"
  \/ \E j \in Jobs : Cancel(j)
  \/ \E j \in Jobs : Advances(j)

\* A review that is settled ends the job with an outcome it may have.
LEMMA ResolveAdvances ==
  ASSUME TypeInv, OutcomeInv, NEW j \in Jobs, Resolve(j)
  PROVE  Advances(j)
<1>1. jobs \in [Jobs -> Row]
  BY TypeFacts DEF StoreTypeOK
<1>. QED BY <1>1, ResolveRow
     DEF Advances, OthersSame, SameRow, SameJob, OutcomeInv, RecordInv, Promised

\* Every step of a run moves at most the row of the run.
LEMMA RowsRun ==
  ASSUME TypeInv, LeaseInv, ControlInv, OutcomeInv, RunStep
  PROVE  RowsStep
<1>. USE DEF RunPcs, AttemptPcs, storeVars, SameRow
<1>1. jobs \in [Jobs -> Row] /\ (pc \in RunPcs => run.job \in Jobs)
  BY TypeFacts DEF StoreTypeOK
<1>2. ASSUME MakeWorkspace \/ WorkspaceFails \/ DecryptRefused \/ DecryptStarts \/ DeviceContact
             \/ DecryptSucceeds \/ DecryptFails \/ RetryCleanup \/ RecordRetryFails \/ Backoff \/ Decide
             \/ InspectOutput \/ PublishOutput \/ RemoveFiles \/ FinishCleanup \/ FinishExpired
             \/ ReadPending \/ RunFails \/ FinishExpireFails \/ ReleaseLease
      PROVE  UNCHANGED jobs
  BY <1>2
  DEF MakeWorkspace, WorkspaceFails, DecryptRefused, DecryptStarts, StartOperation, DeviceContact,
      DecryptSucceeds, DecryptFails, RetryCleanup, RecordRetryFails, Backoff, Decide, InspectOutput,
      PublishOutput, RemoveFiles, FinishCleanup, FinishExpired, ReadPending, RunFails,
      FinishExpireFails, ReleaseLease, Release
<1>3. ASSUME RecordRetry \/ RecordPublication PROVE \A j \in Jobs : SameRow(j)
  BY <1>1, <1>3 DEF RecordRetry, RecordPublication, Retry, RecordExpiry, Row
<1>4. ASSUME Settle PROVE \A j \in Jobs : SameRow(j)
  BY <1>1, <1>4, QuarantineRow DEF Settle, SameJob
<1>5. ASSUME EnterVerifying PROVE Advances(run.job) /\ run.job \in Jobs
  <2>1. jobs[run.job].state = "running" /\ run.job \in Jobs
    BY <1>1, <1>5 DEF EnterVerifying, ControlInv, RowInv, RunningPcs
  <2>. QED BY <1>1, <1>5, <2>1 DEF EnterVerifying, Change, Advances, OthersSame, Row
<1>6. ASSUME EnterCleaning PROVE Advances(run.job) /\ run.job \in Jobs
  <2>1. jobs[run.job].state \in {"running", "verifying"} /\ run.job \in Jobs
    BY <1>1, <1>6 DEF EnterCleaning, ControlInv, RowInv
  <2>. QED BY <1>1, <1>6, <2>1 DEF EnterCleaning, BeginCleanup, Advances, OthersSame, Row
<1>7. ASSUME EnterTerminal PROVE Advances(run.job) /\ run.job \in Jobs
  <2>1. /\ pc = "change" /\ run.job \in Jobs /\ jobs[run.job].state = "cleaning"
        /\ run.desired \in TerminalStates
        /\ jobs' = [jobs EXCEPT ![run.job].state = run.desired]
    BY <1>1, <1>7
    DEF EnterTerminal, Change, CanTransition, Terminal, LeaseInv, FinishInv, FinishPcs
  <2>2. /\ run.desired = "cancelled" => jobs[run.job].cancelRequested
        /\ run.desired = "completed" => ~jobs[run.job].cancelRequested
    BY <2>1 DEF OutcomeInv, DecisionInv, OutcomePcs, FinishPcs
  <2>. QED BY <1>1, <2>1, <2>2 DEF Advances, OthersSame, Row
<1>. QED BY <1>2, <1>3, <1>4, <1>5, <1>6, <1>7 DEF RunStep, RowsStep

\* Every action moves one row in one of the ways of RowsStep, or none.
LEMMA RowsMove == TypeInv /\ LeaseInv /\ ControlInv /\ OutcomeInv /\ [Next]_vars => RowsStep
<1>. SUFFICES ASSUME TypeInv, LeaseInv, ControlInv, OutcomeInv, [Next]_vars PROVE RowsStep
  OBVIOUS
<1>. USE DEF storeVars
<1>1. jobs \in [Jobs -> Row]
  BY TypeFacts DEF StoreTypeOK
<1>2. ASSUME UNCHANGED jobs PROVE RowsStep
  BY <1>2 DEF RowsStep, SameRow
<1>3. ASSUME RecoverJobs PROVE RowsStep
  <2>1. Recover
    BY <1>3 DEF RecoverJobs
  <2>2. CASE \E j \in Jobs : jobs[j].state \in {"running", "verifying"}
    <3>1. PICK j \in Jobs : jobs[j].state \in {"running", "verifying"}
      BY <2>2
    <3>2. \A k \in Jobs : Active(k) => k = j
      BY <3>1 DEF LeaseInv, OneActiveJob, Active, ActiveStates
    <3>3. /\ \A k \in Jobs \ {j} : jobs'[k] = jobs[k]
          /\ jobs'[j].state = "cleaning" /\ SameJob(j)
      BY <1>1, <2>1, <3>1, <3>2, RecoverRows DEF Active, ActiveStates, UnderReview
    <3>. QED BY <3>1, <3>3 DEF RowsStep, Advances, OthersSame, SameRow, SameJob
  <2>3. CASE \A j \in Jobs : jobs[j].state \notin {"running", "verifying"}
    <3>1. \A j \in Jobs : SameRow(j)
      BY <1>1, <2>1, <2>3, RecoverRows DEF SameRow, SameJob, Active, ActiveStates
    <3>. QED BY <3>1 DEF RowsStep
  <2>. QED BY <2>2, <2>3
<1>4. ASSUME NEW j \in Jobs, RecoverDevice(j) \/ RecoverDeviceFails(j) PROVE RowsStep
  BY <1>2, <1>4, ResolveAdvances DEF RecoverDevice, RecoverDeviceFails, RowsStep
<1>5. ASSUME RecoverStep PROVE RowsStep
  BY <1>2, <1>3, <1>4, <1>5 DEF RecoverStep, Reconcile, RecoverExpired
<1>6. ASSUME NEW p \in Callers, ExpireStep(p) PROVE RowsStep
  BY <1>6, ExpireRows DEF RowsStep, SameRow, SameJob
<1>7. ASSUME MainStep PROVE RowsStep
  <2>1. ASSUME NEW j \in Jobs, ClaimJob(j) PROVE RowsStep
    BY <2>1 DEF ClaimJob, RowsStep
  <2>. QED BY <1>2, <1>5, <1>6, <1>7, <2>1, RowsRun
       DEF MainStep, Start, Serve, Poll, PollExpired, ClaimNothing, Callers
<1>8. ASSUME NEW c \in Confirmers, ConfirmStep(c) PROVE RowsStep
  <2>1. ASSUME ConfirmResolves(c) PROVE RowsStep
    <3>1. confirm[c].job \in Jobs
      BY <2>1 DEF ConfirmResolves, TypeInv, JobsNamed
    <3>. QED BY <1>2, <2>1, <3>1, ResolveAdvances DEF ConfirmResolves, RowsStep
  <2>. QED BY <1>2, <1>6, <1>8, <2>1 DEF ConfirmStep, ConfirmRemoves, ConfirmExpired, Callers
<1>9. ASSUME NEW j \in Jobs, Request(j) \/ OperatorCleans(j) \/ RetentionElapses(j) PROVE RowsStep
  <2>1. ASSUME RetentionElapses(j) PROVE RowsStep
    BY <1>1, <2>1 DEF RetentionElapses, RowsStep, SameRow, Row
  <2>2. ASSUME EnqueueRequest(j) \/ CancelRequest(j) PROVE RowsStep
    BY <2>2 DEF EnqueueRequest, CancelRequest, RowsStep
  <2>. QED BY <1>2, <1>9, <2>1, <2>2 DEF Request, OperatorCleans, UploadBegins, ConfirmBegins
<1>10. ASSUME UploadAccepted PROVE RowsStep
  <2>1. PICK j \in Jobs : j = uploading
    BY <1>10 DEF UploadAccepted, TypeInv, TypeOK
  <2>. QED BY <1>10, <2>1 DEF UploadAccepted, RowsStep
<1>11. ASSUME Stop \/ Shutdown \/ Exit \/ Crash \/ StartupFails \/ SchedulerFails \/ UploadRefused
       PROVE  RowsStep
  BY <1>2, <1>11 DEF Stop, Shutdown, Exit, Crash, StartupFails, ProcessEnds, SchedulerFails, UploadRefused
<1>12. ASSUME MonitorCancels \/ MonitorFails \/ JobDeadline \/ UNCHANGED vars PROVE RowsStep
  BY <1>2, <1>12 DEF MonitorCancels, MonitorFails, JobDeadline, vars
<1>. QED BY <1>7, <1>8, <1>9, <1>10, <1>11, <1>12 DEF Next

(***************************************************************************)
(* 7. The queue.                                                           *)
(***************************************************************************)

UnfinishedJobs == {j \in Jobs : Unfinished(j)}

\* Admission bounds the unfinished jobs, and jobs start in the order they came: behind
\* one that is not finished all wait.
QueueInv ==
  /\ IsFiniteSet(UnfinishedJobs) /\ Cardinality(UnfinishedJobs) <= QueueLimit
  /\ \A k \in Jobs : \A j \in jobs[k].after :
       /\ j # k /\ jobs[j].state # "absent"
       /\ Unfinished(j) => jobs[k].state = "queued"

\* The queue is empty at first.
LEMMA QueueInit == Init => QueueInv
<1>. SUFFICES ASSUME Init PROVE QueueInv
  OBVIOUS
<1>1. \A j \in Jobs : jobs[j].state = "absent" /\ jobs[j].after = {}
  BY DEF Init, WorkerInit, StoreInit, NoRow
<1>2. UnfinishedJobs = {}
  BY <1>1 DEF UnfinishedJobs, Unfinished, Active, ActiveStates
<1>. QED BY <1>1, <1>2, FS_EmptySet, LimitsAssumption DEF QueueInv

\* Admission keeps the bound and Claim the order, whatever row moves.
LEMMA QueueStep ==
  TypeInv /\ LeaseInv /\ ControlInv /\ OutcomeInv /\ QueueInv /\ [Next]_vars => QueueInv'
<1>. SUFFICES ASSUME TypeInv, LeaseInv, QueueInv, RowsStep PROVE QueueInv'
  BY RowsMove
<1>1. jobs \in [Jobs -> Row] /\ \A k \in Jobs : jobs[k].after \subseteq Jobs
  BY TypeFacts DEF StoreTypeOK, Row
<1>2. /\ IsFiniteSet(UnfinishedJobs) /\ Cardinality(UnfinishedJobs) <= QueueLimit
      /\ \A k \in Jobs : \A j \in jobs[k].after :
           /\ j # k /\ jobs[j].state # "absent"
           /\ Unfinished(j) => jobs[k].state = "queued"
  BY DEF QueueInv
<1>3. Cardinality(UnfinishedJobs) \in Nat /\ QueueLimit \in Nat
  BY <1>2, FS_CardinalityType, LimitsAssumption
<1>4. ASSUME UnfinishedJobs' \subseteq UnfinishedJobs
      PROVE  IsFiniteSet(UnfinishedJobs') /\ Cardinality(UnfinishedJobs') <= QueueLimit
  BY <1>2, <1>3, <1>4, FS_Subset, FS_CardinalityType
\* Nobody starts, and nobody who has no row gets one.
<1>5. ASSUME \A j \in Jobs : /\ jobs'[j].after = jobs[j].after
                             /\ \/ jobs'[j].state = jobs[j].state
                                \/ jobs[j].state \in ActiveStates /\ jobs'[j].state \notin {"absent", "queued"}
      PROVE  QueueInv'
  <2>1. \A j \in Jobs : Unfinished(j)' => Unfinished(j)
    BY <1>5 DEF Unfinished, Active
  <2>2. UnfinishedJobs' \subseteq UnfinishedJobs
    BY <2>1 DEF UnfinishedJobs
  <2>3. ASSUME NEW k \in Jobs, NEW j \in jobs'[k].after
        PROVE  /\ j # k /\ jobs'[j].state # "absent"
               /\ Unfinished(j)' => jobs'[k].state = "queued"
    <3>1. j \in Jobs /\ j \in jobs[k].after
      BY <1>1, <1>5, <2>3
    <3>2. jobs[k].state = "queued" => jobs'[k].state = "queued"
      BY <1>5 DEF ActiveStates
    <3>. QED BY <1>2, <1>5, <2>1, <3>1, <3>2
  <2>. QED BY <1>4, <2>2, <2>3 DEF QueueInv
<1>6. ASSUME NEW e \in Jobs, Enqueue(e) PROVE QueueInv'
  <2>1. /\ jobs[e].state = "absent" /\ jobs'[e].state = "queued"
        /\ jobs'[e].after = {k \in Jobs : jobs[k].state # "absent"}
        /\ \A k \in Jobs \ {e} : jobs'[k] = jobs[k]
        /\ Cardinality(UnfinishedJobs) < QueueLimit
    BY <1>1, <1>6 DEF Enqueue, NoRow, UnfinishedJobs
  <2>2. UnfinishedJobs' = UnfinishedJobs \cup {e}
    BY <2>1 DEF UnfinishedJobs, Unfinished, Active
  <2>3. IsFiniteSet(UnfinishedJobs') /\ Cardinality(UnfinishedJobs') <= QueueLimit
    <3>1. /\ IsFiniteSet(UnfinishedJobs \cup {e})
          /\ Cardinality(UnfinishedJobs \cup {e}) \in
               {Cardinality(UnfinishedJobs), Cardinality(UnfinishedJobs) + 1}
      BY <1>2, FS_AddElement
    <3>2. Cardinality(UnfinishedJobs \cup {e}) <= QueueLimit
      BY <1>3, <2>1, <3>1
    <3>. QED BY <2>2, <3>1, <3>2
  <2>4. ASSUME NEW k \in Jobs, NEW j \in jobs'[k].after
        PROVE  /\ j # k /\ jobs'[j].state # "absent"
               /\ Unfinished(j)' => jobs'[k].state = "queued"
    <3>1. CASE k = e
      BY <2>1, <2>4, <3>1
    <3>2. CASE k # e
      <4>1. j \in jobs[k].after /\ j \in Jobs /\ j # e
        BY <1>1, <1>2, <2>1, <2>4, <3>2
      <4>. QED BY <1>2, <2>1, <3>2, <4>1 DEF Unfinished, Active
    <3>. QED BY <3>1, <3>2
  <2>. QED BY <2>3, <2>4 DEF QueueInv
<1>7. ASSUME NEW e \in Jobs, Claim(e), pc = "claim" PROVE QueueInv'
  <2>1. /\ Claimable(e) /\ jobs[e].state = "queued" /\ jobs'[e].state = "running"
        /\ jobs'[e].after = jobs[e].after
        /\ \A k \in Jobs \ {e} : jobs'[k] = jobs[k]
    BY <1>1, <1>7 DEF Claim, Claimable, Row
  <2>2. \A j \in Jobs : Unfinished(j)' <=> Unfinished(j)
    BY <2>1 DEF Unfinished, Active, ActiveStates
  <2>3. UnfinishedJobs' \subseteq UnfinishedJobs
    BY <2>2 DEF UnfinishedJobs
  \* An active job would be under review, and the device quarantined.
  <2>4. \A j \in Jobs : ~Active(j)
    BY <1>7, <2>1 DEF Claimable, LeaseInv, SettledInv, SettledPcs, QuarantineInv
  <2>5. \A j \in jobs[e].after : ~Unfinished(j)
    BY <1>1, <2>1, <2>4 DEF Claimable, Unfinished
  <2>6. ASSUME NEW k \in Jobs, NEW j \in jobs'[k].after
        PROVE  /\ j # k /\ jobs'[j].state # "absent"
               /\ Unfinished(j)' => jobs'[k].state = "queued"
    <3>1. j \in Jobs /\ j \in jobs[k].after
      BY <1>1, <2>1, <2>6
    <3>. QED BY <1>2, <2>1, <2>2, <2>5, <3>1
  <2>. QED BY <1>4, <2>3, <2>6 DEF QueueInv
<1>8. ASSUME NEW e \in Jobs, Cancel(e) PROVE QueueInv'
  <2>1. \A j \in Jobs : jobs'[j].after = jobs[j].after /\ jobs'[j].state = jobs[j].state
    BY <1>1, <1>8 DEF Cancel, Row
  <2>. QED BY <1>5, <2>1
<1>9. ASSUME NEW e \in Jobs, Advances(e) PROVE QueueInv'
  BY <1>5, <1>9 DEF Advances, OthersSame, SameRow, ActiveStates, TerminalStates
<1>10. ASSUME \A j \in Jobs : SameRow(j) PROVE QueueInv'
  BY <1>5, <1>10 DEF SameRow
<1>. QED BY <1>6, <1>7, <1>8, <1>9, <1>10 DEF RowsStep

(***************************************************************************)
(* 8. The theorems.                                                        *)
(***************************************************************************)

ServiceInv ==
  /\ TypeInv /\ LeaseInv /\ ControlInv /\ DeviceInv
  /\ AttemptInv /\ FilesInv /\ OutcomeInv /\ QueueInv

\* The initial state satisfies every group of the invariant.
LEMMA ServiceInvInit == Init => ServiceInv
BY TypeInvInit, LeaseInit, ControlInit, DeviceInit, AttemptInit, FilesInit, OutcomeInit, QueueInit
DEF ServiceInv

\* Each group is kept with the help of the groups before it.
LEMMA ServiceInvStep == ServiceInv /\ [Next]_vars => ServiceInv'
<1>. SUFFICES ASSUME ServiceInv, [Next]_vars PROVE ServiceInv'
  OBVIOUS
<1>1. TypeInv /\ LeaseInv /\ ControlInv /\ DeviceInv /\ AttemptInv /\ FilesInv /\ OutcomeInv /\ QueueInv
  BY DEF ServiceInv
<1>2. TypeInv' /\ LeaseInv' /\ ControlInv' /\ DeviceInv'
  BY <1>1, TypeInvStep, LeaseInvStep, ControlStep, DeviceStep
<1>3. AttemptInv' /\ FilesInv' /\ OutcomeInv' /\ QueueInv'
  BY <1>1, AttemptStep, FilesStep, OutcomeStep, QueueStep
<1>. QED BY <1>2, <1>3 DEF ServiceInv

\* All of it holds in every reachable state.
THEOREM ServiceInvariant == Spec => []ServiceInv
BY ServiceInvInit, ServiceInvStep, PTL DEF Spec

\* What is left on the device belongs to recorded operations of a job that is not
\* finished: no run, crash, recovery or confirmation reports an outcome over a dirty
\* device (Worker.finish, Worker.Recover, Worker.Resolve).
THEOREM ResidueStaysOwned == Spec => []ResidueIsOwned
<1>1. ServiceInv => ResidueIsOwned
  BY DEF ServiceInv, DeviceInv
<1>. QED BY <1>1, ServiceInvariant, PTL

\* StartOperation commits only when no job has left anything on the device.
THEOREM OperationsStartClean == Spec => OperationStartsClean
<1>1. ServiceInv /\ [Next]_vars => [operations' # operations => \A j \in Jobs : residue[j] = {}]_vars
  <2>. SUFFICES ASSUME ServiceInv, Next, operations' # operations
                PROVE  \A j \in Jobs : residue[j] = {}
    BY DEF vars, storeVars
  <2>1. DecryptStarts
    <3>. USE DEF storeVars
    <3>1. ASSUME RunStep PROVE DecryptStarts
      BY <3>1
      DEF RunStep, MakeWorkspace, WorkspaceFails, DecryptRefused, DeviceContact, DecryptSucceeds,
          DecryptFails, RetryCleanup, RecordRetry, Retry, RecordRetryFails, Backoff, Decide,
          EnterVerifying, Change, InspectOutput, PublishOutput, RecordPublication, RecordExpiry,
          EnterCleaning, BeginCleanup, RemoveFiles, FinishCleanup, Settle, Quarantine, FinishExpired,
          ReadPending, EnterTerminal, RunFails, FinishExpireFails, ReleaseLease, Release
    <3>2. ~RecoverStep
      BY DEF RecoverStep, RecoverJobs, Recover, Reconcile, RecoverExpired, RecoverDevice, Resolve,
             RecoverDeviceFails
    <3>3. \A p \in Callers : ~ExpireStep(p)
      BY DEF ExpireStep, ExpireSkip, ExpireRemove, ExpireMark, RecordExpired
    <3>4. MainStep => DecryptStarts
      BY <3>1, <3>2, <3>3
      DEF MainStep, Start, Serve, Poll, PollExpired, ClaimNothing, ClaimJob, Claim, Callers
    <3>5. \A c \in Confirmers : ~ConfirmStep(c)
      BY <3>3 DEF ConfirmStep, ConfirmRemoves, ConfirmExpired, ConfirmResolves, Resolve, Callers
    <3>6. \A j \in Jobs : ~(Request(j) \/ OperatorCleans(j) \/ RetentionElapses(j))
      BY DEF Request, EnqueueRequest, Enqueue, UploadBegins, CancelRequest, Cancel, ConfirmBegins,
             OperatorCleans, RetentionElapses
    <3>7. ~(MonitorCancels \/ MonitorFails \/ JobDeadline \/ Stop \/ Shutdown \/ Exit \/ Crash
            \/ StartupFails \/ SchedulerFails \/ UploadAccepted \/ UploadRefused)
      BY DEF MonitorCancels, MonitorFails, JobDeadline, Stop, Shutdown, Exit, Crash, StartupFails,
             ProcessEnds, SchedulerFails, UploadAccepted, Enqueue, UploadRefused
    <3>. QED BY <3>4, <3>5, <3>6, <3>7 DEF Next
  <2>2. pc = "attempt"
    BY <2>1 DEF DecryptStarts
  <2>3. residue[run.job] = {} /\ \A j \in Jobs : residue[j] # {} => Active(j)
    BY <2>2 DEF ServiceInv, DeviceInv, ResidueIsOwned, TakenClean, CleanPcs
  <2>4. \A j \in Jobs : Active(j) => j = run.job
    BY <2>2 DEF ServiceInv, LeaseInv, HoldInv, HoldPcs, RunPcs, AttemptPcs
  <2>. QED BY <2>3, <2>4
<1>. QED BY <1>1, ServiceInvariant, PTL DEF Spec, OperationStartsClean

\* Every operation recorded for the device is one of the attempts the row counts, and a
\* job has no more of them than IPA_NOW_MAX_ATTEMPTS, through retries and crashes.
THEOREM AttemptsAreAccounted == Spec => []AttemptsAccounted
<1>1. ServiceInv => AttemptsAccounted
  BY DEF ServiceInv, AttemptInv
<1>. QED BY <1>1, ServiceInvariant, PTL

\* No cleanup, reconciliation, confirmation or refused upload removes the input of a job
\* that waits or whose attempts run.
THEOREM InputsOutliveQueue == Spec => []InputOutlivesQueue
<1>1. ServiceInv => InputOutlivesQueue
  BY DEF ServiceInv, FilesInv, InputOutlivesQueue, InputPcs
<1>. QED BY <1>1, ServiceInvariant, PTL

\* A job reaches an outcome only after its workspace and its input are gone.
THEOREM FinishedJobsLeaveNoFiles == Spec => []FinishedLeavesNoFiles
<1>1. ServiceInv => FinishedLeavesNoFiles
  BY DEF ServiceInv, FilesInv
<1>. QED BY <1>1, ServiceInvariant, PTL

\* What the artifact route serves is the verified output of a job that was not cancelled
\* and left nothing behind.
THEOREM DownloadsAreSafe == Spec => []DownloadSafe
<1>1. ServiceInv => DownloadSafe
  <2>. SUFFICES ASSUME ServiceInv, NEW j \in Jobs, Downloadable(j)
                PROVE  /\ artifacts[j] = "good" /\ residue[j] = {}
                       /\ j \notin work /\ ~jobs[j].cancelRequested
    BY DEF DownloadSafe
  <2>1. artifacts[j] = "good" /\ ~jobs[j].cancelRequested
    BY DEF ServiceInv, OutcomeInv, RecordInv, ArtifactInv, Promised, Downloadable
  <2>2. residue[j] = {}
    BY DEF ServiceInv, DeviceInv, ResidueIsOwned, Downloadable, Active, ActiveStates
  <2>3. j \notin work
    BY DEF ServiceInv, FilesInv, FinishedLeavesNoFiles, Downloadable, Terminal, TerminalStates
  <2>. QED BY <2>1, <2>2, <2>3
<1>. QED BY <1>1, ServiceInvariant, PTL

\* Startup reconciliation, expiry and finish keep the artifact of a completed job whose
\* device review is open, until its retention elapses.
THEOREM PendingArtifactsAreKept == Spec => []PendingArtifactKept
<1>1. ServiceInv => PendingArtifactKept
  BY DEF ServiceInv, OutcomeInv, ArtifactInv, Promised, PendingArtifactKept
<1>. QED BY <1>1, ServiceInvariant, PTL

\* A cancellation accepted by Store.Cancel is seen by the outcome, wherever it races the
\* run: the job does not complete.
THEOREM CancelledNeverComplete == Spec => []CancelNeverCompletes
<1>1. ServiceInv => CancelNeverCompletes
  BY DEF ServiceInv, OutcomeInv, RecordInv, Promised, CancelNeverCompletes
<1>. QED BY <1>1, ServiceInvariant, PTL

\* Unless the queue limit is set above 200, GET /api/jobs shows every job that is not
\* finished, however long it has waited: jobs are claimed in order, so those newer than an
\* unfinished one still wait, and admission counts them with it.
THEOREM UnfinishedJobsAreListed == Spec => []UnfinishedAreListed
<1>1. ServiceInv => UnfinishedAreListed
  <2>. SUFFICES ASSUME ServiceInv, QueueLimit <= ListLimit, NEW j \in Jobs, Unfinished(j)
                PROVE  j \in List
    BY DEF UnfinishedAreListed
  <2>. DEFINE newer == {k \in Jobs : j \in jobs[k].after}
  <2>1. /\ IsFiniteSet(UnfinishedJobs) /\ Cardinality(UnfinishedJobs) <= QueueLimit
        /\ j \in UnfinishedJobs /\ j \notin newer /\ newer \subseteq UnfinishedJobs
    BY DEF ServiceInv, QueueInv, UnfinishedJobs, Unfinished
  <2>. HIDE DEF newer
  <2>2. /\ IsFiniteSet(newer) /\ Cardinality(newer) < Cardinality(UnfinishedJobs)
        /\ Cardinality(newer) \in Nat /\ Cardinality(UnfinishedJobs) \in Nat
    <3>1. newer \in SUBSET UnfinishedJobs /\ newer # UnfinishedJobs
      BY <2>1
    <3>. QED BY <2>1, <3>1, FS_Subset, FS_CardinalityType
  <2>3. Cardinality(newer) < ListLimit
    BY <2>1, <2>2, LimitsAssumption DEF ListLimit
  <2>. QED BY <2>3 DEF newer, List, Unfinished, Active, ActiveStates
<1>. QED BY <1>1, ServiceInvariant, PTL

\* A persisted state only moves forward, and an outcome is final.
THEOREM StatesOnlyAdvance == Spec => StateMonotonic
<1>1. ServiceInv /\ [Next]_vars =>
        [\A j \in Jobs : jobs[j].state # jobs'[j].state =>
           Rank(jobs[j].state) < Rank(jobs'[j].state)]_vars
  <2>. SUFFICES ASSUME ServiceInv, RowsStep, NEW j \in Jobs, jobs[j].state # jobs'[j].state
                PROVE  Rank(jobs[j].state) < Rank(jobs'[j].state)
    BY RowsMove DEF ServiceInv
  <2>1. jobs \in [Jobs -> Row]
    BY TypeFacts DEF ServiceInv, StoreTypeOK
  <2>2. \/ jobs[j].state = "absent" /\ jobs'[j].state = "queued"
        \/ jobs[j].state = "queued" /\ jobs'[j].state = "running"
        \/ jobs[j].state = "running" /\ jobs'[j].state \in {"verifying", "cleaning"}
        \/ jobs[j].state = "verifying" /\ jobs'[j].state = "cleaning"
        \/ jobs[j].state = "cleaning" /\ jobs'[j].state \in TerminalStates
    <3>1. CASE \E k \in Jobs : Enqueue(k)
      BY <2>1, <3>1 DEF Enqueue, NoRow
    <3>2. CASE \E k \in Jobs : Claim(k)
      BY <2>1, <3>2 DEF Claim, Claimable, Row
    <3>3. CASE \E k \in Jobs : Cancel(k)
      BY <2>1, <3>3 DEF Cancel, Row
    <3>4. CASE \E k \in Jobs : Advances(k)
      BY <3>4 DEF Advances, OthersSame, SameRow
    <3>. QED BY <3>1, <3>2, <3>3, <3>4 DEF RowsStep, SameRow
  <2>. QED BY <2>2 DEF Rank, TerminalStates
<1>. QED BY <1>1, ServiceInvariant, PTL DEF Spec, StateMonotonic

(***************************************************************************)
(* 9. The refinement.  A step of the service is one step of one job's      *)
(* abstract life, or none.                                                 *)
(***************************************************************************)

\* What the mapping does with the row of one job.
LEMMA PhaseMoves ==
  ASSUME NEW e \in Jobs, \A k \in Jobs \ {e} : jobs'[k].state = jobs[k].state
  PROVE  /\ phases' = [phases EXCEPT ![e] = Phase(jobs'[e].state)]
         /\ phases[e] = Phase(jobs[e].state)
         /\ DOMAIN phases = Jobs
BY DEF phases

\* One row that moves is one step of its abstract life.
LEMMA RowsStepRefines ==
  ASSUME TypeInv, LeaseInv, OutcomeInv, RowsStep
  PROVE  [Lifecycle!Next]_(Lifecycle!lifecycleVars)
<1>1. jobs \in [Jobs -> Row]
  BY TypeFacts DEF StoreTypeOK
<1>2. ASSUME \A j \in Jobs : jobs'[j].cancelRequested = jobs[j].cancelRequested
      PROVE  UNCHANGED cancelled
  BY <1>2 DEF cancelled
<1>3. ASSUME \A j \in Jobs : SameRow(j) PROVE UNCHANGED Lifecycle!lifecycleVars
  <2>1. UNCHANGED phases
    BY <1>3 DEF phases, SameRow
  <2>. QED BY <1>2, <1>3, <2>1 DEF SameRow, Lifecycle!lifecycleVars
<1>4. ASSUME NEW e \in Jobs, Enqueue(e) PROVE Lifecycle!Submit(e)
  <2>1. /\ jobs[e].state = "absent" /\ jobs'[e].state = "queued"
        /\ ~jobs[e].cancelRequested /\ ~jobs'[e].cancelRequested
        /\ \A k \in Jobs \ {e} : jobs'[k] = jobs[k]
    BY <1>1, <1>4 DEF Enqueue, NoRow, OutcomeInv, RecordInv
  <2>2. phases[e] = "none" /\ phases' = [phases EXCEPT ![e] = "waiting"]
    BY <2>1, PhaseMoves DEF Phase
  <2>3. UNCHANGED cancelled
    BY <1>4, <2>1 DEF cancelled
  <2>. QED BY <2>2, <2>3 DEF Lifecycle!Submit
<1>5. ASSUME NEW e \in Jobs, Claim(e), pc = "claim" PROVE Lifecycle!Begin(e)
  <2>1. /\ Claimable(e) /\ jobs[e].state = "queued" /\ jobs'[e].state = "running"
        /\ jobs'[e].cancelRequested = jobs[e].cancelRequested
        /\ \A k \in Jobs \ {e} : jobs'[k] = jobs[k]
    BY <1>1, <1>5 DEF Claim, Claimable, Row
  <2>2. phases[e] = "waiting" /\ phases' = [phases EXCEPT ![e] = "working"]
    BY <2>1, PhaseMoves DEF Phase
  <2>3. \A k \in Jobs : ~Active(k)
    BY <1>5, <2>1 DEF Claimable, LeaseInv, SettledInv, SettledPcs, QuarantineInv
  <2>4. \A k \in Jobs : phases[k] \notin {"working", "closing"}
    <3>. TAKE k \in Jobs
    <3>1. jobs[k].state \in {"absent", "queued"} \cup TerminalStates
      BY <1>1, <2>3 DEF Row, States, Active
    <3>. QED BY <3>1 DEF phases, Phase, TerminalStates
  <2>. QED BY <1>2, <2>1, <2>2, <2>4 DEF Lifecycle!Begin
<1>6. ASSUME NEW e \in Jobs, Cancel(e) PROVE Lifecycle!Withdraw(e)
  <2>1. /\ jobs[e].state \in {"queued", "running", "verifying"} /\ jobs'[e].cancelRequested
        /\ \A k \in Jobs : jobs'[k].state = jobs[k].state
        /\ \A k \in Jobs \ {e} : jobs'[k] = jobs[k]
    BY <1>1, <1>6 DEF Cancel, Row
  <2>2. phases[e] \in {"waiting", "working"} /\ phases' = phases
    BY <2>1 DEF phases, Phase
  <2>3. cancelled' = cancelled \cup {e}
    BY <2>1 DEF cancelled
  <2>. QED BY <2>2, <2>3 DEF Lifecycle!Withdraw
<1>7. ASSUME NEW e \in Jobs, Advances(e)
      PROVE  Lifecycle!Close(e) \/ Lifecycle!Finish(e) \/ UNCHANGED Lifecycle!lifecycleVars
  <2>1. /\ UNCHANGED cancelled
        /\ \A k \in Jobs \ {e} : jobs'[k].state = jobs[k].state
    BY <1>2, <1>7 DEF Advances, OthersSame, SameRow
  <2>2. CASE jobs[e].state = "running" /\ jobs'[e].state = "verifying"
    <3>1. phases' = phases
      BY <2>1, <2>2 DEF phases, Phase
    <3>. QED BY <2>1, <3>1 DEF Lifecycle!lifecycleVars
  <2>3. CASE jobs[e].state \in {"running", "verifying"} /\ jobs'[e].state = "cleaning"
    <3>1. phases[e] = "working" /\ phases' = [phases EXCEPT ![e] = "closing"]
      BY <2>1, <2>3, PhaseMoves DEF Phase
    <3>. QED BY <2>1, <3>1 DEF Lifecycle!Close
  <2>4. CASE /\ jobs[e].state = "cleaning"
             /\ jobs'[e].state \in TerminalStates
             /\ jobs'[e].state = "cancelled" => jobs[e].cancelRequested
             /\ jobs'[e].state = "completed" => ~jobs[e].cancelRequested
    <3>1. phases[e] = "closing" /\ phases' = [phases EXCEPT ![e] = jobs'[e].state]
      <4>1. Phase(jobs'[e].state) = jobs'[e].state
        BY <2>4 DEF Phase, TerminalStates
      <4>. QED BY <2>1, <2>4, <4>1, PhaseMoves DEF Phase
    <3>2. /\ jobs'[e].state = "cancelled" => e \in cancelled
          /\ jobs'[e].state = "completed" => e \notin cancelled
          /\ jobs'[e].state \in Lifecycle!Outcomes
      BY <2>4 DEF cancelled, Lifecycle!Outcomes, TerminalStates
    <3>. QED BY <2>1, <3>1, <3>2 DEF Lifecycle!Finish
  <2>. QED BY <1>7, <2>2, <2>3, <2>4 DEF Advances
<1>. QED BY <1>3, <1>4, <1>5, <1>6, <1>7 DEF RowsStep, Lifecycle!Next

\* The job rows of the service follow the abstract life of a job, step by step: one job
\* occupies the device from its start to its outcome, none starts twice or goes back, and a
\* withdrawn job does not complete.
THEOREM RefinesLifecycle == Spec => ImplementsLifecycle
<1>1. Init => Lifecycle!Init
  <2>. SUFFICES ASSUME Init PROVE Lifecycle!Init
    OBVIOUS
  <2>1. \A j \in Jobs : jobs[j].state = "absent" /\ ~jobs[j].cancelRequested
    BY DEF Init, WorkerInit, StoreInit, NoRow
  <2>2. phases = [j \in Jobs |-> "none"]
    BY <2>1 DEF phases, Phase
  <2>3. cancelled = {}
    BY <2>1 DEF cancelled
  <2>. QED BY <2>2, <2>3 DEF Lifecycle!Init
<1>2. ServiceInv /\ [Next]_vars => [Lifecycle!Next]_(Lifecycle!lifecycleVars)
  BY RowsMove, RowsStepRefines DEF ServiceInv
<1>. QED BY <1>1, <1>2, ServiceInvariant, PTL DEF Spec, ImplementsLifecycle, Lifecycle!Spec

===============================================================================
