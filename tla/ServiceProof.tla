----------------------------- MODULE ServiceProof -----------------------------
(***************************************************************************)
(* Proofs about Service for every set of jobs, confirmers and faults and   *)
(* every limit.                                                            *)
(***************************************************************************)
EXTENDS Service, TLAPS

(***************************************************************************)
(* 1. Types.  TypeOK alone is not inductive: a step that writes the row of *)
(* run.job needs run.job to be a job, so the places that name a job are    *)
(* part of the invariant.                                                  *)
(***************************************************************************)

\* Where finish or the steps before it hold a chosen outcome.
DesiredPcs ==
  {"verify", "inspect", "publish", "record", "begin", "remove", "cleanup", "settle"}

JobsNamed ==
  /\ pc \in RunPcs => run.job \in Jobs
  /\ pc \notin RunPcs => run = Idle
  /\ pc \in DesiredPcs => run.desired \in TerminalStates
  /\ \A p \in Callers : exp[p].step = "mark" => exp[p].job \in Jobs
  /\ \A c \in Confirmers : confirm[c].step # "idle" => confirm[c].job \in Jobs

TypeInv == TypeOK /\ JobsNamed

\* The transactions of the job store keep its tables well typed.
LEMMA RowUpdates ==
  ASSUME NEW r \in Row
  PROVE  /\ NoRow \in Row
         /\ [r EXCEPT !.state = "running", !.attempts = r.attempts + 1] \in Row
         /\ [r EXCEPT !.attempts = r.attempts + 1] \in Row
         /\ RecoveredRow(r) \in Row
<1>1. r.attempts \in Nat
  BY DEF Row
<1>2. r.attempts + 1 \in Nat
  BY <1>1
<1>3. NoRow \in Row
  BY DEF NoRow, Row, States, Expiries
<1>4. RecoveredRow(r) \in Row
  BY DEF RecoveredRow, Row, States, ActiveStates, TerminalStates, Terminal
<1>. QED
  BY <1>2, <1>3, <1>4 DEF Row, States, ActiveStates

\* Every transaction of the store, on any job, keeps the tables well typed.
LEMMA StoreTypes ==
  ASSUME StoreTypeOK, NEW j \in Jobs
  PROVE  /\ Enqueue(j) => StoreTypeOK'
         /\ Claim(j) => StoreTypeOK'
         /\ \A to : Change(j, to) => StoreTypeOK'
         /\ Cancel(j) => StoreTypeOK'
         /\ Release(j) => StoreTypeOK'
         /\ \A d \in TerminalStates : Quarantine(j, d) => StoreTypeOK'
         /\ Resolve(j) => StoreTypeOK'
         /\ Retry(j) => StoreTypeOK'
         /\ RecordExpiry(j) => StoreTypeOK'
         /\ \A b \in BOOLEAN : RecordExpired(j, b) => StoreTypeOK'
         /\ Recover => StoreTypeOK'
         /\ \A d \in TerminalStates : BeginCleanup(j, d) => StoreTypeOK'
         /\ \A op \in Nat : StartOperation(j, op) => StoreTypeOK'
<1>1. jobs[j] \in Row /\ device.owner \in Jobs \cup {NoJob} /\ device.quarantined \in BOOLEAN
  BY DEF StoreTypeOK, Device
<1>2. ASSUME Enqueue(j) PROVE StoreTypeOK'
  <2>1. [NoRow EXCEPT !.state = "queued",
                      !.after = {k \in Jobs : jobs[k].state # "absent"}] \in Row
    BY RowUpdates, <1>1 DEF Row, States
  <2>. QED BY <1>2, <2>1 DEF Enqueue, StoreTypeOK
<1>3. ASSUME Claim(j) PROVE StoreTypeOK'
  BY <1>1, <1>3, RowUpdates DEF Claim, StoreTypeOK, Device
<1>4. ASSUME NEW to, Change(j, to) PROVE StoreTypeOK'
  <2>1. to \in States
    BY <1>4 DEF Change, CanTransition, Terminal, States, ActiveStates, TerminalStates
  <2>. QED BY <1>4, <2>1 DEF Change, StoreTypeOK, Row
<1>5. ASSUME Cancel(j) PROVE StoreTypeOK'
  BY <1>5 DEF Cancel, StoreTypeOK, Row
<1>6. ASSUME Release(j) PROVE StoreTypeOK'
  BY <1>6 DEF Release, StoreTypeOK, Device
<1>7. ASSUME NEW d \in TerminalStates, Quarantine(j, d) PROVE StoreTypeOK'
  BY <1>7 DEF Quarantine, StoreTypeOK, Row, Device
<1>8. ASSUME Resolve(j) PROVE StoreTypeOK'
  <2>1. jobs[j].pendingState \in States
    BY <1>8 DEF Resolve, Resolvable, Terminal, States
  <2>2. [jobs[j] EXCEPT !.cleanupError = FALSE, !.state = jobs[j].pendingState,
                        !.pendingState = "none"] \in Row
    BY <1>1, <2>1 DEF Row
  <2>. QED BY <1>8, <2>2 DEF Resolve, StoreTypeOK, Device
<1>9. ASSUME Retry(j) PROVE StoreTypeOK'
  BY <1>1, <1>9, RowUpdates DEF Retry, StoreTypeOK
<1>10. ASSUME RecordExpiry(j) PROVE StoreTypeOK'
  BY <1>10 DEF RecordExpiry, StoreTypeOK, Row, Expiries
<1>11. ASSUME NEW b \in BOOLEAN, RecordExpired(j, b) PROVE StoreTypeOK'
  BY <1>11 DEF RecordExpired, StoreTypeOK, Row, TerminalStates
<1>12. ASSUME Recover PROVE StoreTypeOK'
  BY <1>1, <1>12, RowUpdates DEF Recover, StoreTypeOK, Device
<1>13. ASSUME NEW d \in TerminalStates, BeginCleanup(j, d) PROVE StoreTypeOK'
  <2>1. CleanupOutcome(j, d) \in TerminalStates
    BY DEF CleanupOutcome, TerminalStates
  <2>2. [jobs[j] EXCEPT !.state = "cleaning", !.pendingState = CleanupOutcome(j, d)] \in Row
    BY <1>1, <2>1 DEF Row, States, ActiveStates
  <2>. QED BY <1>13, <2>2 DEF BeginCleanup, StoreTypeOK
<1>14. ASSUME NEW op \in Nat, StartOperation(j, op) PROVE StoreTypeOK'
  BY <1>14 DEF StartOperation, StoreTypeOK
<1>. QED
  BY <1>2, <1>3, <1>4, <1>5, <1>6, <1>7, <1>8, <1>9, <1>10, <1>11, <1>12, <1>13, <1>14

\* What every step may assume, spelled out once.
LEMMA TypeFacts ==
  ASSUME TypeInv
  PROVE  /\ StoreTypeOK
         /\ run \in Run
         /\ run.attempt \in Nat
         /\ exp \in [Callers -> Expiration]
         /\ Idle \in Run
         /\ NoExpiration \in Expiration
         /\ "main" \in Callers
         /\ pc \in RunPcs => run.job \in Jobs
BY DEF TypeInv, TypeOK, WorkerTypeOK, JobsNamed, Run, Idle, Expiration, NoExpiration,
       Callers, Contents

\* An activation of Expire names a job whenever it is about to mark one.
LEMMA ExpireTypes ==
  ASSUME TypeInv, NEW p \in Callers
  PROVE  /\ BeginExpire(p) => /\ exp' \in [Callers -> Expiration]
                              /\ \A q \in Callers : exp'[q].step = "mark" => exp'[q].job \in Jobs
         /\ ExpireReturns(p) \/ ExpireFails(p) =>
              /\ exp' \in [Callers -> Expiration]
              /\ \A q \in Callers : exp'[q].step = "mark" => exp'[q].job \in Jobs
BY TypeFacts DEF TypeInv, JobsNamed, BeginExpire, ExpireReturns, ExpireFails, Expiration,
                 NoExpiration

\* A step inside a run keeps the types if what it writes is well typed.
LEMMA RunFrame ==
  ASSUME TypeInv, pc \in RunPcs, pc' \in RunPcs,
         StoreTypeOK', run' \in Run, run'.job = run.job,
         pc' \in DesiredPcs => run'.desired \in TerminalStates,
         work' \in SUBSET Jobs, inputs' \in SUBSET Jobs,
         artifacts' \in [Jobs -> Contents], residue' \in [Jobs -> SUBSET Nat],
         exp' \in [Callers -> Expiration],
         \A q \in Callers : exp'[q].step = "mark" => exp'[q].job \in Jobs,
         UNCHANGED <<recovering, envVars, httpVars>>
  PROVE  TypeInv'
BY DEF TypeInv, TypeOK, WorkerTypeOK, JobsNamed, envVars, httpVars

\* The steps of Worker.Run and Worker.finish.
LEMMA RunTypes ==
  ASSUME TypeInv, RunStep, UNCHANGED httpVars
  PROVE  TypeInv'
<1>. USE DEF storeVars, fileVars
<1>1. /\ StoreTypeOK /\ work \in SUBSET Jobs /\ inputs \in SUBSET Jobs
      /\ artifacts \in [Jobs -> Contents] /\ residue \in [Jobs -> SUBSET Nat]
      /\ \A q \in Callers : exp[q].step = "mark" => exp[q].job \in Jobs
  BY DEF TypeInv, TypeOK, WorkerTypeOK, JobsNamed
<1>2. pc \in DesiredPcs => run.desired \in TerminalStates
  BY DEF TypeInv, JobsNamed
<1>3. UNCHANGED storeVars => StoreTypeOK'
  BY <1>1 DEF StoreTypeOK
<1>4. ASSUME MakeWorkspace PROVE TypeInv'
  <2>1. pc \in RunPcs /\ pc' \in RunPcs
    BY <1>4 DEF MakeWorkspace, RunPcs, AttemptPcs
  <2>2. run' \in Run /\ run'.job = run.job
    BY <1>4, <1>1, <2>1, TypeFacts DEF MakeWorkspace, Run
  <2>3. pc' \in DesiredPcs => run'.desired \in TerminalStates
    BY <1>4, <1>2, TypeFacts DEF MakeWorkspace, DesiredPcs, Run
  <2>. QED BY <2>1, <2>2, <2>3, <1>1, <1>3, <1>4, TypeFacts, RunFrame DEF MakeWorkspace
<1>5. ASSUME WorkspaceFails PROVE TypeInv'
  <2>1. pc \in RunPcs /\ pc' \in RunPcs
    BY <1>5 DEF WorkspaceFails, RunPcs, AttemptPcs
  <2>2. run' \in Run /\ run'.job = run.job
    BY <1>5, <1>1, <2>1, TypeFacts DEF WorkspaceFails, Run
  <2>3. pc' \in DesiredPcs => run'.desired \in TerminalStates
    BY <1>5, <1>2, TypeFacts DEF WorkspaceFails, DesiredPcs, Run
  <2>. QED BY <2>1, <2>2, <2>3, <1>1, <1>3, <1>5, TypeFacts, RunFrame DEF WorkspaceFails
<1>6. ASSUME DecryptRefused PROVE TypeInv'
  <2>1. pc \in RunPcs /\ pc' \in RunPcs
    BY <1>6 DEF DecryptRefused, RunPcs, AttemptPcs
  <2>2. run' \in Run /\ run'.job = run.job
    BY <1>6, <1>1, <2>1, TypeFacts DEF DecryptRefused, Run
  <2>3. pc' \in DesiredPcs => run'.desired \in TerminalStates
    BY <1>6, <1>2, TypeFacts DEF DecryptRefused, DesiredPcs, Run
  <2>. QED BY <2>1, <2>2, <2>3, <1>1, <1>3, <1>6, TypeFacts, RunFrame DEF DecryptRefused
<1>7. ASSUME DecryptStarts PROVE TypeInv'
  <2>1. pc \in RunPcs /\ pc' \in RunPcs
    BY <1>7 DEF DecryptStarts, RunPcs, AttemptPcs
  <2>2. run' \in Run /\ run'.job = run.job
    BY <1>7, <1>1, <2>1, TypeFacts DEF DecryptStarts, Run, Contents
  <2>3. pc' \in DesiredPcs => run'.desired \in TerminalStates
    BY <1>7, <1>2, TypeFacts DEF DecryptStarts, DesiredPcs, Run, Contents
  <2>4. StoreTypeOK'
    BY <1>7, <1>1, <1>2, <1>3, <2>1, TypeFacts, StoreTypes DEF DecryptStarts, DesiredPcs
  <2>. QED BY <2>1, <2>2, <2>3, <2>4, <1>1, <1>3, <1>7, TypeFacts, RunFrame DEF DecryptStarts
<1>8. ASSUME DeviceContact PROVE TypeInv'
  <2>1. pc \in RunPcs /\ pc' \in RunPcs
    BY <1>8 DEF DeviceContact, RunPcs, AttemptPcs
  <2>2. run' \in Run /\ run'.job = run.job
    BY <1>8, <1>1, <2>1, TypeFacts DEF DeviceContact, Run
  <2>3. pc' \in DesiredPcs => run'.desired \in TerminalStates
    BY <1>8, <1>2, TypeFacts DEF DeviceContact, DesiredPcs, Run
  <2>4. residue' \in [Jobs -> SUBSET Nat]
    BY <1>8, <1>1, <2>1, TypeFacts DEF DeviceContact
  <2>. QED BY <2>1, <2>2, <2>3, <2>4, <1>1, <1>3, <1>8, TypeFacts, RunFrame DEF DeviceContact
<1>9. ASSUME DecryptSucceeds PROVE TypeInv'
  <2>1. pc \in RunPcs /\ pc' \in RunPcs
    BY <1>9 DEF DecryptSucceeds, RunPcs, AttemptPcs
  <2>2. run' \in Run /\ run'.job = run.job
    BY <1>9, <1>1, <2>1, TypeFacts DEF DecryptSucceeds, Run, Contents
  <2>3. pc' \in DesiredPcs => run'.desired \in TerminalStates
    BY <1>9, <1>2, TypeFacts DEF DecryptSucceeds, DesiredPcs, Run, Contents
  <2>4. residue' \in [Jobs -> SUBSET Nat]
    BY <1>9, <1>1, <2>1, TypeFacts DEF DecryptSucceeds, LibraryExit
  <2>. QED BY <2>1, <2>2, <2>3, <2>4, <1>1, <1>3, <1>9, TypeFacts, RunFrame DEF DecryptSucceeds
<1>10. ASSUME DecryptFails PROVE TypeInv'
  <2>1. pc \in RunPcs /\ pc' \in RunPcs
    BY <1>10 DEF DecryptFails, RunPcs, AttemptPcs
  <2>2. run' \in Run /\ run'.job = run.job
    BY <1>10, <1>1, <2>1, TypeFacts DEF DecryptFails, Run
  <2>3. pc' \in DesiredPcs => run'.desired \in TerminalStates
    BY <1>10, <1>2, TypeFacts DEF DecryptFails, DesiredPcs, Run
  <2>4. residue' \in [Jobs -> SUBSET Nat]
    BY <1>10, <1>1, <2>1, TypeFacts DEF DecryptFails, LibraryExit
  <2>. QED BY <2>1, <2>2, <2>3, <2>4, <1>1, <1>3, <1>10, TypeFacts, RunFrame DEF DecryptFails
<1>11. ASSUME RetryCleanup PROVE TypeInv'
  <2>1. pc \in RunPcs /\ pc' \in RunPcs
    BY <1>11 DEF RetryCleanup, RunPcs, AttemptPcs
  <2>2. run' \in Run /\ run'.job = run.job
    BY <1>11, <1>1, <2>1, TypeFacts DEF RetryCleanup, Run
  <2>3. pc' \in DesiredPcs => run'.desired \in TerminalStates
    BY <1>11, <1>2, TypeFacts DEF RetryCleanup, DesiredPcs, Run
  <2>4. residue' \in [Jobs -> SUBSET Nat]
    BY <1>11, <1>1, <2>1, TypeFacts DEF RetryCleanup, CleanupDevice, CleanupReport
  <2>. QED BY <2>1, <2>2, <2>3, <2>4, <1>1, <1>3, <1>11, TypeFacts, RunFrame DEF RetryCleanup
<1>12. ASSUME RecordRetry PROVE TypeInv'
  <2>1. pc \in RunPcs /\ pc' \in RunPcs
    BY <1>12 DEF RecordRetry, RunPcs, AttemptPcs
  <2>2. run' \in Run /\ run'.job = run.job
    BY <1>12, <1>1, <2>1, TypeFacts DEF RecordRetry, Run
  <2>3. pc' \in DesiredPcs => run'.desired \in TerminalStates
    BY <1>12, <1>2, TypeFacts DEF RecordRetry, DesiredPcs, Run
  <2>4. StoreTypeOK'
    BY <1>12, <1>1, <1>2, <1>3, <2>1, TypeFacts, StoreTypes DEF RecordRetry, DesiredPcs
  <2>. QED BY <2>1, <2>2, <2>3, <2>4, <1>1, <1>3, <1>12, TypeFacts, RunFrame DEF RecordRetry
<1>13. ASSUME RecordRetryFails PROVE TypeInv'
  <2>1. pc \in RunPcs /\ pc' \in RunPcs
    BY <1>13 DEF RecordRetryFails, RunPcs, AttemptPcs
  <2>2. run' \in Run /\ run'.job = run.job
    BY <1>13, <1>1, <2>1, TypeFacts DEF RecordRetryFails, Run
  <2>3. pc' \in DesiredPcs => run'.desired \in TerminalStates
    BY <1>13, <1>2, TypeFacts DEF RecordRetryFails, DesiredPcs, Run
  <2>. QED BY <2>1, <2>2, <2>3, <1>1, <1>3, <1>13, TypeFacts, RunFrame DEF RecordRetryFails
<1>14. ASSUME Backoff PROVE TypeInv'
  <2>1. pc \in RunPcs /\ pc' \in RunPcs
    BY <1>14 DEF Backoff, RunPcs, AttemptPcs
  <2>2. run' \in Run /\ run'.job = run.job
    <3>1. run.attempt + 1 \in Nat
      BY TypeFacts
    <3>. QED BY <1>14, <3>1, TypeFacts DEF Backoff, Run
  <2>3. pc' \in DesiredPcs => run'.desired \in TerminalStates
    BY <1>14, <1>2, TypeFacts DEF Backoff, DesiredPcs, Run
  <2>. QED BY <2>1, <2>2, <2>3, <1>1, <1>3, <1>14, TypeFacts, RunFrame DEF Backoff
<1>15. ASSUME Decide PROVE TypeInv'
  <2>1. pc \in RunPcs /\ pc' \in RunPcs
    BY <1>15 DEF Decide, RunPcs, AttemptPcs
  <2>2. run' \in Run /\ run'.job = run.job
    <3>1. Outcome \in TerminalStates
      BY DEF Outcome, TerminalStates
    <3>2. [run EXCEPT !.monitor = "off", !.desired = Outcome,
            !.attempt = 0, !.touched = FALSE, !.result = "none"] \in Run
      BY <3>1, TypeFacts DEF Run
    <3>3. CASE run.monitor = "failed"
      BY <1>15, <3>3, TypeFacts DEF Decide
    <3>4. CASE run.monitor # "failed"
      <4>1. run' = [run EXCEPT !.monitor = "off", !.desired = Outcome,
                               !.attempt = 0, !.touched = FALSE, !.result = "none"]
        BY <1>15, <3>4 DEF Decide
      <4>. QED BY <3>2, <4>1, TypeFacts DEF Run
    <3>. QED BY <3>3, <3>4
  <2>3. pc' \in DesiredPcs => run'.desired \in TerminalStates
    BY <1>15, <1>2, TypeFacts DEF Decide, DesiredPcs, Run, Outcome, TerminalStates
  <2>. QED BY <2>1, <2>2, <2>3, <1>1, <1>3, <1>15, TypeFacts, RunFrame DEF Decide
<1>16. ASSUME EnterVerifying PROVE TypeInv'
  <2>1. pc \in RunPcs /\ pc' \in RunPcs
    BY <1>16 DEF EnterVerifying, RunPcs, AttemptPcs
  <2>2. run' \in Run /\ run'.job = run.job
    BY <1>16, <1>1, <2>1, TypeFacts DEF EnterVerifying, Run
  <2>3. pc' \in DesiredPcs => run'.desired \in TerminalStates
    BY <1>16, <1>2, TypeFacts DEF EnterVerifying, DesiredPcs, Run
  <2>4. StoreTypeOK'
    BY <1>16, <1>1, <1>2, <1>3, <2>1, TypeFacts, StoreTypes DEF EnterVerifying, DesiredPcs
  <2>. QED BY <2>1, <2>2, <2>3, <2>4, <1>1, <1>3, <1>16, TypeFacts, RunFrame DEF EnterVerifying
<1>17. ASSUME InspectOutput PROVE TypeInv'
  <2>1. pc \in RunPcs /\ pc' \in RunPcs
    BY <1>17 DEF InspectOutput, RunPcs, AttemptPcs
  <2>2. run' \in Run /\ run'.job = run.job
    BY <1>17, <1>1, <2>1, TypeFacts DEF InspectOutput, Run, TerminalStates
  <2>3. pc' \in DesiredPcs => run'.desired \in TerminalStates
    BY <1>17, <1>2, TypeFacts DEF InspectOutput, DesiredPcs, Run, TerminalStates
  <2>. QED BY <2>1, <2>2, <2>3, <1>1, <1>3, <1>17, TypeFacts, RunFrame DEF InspectOutput
<1>18. ASSUME PublishOutput PROVE TypeInv'
  <2>1. pc \in RunPcs /\ pc' \in RunPcs
    BY <1>18 DEF PublishOutput, RunPcs, AttemptPcs
  <2>2. run' \in Run /\ run'.job = run.job
    BY <1>18, <1>1, <2>1, TypeFacts DEF PublishOutput, Run, TerminalStates, Contents
  <2>3. pc' \in DesiredPcs => run'.desired \in TerminalStates
    BY <1>18, <1>2, TypeFacts DEF PublishOutput, DesiredPcs, Run, TerminalStates, Contents
  <2>4. artifacts' \in [Jobs -> Contents]
    <3>1. run.output \in Contents
      BY TypeFacts DEF Run
    <3>. QED BY <1>18, <1>1, <3>1 DEF PublishOutput
  <2>. QED BY <2>1, <2>2, <2>3, <2>4, <1>1, <1>3, <1>18, TypeFacts, RunFrame DEF PublishOutput
<1>19. ASSUME RecordPublication PROVE TypeInv'
  <2>1. pc \in RunPcs /\ pc' \in RunPcs
    BY <1>19 DEF RecordPublication, RunPcs, AttemptPcs
  <2>2. run' \in Run /\ run'.job = run.job
    BY <1>19, <1>1, <2>1, TypeFacts DEF RecordPublication, Run
  <2>3. pc' \in DesiredPcs => run'.desired \in TerminalStates
    BY <1>19, <1>2, TypeFacts DEF RecordPublication, DesiredPcs, Run
  <2>4. StoreTypeOK'
    BY <1>19, <1>1, <1>2, <1>3, <2>1, TypeFacts, StoreTypes DEF RecordPublication, DesiredPcs
  <2>. QED BY <2>1, <2>2, <2>3, <2>4, <1>1, <1>3, <1>19, TypeFacts, RunFrame DEF RecordPublication
<1>20. ASSUME EnterCleaning PROVE TypeInv'
  <2>1. pc \in RunPcs /\ pc' \in RunPcs
    BY <1>20 DEF EnterCleaning, RunPcs, AttemptPcs
  <2>2. run' \in Run /\ run'.job = run.job
    <3>1. run.desired \in TerminalStates /\ run.review \in BOOLEAN /\ run.job \in Jobs
      BY <1>20, <1>2, <2>1, TypeFacts DEF EnterCleaning, DesiredPcs, Run
    <3>2. CleanupOutcome(run.job, IF CtxErr THEN "failed" ELSE run.desired) \in TerminalStates
      BY <3>1 DEF CleanupOutcome, TerminalStates
    <3>. QED BY <1>20, <3>1, <3>2, TypeFacts DEF EnterCleaning, Run, Idle
  <2>3. pc' \in DesiredPcs => run'.desired \in TerminalStates
    BY <1>20, <1>2, TypeFacts DEF EnterCleaning, DesiredPcs, Run, Idle, CleanupOutcome, TerminalStates, Contents
  <2>4. StoreTypeOK'
    BY <1>20, <1>1, <1>2, <1>3, <2>1, TypeFacts, StoreTypes DEF EnterCleaning, DesiredPcs, TerminalStates
  <2>. QED BY <2>1, <2>2, <2>3, <2>4, <1>1, <1>3, <1>20, TypeFacts, RunFrame DEF EnterCleaning
<1>21. ASSUME RemoveFiles PROVE TypeInv'
  <2>1. pc \in RunPcs /\ pc' \in RunPcs
    BY <1>21 DEF RemoveFiles, RunPcs, AttemptPcs
  <2>2. run' \in Run /\ run'.job = run.job
    BY <1>21, <1>1, <2>1, TypeFacts DEF RemoveFiles, Run
  <2>3. pc' \in DesiredPcs => run'.desired \in TerminalStates
    BY <1>21, <1>2, TypeFacts DEF RemoveFiles, DesiredPcs, Run
  <2>. QED BY <2>1, <2>2, <2>3, <1>1, <1>3, <1>21, TypeFacts, RunFrame DEF RemoveFiles, Contents
<1>22. ASSUME FinishCleanup PROVE TypeInv'
  <2>1. pc \in RunPcs /\ pc' \in RunPcs
    BY <1>22 DEF FinishCleanup, RunPcs, AttemptPcs
  <2>2. run' \in Run /\ run'.job = run.job
    BY <1>22, <1>1, <2>1, TypeFacts DEF FinishCleanup, Run
  <2>3. pc' \in DesiredPcs => run'.desired \in TerminalStates
    BY <1>22, <1>2, TypeFacts DEF FinishCleanup, DesiredPcs, Run
  <2>4. residue' \in [Jobs -> SUBSET Nat]
    BY <1>22, <1>1, <2>1, TypeFacts DEF FinishCleanup, CleanupDevice, CleanupReport
  <2>. QED BY <2>1, <2>2, <2>3, <2>4, <1>1, <1>3, <1>22, TypeFacts, RunFrame DEF FinishCleanup
<1>23. ASSUME Settle PROVE TypeInv'
  <2>1. pc \in RunPcs /\ pc' \in RunPcs
    BY <1>23 DEF Settle, RunPcs, AttemptPcs
  <2>2. run' \in Run /\ run'.job = run.job
    BY <1>23, <1>1, <2>1, TypeFacts DEF Settle, Run
  <2>3. pc' \in DesiredPcs => run'.desired \in TerminalStates
    BY <1>23, <1>2, TypeFacts DEF Settle, DesiredPcs, Run
  <2>4. StoreTypeOK'
    BY <1>23, <1>1, <1>2, <1>3, <2>1, TypeFacts, StoreTypes DEF Settle, DesiredPcs
  <2>5. /\ exp' \in [Callers -> Expiration]
        /\ \A q \in Callers : exp'[q].step = "mark" => exp'[q].job \in Jobs
    BY <1>23, <1>1, TypeFacts, ExpireTypes DEF Settle
  <2>. QED BY <2>1, <2>2, <2>3, <2>4, <2>5, <1>1, <1>3, <1>23, TypeFacts, RunFrame DEF Settle
<1>24. ASSUME FinishExpired PROVE TypeInv'
  <2>1. pc \in RunPcs /\ pc' \in RunPcs
    BY <1>24 DEF FinishExpired, RunPcs, AttemptPcs
  <2>2. run' \in Run /\ run'.job = run.job
    BY <1>24, <1>1, <2>1, TypeFacts DEF FinishExpired, Run
  <2>3. pc' \in DesiredPcs => run'.desired \in TerminalStates
    BY <1>24, <1>2, TypeFacts DEF FinishExpired, DesiredPcs, Run
  <2>4. /\ exp' \in [Callers -> Expiration]
        /\ \A q \in Callers : exp'[q].step = "mark" => exp'[q].job \in Jobs
    BY <1>24, <1>1, TypeFacts, ExpireTypes DEF FinishExpired
  <2>. QED BY <2>1, <2>2, <2>3, <2>4, <1>1, <1>3, <1>24, TypeFacts, RunFrame DEF FinishExpired
<1>25. ASSUME ReadPending PROVE TypeInv'
  <2>1. pc \in RunPcs /\ pc' \in RunPcs
    BY <1>25 DEF ReadPending, RunPcs, AttemptPcs
  <2>2. run' \in Run /\ run'.job = run.job
    BY <1>25, <1>1, <2>1, TypeFacts DEF ReadPending, Run, StoreTypeOK, Row
  <2>3. pc' \in DesiredPcs => run'.desired \in TerminalStates
    BY <1>25, <1>2, TypeFacts DEF ReadPending, DesiredPcs, Run, StoreTypeOK, Row
  <2>. QED BY <2>1, <2>2, <2>3, <1>1, <1>3, <1>25, TypeFacts, RunFrame DEF ReadPending
<1>26. ASSUME EnterTerminal PROVE TypeInv'
  <2>1. pc \in RunPcs /\ pc' \in RunPcs
    BY <1>26 DEF EnterTerminal, RunPcs, AttemptPcs
  <2>2. run' \in Run /\ run'.job = run.job
    BY <1>26, <1>1, <2>1, TypeFacts DEF EnterTerminal, Run
  <2>3. pc' \in DesiredPcs => run'.desired \in TerminalStates
    BY <1>26, <1>2, TypeFacts DEF EnterTerminal, DesiredPcs, Run
  <2>4. StoreTypeOK'
    BY <1>26, <1>1, <1>2, <1>3, <2>1, TypeFacts, StoreTypes DEF EnterTerminal, DesiredPcs
  <2>. QED BY <2>1, <2>2, <2>3, <2>4, <1>1, <1>3, <1>26, TypeFacts, RunFrame DEF EnterTerminal
<1>27. ASSUME RunFails PROVE TypeInv'
  <2>1. pc \in RunPcs /\ pc' \in RunPcs
    BY <1>27 DEF RunFails, RunPcs, AttemptPcs
  <2>2. run' \in Run /\ run'.job = run.job
    BY <1>27, <1>1, <2>1, TypeFacts DEF RunFails, Run
  <2>3. pc' \in DesiredPcs => run'.desired \in TerminalStates
    BY <1>27, <1>2, TypeFacts DEF RunFails, DesiredPcs, Run
  <2>. QED BY <2>1, <2>2, <2>3, <1>1, <1>3, <1>27, TypeFacts, RunFrame DEF RunFails
<1>28. ASSUME FinishExpireFails PROVE TypeInv'
  <2>1. pc \in RunPcs /\ pc' \in RunPcs
    BY <1>28 DEF FinishExpireFails, RunPcs, AttemptPcs
  <2>2. run' \in Run /\ run'.job = run.job
    BY <1>28, <1>1, <2>1, TypeFacts DEF FinishExpireFails, Run
  <2>3. pc' \in DesiredPcs => run'.desired \in TerminalStates
    BY <1>28, <1>2, TypeFacts DEF FinishExpireFails, DesiredPcs, Run
  <2>4. /\ exp' \in [Callers -> Expiration]
        /\ \A q \in Callers : exp'[q].step = "mark" => exp'[q].job \in Jobs
    BY <1>28, <1>1, TypeFacts, ExpireTypes DEF FinishExpireFails
  <2>. QED BY <2>1, <2>2, <2>3, <2>4, <1>1, <1>3, <1>28, TypeFacts, RunFrame DEF FinishExpireFails
<1>29. ASSUME ReleaseLease PROVE TypeInv'
  <2>1. StoreTypeOK' /\ pc \in RunPcs
    BY <1>29, <1>1, <1>3, TypeFacts, StoreTypes DEF ReleaseLease, RunPcs
  <2>2. pc' \in SchedulerPcs \ (RunPcs \cup DesiredPcs)
    BY <1>29 DEF ReleaseLease, SchedulerPcs, RunPcs, AttemptPcs, DesiredPcs
  <2>. QED BY <2>1, <2>2, <1>1, <1>29, TypeFacts
       DEF ReleaseLease, TypeInv, TypeOK, WorkerTypeOK, JobsNamed, envVars, httpVars
<1>. QED BY <1>4, <1>5, <1>6, <1>7, <1>8, <1>9, <1>10, <1>11, <1>12, <1>13, <1>14, <1>15, <1>16, <1>17, <1>18, <1>19, <1>20, <1>21, <1>22, <1>23, <1>24, <1>25, <1>26, <1>27, <1>28, <1>29 DEF RunStep

\* Startup, the scheduler's loop and the process.
LEMMA MainTypes ==
  ASSUME TypeInv,
         \/ RecoverStep /\ UNCHANGED httpVars
         \/ Start \/ Serve \/ Poll \/ PollExpired \/ ClaimNothing \/ SchedulerFails
         \/ Stop \/ Shutdown \/ Exit \/ Crash \/ StartupFails
         \/ \E j \in Jobs : ClaimJob(j)
  PROVE  TypeInv'
<1>. USE TypeFacts DEF TypeInv, TypeOK, WorkerTypeOK, JobsNamed, storeVars, fileVars, envVars,
         procVars, httpVars
<1>. DEFINE Pcs == StartupPcs \cup SchedulerPcs \cup RunPcs
<1>1. UNCHANGED storeVars => StoreTypeOK'
  BY DEF StoreTypeOK
<1>2. ASSUME RecoverJobs, UNCHANGED httpVars PROVE TypeInv'
  <2>1. StoreTypeOK'
    BY <1>2, StoreTypes DEF RecoverJobs, Recover, StoreTypeOK, Device
  <2>. QED BY <1>2, <2>1 DEF RecoverJobs, RunPcs, AttemptPcs, DesiredPcs, StartupPcs
<1>3. ASSUME Reconcile, UNCHANGED httpVars PROVE TypeInv'
  <2>1. /\ exp' \in [Callers -> Expiration]
        /\ \A q \in Callers : exp'[q].step = "mark" => exp'[q].job \in Jobs
    BY <1>3, ExpireTypes DEF Reconcile
  <2>2. /\ work' \in SUBSET Jobs /\ inputs' \in SUBSET Jobs /\ recovering' \in SUBSET Jobs
        /\ artifacts' \in [Jobs -> Contents]
    BY <1>3 DEF Reconcile, Contents
  <2>. QED BY <1>1, <1>3, <2>1, <2>2
       DEF Reconcile, RunPcs, AttemptPcs, DesiredPcs, StartupPcs
<1>4. ASSUME RecoverExpired, UNCHANGED httpVars PROVE TypeInv'
  BY <1>1, <1>4, ExpireTypes DEF RecoverExpired, RunPcs, AttemptPcs, DesiredPcs, StartupPcs
<1>5. ASSUME NEW j \in Jobs, RecoverDevice(j), UNCHANGED httpVars PROVE TypeInv'
  <2>1. StoreTypeOK'
    BY <1>1, <1>5, StoreTypes DEF RecoverDevice
  <2>2. residue' \in [Jobs -> SUBSET Nat]
    BY <1>5 DEF RecoverDevice, CleanupDevice, CleanupReport
  <2>. QED BY <1>5, <2>1, <2>2 DEF RecoverDevice
<1>6. ASSUME NEW j \in Jobs, RecoverDeviceFails(j), UNCHANGED httpVars PROVE TypeInv'
  <2>1. residue' \in [Jobs -> SUBSET Nat]
    BY <1>6 DEF RecoverDeviceFails, CleanupDevice, CleanupReport
  <2>. QED BY <1>1, <1>6, <2>1
       DEF RecoverDeviceFails, RunPcs, AttemptPcs, DesiredPcs, StartupPcs
<1>7. ASSUME Start \/ Serve \/ ClaimNothing PROVE TypeInv'
  BY <1>1, <1>7 DEF Start, Serve, ClaimNothing, RunPcs, AttemptPcs, DesiredPcs, StartupPcs,
                    SchedulerPcs
<1>8. ASSUME Poll \/ PollExpired \/ SchedulerFails PROVE TypeInv'
  <2>1. /\ exp' \in [Callers -> Expiration]
        /\ \A q \in Callers : exp'[q].step = "mark" => exp'[q].job \in Jobs
    BY <1>8, ExpireTypes DEF Poll, PollExpired, SchedulerFails
  <2>. QED BY <1>1, <1>8, <2>1 DEF Poll, PollExpired, SchedulerFails, RunPcs, AttemptPcs,
                                   DesiredPcs, SchedulerPcs
<1>9. ASSUME NEW j \in Jobs, ClaimJob(j) PROVE TypeInv'
  <2>1. StoreTypeOK'
    BY <1>9, StoreTypes DEF ClaimJob
  <2>2. run' \in Run /\ run'.job = j
    BY <1>9 DEF ClaimJob, Run, Idle, TerminalStates
  <2>3. pc' \in RunPcs /\ (pc' \in DesiredPcs => run'.desired \in TerminalStates)
    BY <1>9 DEF ClaimJob, Idle, RunPcs, DesiredPcs, TerminalStates
  <2>. QED BY <1>9, <2>1, <2>2, <2>3 DEF ClaimJob
<1>10. ASSUME Stop \/ Shutdown PROVE TypeInv'
  BY <1>1, <1>10 DEF Stop, Shutdown
<1>11. ASSUME Exit \/ Crash \/ StartupFails PROVE TypeInv'
  <2>1. ProcessEnds
    BY <1>11 DEF Exit, Crash, StartupFails
  <2>. QED BY <1>1, <2>1 DEF ProcessEnds, RunPcs, AttemptPcs, DesiredPcs, StartupPcs,
                             NoExpiration, NoConfirmation, Confirmation
<1>. QED
  BY <1>2, <1>3, <1>4, <1>5, <1>6, <1>7, <1>8, <1>9, <1>10, <1>11 DEF RecoverStep

\* The monitor, artifact retention, the handlers and the environment.
LEMMA OtherTypes ==
  ASSUME TypeInv,
         \/ /\ MonitorCancels \/ MonitorFails \/ JobDeadline
            /\ UNCHANGED httpVars
         \/ \E p \in Callers : ExpireStep(p) /\ UNCHANGED httpVars
         \/ UploadAccepted \/ UploadRefused
         \/ \E c \in Confirmers : ConfirmRemoves(c) \/ ConfirmExpired(c) \/ ConfirmResolves(c)
         \/ \E j \in Jobs : Request(j) \/ OperatorCleans(j) \/ RetentionElapses(j)
  PROVE  TypeInv'
<1>. USE TypeFacts DEF TypeInv, TypeOK, WorkerTypeOK, JobsNamed, storeVars, fileVars, envVars,
         procVars, httpVars
<1>1. UNCHANGED storeVars => StoreTypeOK'
  BY DEF StoreTypeOK
<1>2. ASSUME MonitorCancels \/ MonitorFails \/ JobDeadline, UNCHANGED httpVars PROVE TypeInv'
  <2>1. pc \in RunPcs
    BY <1>2 DEF MonitorCancels, MonitorFails, JobDeadline, Idle, RunPcs
  <2>2. run' \in Run /\ run'.job = run.job /\ run'.desired = run.desired
    BY <1>2 DEF MonitorCancels, MonitorFails, JobDeadline, Run
  <2>. QED BY <1>1, <1>2, <2>1, <2>2 DEF MonitorCancels, MonitorFails, JobDeadline
<1>3. ASSUME NEW p \in Callers, NEW j \in Jobs, ExpireSkip(p, j), UNCHANGED httpVars
      PROVE TypeInv'
  BY <1>1, <1>3 DEF ExpireSkip, Expiration
<1>4. ASSUME NEW p \in Callers, NEW j \in Jobs, ExpireRemove(p, j), UNCHANGED httpVars
      PROVE TypeInv'
  <2>1. artifacts' \in [Jobs -> Contents]
    BY <1>4 DEF ExpireRemove, Contents
  <2>. QED BY <1>1, <1>4, <2>1 DEF ExpireRemove, Expiration
<1>5. ASSUME NEW p \in Callers, ExpireMark(p), UNCHANGED httpVars PROVE TypeInv'
  <2>1. StoreTypeOK'
    <3>1. exp[p].job \in Jobs /\ (exp[p].job \in exp[p].cleaning) \in BOOLEAN
      BY <1>5 DEF ExpireMark
    <3>. QED BY <1>5, <3>1, StoreTypes DEF ExpireMark
  <2>. QED BY <1>5, <2>1 DEF ExpireMark, Expiration
<1>6. ASSUME UploadAccepted PROVE TypeInv'
  BY <1>6, StoreTypes DEF UploadAccepted
<1>7. ASSUME UploadRefused PROVE TypeInv'
  BY <1>1, <1>7 DEF UploadRefused
<1>8. ASSUME NEW c \in Confirmers, ConfirmRemoves(c) PROVE TypeInv'
  <2>1. c \in Callers
    BY DEF Callers
  <2>2. /\ exp' \in [Callers -> Expiration]
        /\ \A q \in Callers : exp'[q].step = "mark" => exp'[q].job \in Jobs
    BY <1>8, <2>1, ExpireTypes DEF ConfirmRemoves
  <2>3. /\ confirm' \in [Confirmers -> Confirmation]
        /\ \A d \in Confirmers : confirm'[d].step # "idle" => confirm'[d].job \in Jobs
    BY <1>8 DEF ConfirmRemoves, Confirmation, NoConfirmation
  <2>4. work' \in SUBSET Jobs /\ inputs' \in SUBSET Jobs
    BY <1>8 DEF ConfirmRemoves
  <2>. QED BY <1>1, <1>8, <2>2, <2>3, <2>4 DEF ConfirmRemoves
<1>9. ASSUME NEW c \in Confirmers, ConfirmExpired(c) PROVE TypeInv'
  <2>1. c \in Callers
    BY DEF Callers
  <2>2. /\ exp' \in [Callers -> Expiration]
        /\ \A q \in Callers : exp'[q].step = "mark" => exp'[q].job \in Jobs
    BY <1>9, <2>1, ExpireTypes DEF ConfirmExpired
  <2>3. /\ confirm' \in [Confirmers -> Confirmation]
        /\ \A d \in Confirmers : confirm'[d].step # "idle" => confirm'[d].job \in Jobs
    BY <1>9 DEF ConfirmExpired, Confirmation, NoConfirmation
  <2>. QED BY <1>1, <1>9, <2>2, <2>3 DEF ConfirmExpired
<1>10. ASSUME NEW c \in Confirmers, ConfirmResolves(c) PROVE TypeInv'
  <2>1. StoreTypeOK'
    BY <1>1, <1>10, StoreTypes DEF ConfirmResolves
  <2>. QED BY <1>10, <2>1 DEF ConfirmResolves, Confirmation, NoConfirmation
<1>11. ASSUME NEW j \in Jobs, EnqueueRequest(j) \/ CancelRequest(j) PROVE TypeInv'
  <2>1. StoreTypeOK'
    BY <1>11, StoreTypes DEF EnqueueRequest, CancelRequest
  <2>. QED BY <1>11, <2>1 DEF EnqueueRequest, CancelRequest
<1>12. ASSUME NEW j \in Jobs, UploadBegins(j) PROVE TypeInv'
  BY <1>1, <1>12 DEF UploadBegins
<1>13. ASSUME NEW j \in Jobs, NEW c \in Confirmers, ConfirmBegins(c, j) PROVE TypeInv'
  BY <1>1, <1>13 DEF ConfirmBegins, Confirmation
<1>14. ASSUME NEW j \in Jobs, OperatorCleans(j) PROVE TypeInv'
  BY <1>1, <1>14 DEF OperatorCleans
<1>15. ASSUME NEW j \in Jobs, RetentionElapses(j) PROVE TypeInv'
  <2>1. StoreTypeOK'
    <3>1. [jobs[j] EXCEPT !.expiresAt = "past"] \in Row
      BY DEF StoreTypeOK, Row, Expiries
    <3>. QED BY <1>15, <3>1 DEF RetentionElapses, StoreTypeOK
  <2>. QED BY <1>15, <2>1 DEF RetentionElapses
<1>. QED
  BY <1>2, <1>3, <1>4, <1>5, <1>6, <1>7, <1>8, <1>9, <1>10, <1>11, <1>12, <1>13, <1>14, <1>15
  DEF ExpireStep, Request

\* An empty data directory and a process that has not started are well typed.
LEMMA TypeInvInit == Init => TypeInv
<1>. SUFFICES ASSUME Init PROVE TypeInv
  OBVIOUS
<1>1. StoreTypeOK
  BY DEF Init, WorkerInit, StoreInit, StoreTypeOK, NoRow, Row, States, Expiries, Device
<1>2. run = Idle /\ run \in Run /\ pc = "down"
  BY DEF Init, WorkerInit, Idle, Run, Contents
<1>3. WorkerTypeOK
  BY <1>1, <1>2 DEF Init, WorkerInit, WorkerTypeOK, StartupPcs, NoExpiration, Expiration, Contents
<1>. QED
  BY <1>2, <1>3 DEF Init, WorkerInit, TypeInv, TypeOK, JobsNamed, RunPcs, AttemptPcs, DesiredPcs,
     NoExpiration, NoConfirmation, Confirmation

\* Every action keeps the types and the jobs that are named.
LEMMA TypeInvStep == TypeInv /\ [Next]_vars => TypeInv'
<1>. SUFFICES ASSUME TypeInv, [Next]_vars PROVE TypeInv'
  OBVIOUS
<1>1. CASE UNCHANGED vars
  BY <1>1 DEF vars, TypeInv, TypeOK, WorkerTypeOK, StoreTypeOK, JobsNamed, storeVars, fileVars,
              procVars, envVars, httpVars
<1>2. CASE MainStep
  BY <1>2, RunTypes, MainTypes, OtherTypes DEF MainStep, Callers
<1>3. CASE \E c \in Confirmers : ConfirmStep(c)
  BY <1>3, OtherTypes DEF ConfirmStep, Callers
<1>. QED
  BY <1>1, <1>2, <1>3, MainTypes, OtherTypes DEF Next

(* Every reachable state is well typed: no handler, crash or recovery writes a *)
(* row, a file or a goroutine's local that the code has no meaning for.        *)
THEOREM TypeCorrect == Spec => []TypeOK
<1>1. TypeInv => TypeOK
  BY DEF TypeInv
<1>. QED
  BY <1>1, TypeInvInit, TypeInvStep, PTL DEF Spec

(***************************************************************************)
(* 2. One job at a time on the device.  OneActiveJob, LeaseCoversRun and   *)
(* QuarantineHasReview are not inductive one by one: a claim is safe       *)
(* because an open device row means that no job is active, and that holds  *)
(* at the claim because every way a run can end leaves its job finished,   *)
(* under review with the device quarantined, or the scheduler dead until   *)
(* the next recovery.  LeaseInv is the conjunction that carries this.      *)
(***************************************************************************)

\* Inside a run, before its deferred Release.
HoldPcs == RunPcs \ {"release", "abort"}
\* Inside finish, after BeginCleanup.
FinishPcs == {"remove", "cleanup", "settle", "finish-expire", "pending", "change"}
\* After recovery and between runs: nothing is half done.
SettledPcs == {"reconcile", "recover-expire", "recover-device", "poll", "poll-expire",
               "claim", "stopped", "release"}

\* Rows: only a cleaning row is under review, and it knows its outcome.
RowsInv ==
  \A j \in Jobs : /\ jobs[j].cleanupError => jobs[j].state = "cleaning"
                  /\ jobs[j].state = "cleaning" => jobs[j].pendingState \in TerminalStates

QuarantineInv == device.quarantined <=> \E j \in Jobs : UnderReview(j)

SettledInv == pc \in SettledPcs => \A j \in Jobs : Active(j) => UnderReview(j)

HoldInv ==
  pc \in HoldPcs =>
    /\ device.owner = run.job
    /\ ~device.quarantined
    /\ \A j \in Jobs : Active(j) => j = run.job

FinishInv == pc \in FinishPcs => jobs[run.job].state = "cleaning"

LeaseInv ==
  /\ RowsInv
  /\ QuarantineInv
  /\ OneActiveJob
  /\ SettledInv
  /\ HoldInv
  /\ FinishInv

(* Three ways a step leaves LeaseInv alone. *)

\* It writes no row, and the control state stays within the same kind of region.
LEMMA QuietStep ==
  ASSUME LeaseInv, UNCHANGED <<jobs, device>>,
         pc' \in SettledPcs => pc \in SettledPcs,
         pc' \in HoldPcs => pc \in HoldPcs /\ run'.job = run.job,
         pc' \in FinishPcs => pc \in FinishPcs /\ run'.job = run.job
  PROVE  LeaseInv'
BY DEF LeaseInv, RowsInv, QuarantineInv, OneActiveJob, SettledInv, HoldInv, FinishInv, Active, UnderReview

\* It writes columns that no decision about the device reads.
LEMMA ColumnStep ==
  ASSUME LeaseInv, UNCHANGED device,
         \A j \in Jobs : /\ jobs'[j].state = jobs[j].state
                         /\ jobs'[j].cleanupError = jobs[j].cleanupError
                         /\ jobs'[j].pendingState \in {jobs[j].pendingState, "failed"},
         pc' \in SettledPcs => pc \in SettledPcs,
         pc' \in HoldPcs => pc \in HoldPcs /\ run'.job = run.job,
         pc' \in FinishPcs => pc \in FinishPcs /\ run'.job = run.job,
         run'.job \in Jobs \/ pc' \notin FinishPcs
  PROVE  LeaseInv'
<1>1. \A j \in Jobs : (Active(j)' <=> Active(j)) /\ (UnderReview(j)' <=> UnderReview(j))
  BY DEF Active, UnderReview
<1>2. RowsInv'
  BY DEF LeaseInv, RowsInv, TerminalStates
<1>3. QuarantineInv' /\ OneActiveJob' /\ SettledInv' /\ HoldInv'
  BY <1>1 DEF LeaseInv, QuarantineInv, OneActiveJob, SettledInv, HoldInv
<1>4. FinishInv'
  BY DEF LeaseInv, FinishInv
<1>. QED BY <1>2, <1>3, <1>4 DEF LeaseInv

\* It resolves a review: only the job under review changes, and none is left.
LEMMA ResolveStep ==
  ASSUME TypeInv, LeaseInv, NEW k \in Jobs, Resolve(k), UNCHANGED <<pc, run>>
  PROVE  LeaseInv'
<1>. USE DEF LeaseInv
<1>1. UnderReview(k) /\ jobs[k].pendingState \in TerminalStates /\ device.quarantined
  BY DEF Resolve, Resolvable, Terminal, QuarantineInv
<1>2. \A j \in Jobs : Active(j) => j = k
  BY <1>1 DEF OneActiveJob, UnderReview, Active, ActiveStates
<1>3. \A j \in Jobs : ~Active(j)' /\ ~UnderReview(j)' /\ ~jobs'[j].cleanupError
  <2>1. jobs' = [jobs EXCEPT ![k] = [jobs[k] EXCEPT !.cleanupError = FALSE,
                   !.state = jobs[k].pendingState, !.pendingState = "none"]]
    BY DEF Resolve
  <2>2. jobs \in [Jobs -> Row]
    BY DEF TypeInv, TypeOK, WorkerTypeOK, StoreTypeOK
  <2>3. jobs'[k].state \in TerminalStates /\ ~jobs'[k].cleanupError
    BY <1>1, <2>1, <2>2 DEF Row
  <2>4. \A j \in Jobs \ {k} : jobs'[j] = jobs[j] /\ ~Active(j)
    BY <1>2, <2>1, <2>2
  <2>5. \A j \in Jobs : ~Active(j)' /\ ~UnderReview(j)'
    BY <2>3, <2>4 DEF Active, UnderReview, ActiveStates, TerminalStates
  <2>6. \A j \in Jobs : ~jobs'[j].cleanupError
    BY <2>3, <2>4 DEF RowsInv, Active, ActiveStates
  <2>. QED BY <2>5, <2>6
<1>4. ~device'.quarantined
  <2>1. ~ \E j \in Jobs \ {k} : UnderReview(j)
    BY <1>2 DEF UnderReview, Active, ActiveStates
  <2>. QED BY <2>1 DEF Resolve
<1>5. pc \notin HoldPcs
  BY <1>1 DEF HoldInv
<1>. QED
  BY <1>3, <1>4, <1>5
  DEF RowsInv, QuarantineInv, OneActiveJob, SettledInv, HoldInv, FinishInv, Active, ActiveStates,
      FinishPcs, HoldPcs, RunPcs

\* The steps of a run.
LEMMA LeaseRun ==
  ASSUME TypeInv, LeaseInv, RunStep
  PROVE  LeaseInv'
<1>. USE TypeFacts DEF HoldPcs, RunPcs, AttemptPcs, FinishPcs, SettledPcs, storeVars
<1>1. jobs \in [Jobs -> Row] /\ device \in Device
  BY DEF StoreTypeOK
<1>2. ASSUME MakeWorkspace PROVE LeaseInv'
  BY <1>2, QuietStep DEF MakeWorkspace, Run
<1>3. ASSUME WorkspaceFails PROVE LeaseInv'
  BY <1>3, QuietStep DEF WorkspaceFails, Run
<1>4. ASSUME DecryptRefused PROVE LeaseInv'
  BY <1>4, QuietStep DEF DecryptRefused, Run
<1>5. ASSUME DecryptStarts PROVE LeaseInv'
  BY <1>5, QuietStep DEF DecryptStarts, Run, StartOperation
<1>6. ASSUME DeviceContact PROVE LeaseInv'
  BY <1>6, QuietStep DEF DeviceContact, Run
<1>7. ASSUME DecryptSucceeds PROVE LeaseInv'
  BY <1>7, QuietStep DEF DecryptSucceeds, Run
<1>8. ASSUME DecryptFails PROVE LeaseInv'
  BY <1>8, QuietStep DEF DecryptFails, Run
<1>9. ASSUME RetryCleanup PROVE LeaseInv'
  BY <1>9, QuietStep DEF RetryCleanup, Run
<1>10. ASSUME RecordRetryFails PROVE LeaseInv'
  BY <1>10, QuietStep DEF RecordRetryFails, Run
<1>11. ASSUME Backoff PROVE LeaseInv'
  BY <1>11, QuietStep DEF Backoff, Run
<1>12. ASSUME Decide PROVE LeaseInv'
  BY <1>12, QuietStep DEF Decide, Run
<1>13. ASSUME InspectOutput PROVE LeaseInv'
  BY <1>13, QuietStep DEF InspectOutput, Run
<1>14. ASSUME PublishOutput PROVE LeaseInv'
  BY <1>14, QuietStep DEF PublishOutput, Run
<1>15. ASSUME RemoveFiles PROVE LeaseInv'
  BY <1>15, QuietStep DEF RemoveFiles, Run
<1>16. ASSUME FinishCleanup PROVE LeaseInv'
  BY <1>16, QuietStep DEF FinishCleanup, Run
<1>17. ASSUME FinishExpired PROVE LeaseInv'
  BY <1>17, QuietStep DEF FinishExpired, Run
<1>18. ASSUME ReadPending PROVE LeaseInv'
  BY <1>18, QuietStep DEF ReadPending, Run
<1>19. ASSUME RunFails PROVE LeaseInv'
  BY <1>19, QuietStep DEF RunFails, Run
<1>20. ASSUME FinishExpireFails PROVE LeaseInv'
  BY <1>20, QuietStep DEF FinishExpireFails, Run
<1>21. ASSUME RecordRetry PROVE LeaseInv'
  <2>1. \A j \in Jobs : /\ jobs'[j].state = jobs[j].state
                        /\ jobs'[j].cleanupError = jobs[j].cleanupError
                        /\ jobs'[j].pendingState = jobs[j].pendingState
    BY <1>21, <1>1 DEF RecordRetry, Retry, Row
  <2>. QED BY <1>21, <2>1, ColumnStep DEF RecordRetry, Retry
<1>22. ASSUME RecordPublication PROVE LeaseInv'
  <2>1. \A j \in Jobs : /\ jobs'[j].state = jobs[j].state
                        /\ jobs'[j].cleanupError = jobs[j].cleanupError
                        /\ jobs'[j].pendingState = jobs[j].pendingState
    BY <1>22, <1>1 DEF RecordPublication, RecordExpiry, Row
  <2>. QED BY <1>22, <2>1, ColumnStep DEF RecordPublication, RecordExpiry
<1>23. ASSUME EnterVerifying \/ EnterCleaning PROVE LeaseInv'
  <2>1. pc \in {"verify", "begin"} /\ pc' \in {"inspect", "remove"} /\ run'.job = run.job
    BY <1>23 DEF EnterVerifying, EnterCleaning, Run, Idle
  <2>2. HoldInv /\ run.job \in Jobs
    BY <2>1 DEF LeaseInv
  <2>3. ~jobs[run.job].cleanupError
    BY <2>1, <2>2 DEF LeaseInv, HoldInv, RowsInv, QuarantineInv, UnderReview
  <2>4. /\ \A j \in Jobs \ {run.job} : jobs'[j] = jobs[j]
        /\ jobs'[run.job].state = IF pc = "verify" THEN "verifying" ELSE "cleaning"
        /\ ~jobs'[run.job].cleanupError
        /\ UNCHANGED device
    <3>1. CASE EnterVerifying
      BY <3>1, <1>1, <2>2, <2>3 DEF EnterVerifying, Change, Row
    <3>2. CASE EnterCleaning
      BY <3>2, <1>1, <2>2, <2>3 DEF EnterCleaning, BeginCleanup, Row
    <3>. QED BY <1>23, <3>1, <3>2
  <2>5. pc = "begin" => jobs'[run.job].pendingState \in TerminalStates
    <3>1. SUFFICES ASSUME pc = "begin" PROVE jobs'[run.job].pendingState \in TerminalStates
      OBVIOUS
    <3>2. run.desired \in TerminalStates
      BY <3>1 DEF TypeInv, JobsNamed, DesiredPcs
    <3>3. CleanupOutcome(run.job, IF CtxErr THEN "failed" ELSE run.desired) \in TerminalStates
      BY <3>2 DEF CleanupOutcome, TerminalStates
    <3>4. BeginCleanup(run.job, IF CtxErr THEN "failed" ELSE run.desired)
      BY <1>23, <3>1 DEF EnterVerifying, EnterCleaning
    <3>5. jobs'[run.job].pendingState =
            CleanupOutcome(run.job, IF CtxErr THEN "failed" ELSE run.desired)
      BY <3>4, <1>1, <2>2 DEF BeginCleanup, Row
    <3>. QED BY <3>3, <3>5
  <2>6. RowsInv' /\ FinishInv'
    BY <1>23, <2>1, <2>2, <2>4, <2>5 DEF LeaseInv, RowsInv, FinishInv, EnterVerifying, EnterCleaning
  <2>7. \A j \in Jobs : (Active(j)' => j = run.job) /\ ~UnderReview(j)'
    BY <2>1, <2>2, <2>4 DEF LeaseInv, HoldInv, QuarantineInv, Active, UnderReview
  <2>. QED BY <2>1, <2>2, <2>4, <2>6, <2>7
       DEF LeaseInv, QuarantineInv, OneActiveJob, SettledInv, HoldInv
<1>24. ASSUME Settle PROVE LeaseInv'
  <2>1. CASE ~(run.cleanupErr \/ run.review)
    BY <1>24, <2>1, QuietStep DEF Settle
  <2>2. CASE run.cleanupErr \/ run.review
    <3>1. pc = "settle" /\ pc' = "release" /\ Quarantine(run.job, run.desired)
      BY <1>24, <2>2 DEF Settle
    <3>2. run.job \in Jobs /\ run.desired \in TerminalStates /\ jobs[run.job].state = "cleaning"
      BY <3>1 DEF LeaseInv, FinishInv, TypeInv, JobsNamed, DesiredPcs
    <3>3. /\ \A j \in Jobs \ {run.job} : jobs'[j] = jobs[j]
          /\ jobs'[run.job].state = "cleaning"
          /\ jobs'[run.job].cleanupError
          /\ jobs'[run.job].pendingState = run.desired
          /\ device'.quarantined
      BY <1>1, <3>1, <3>2 DEF Quarantine, Row
    <3>4. \A j \in Jobs : Active(j)' => j = run.job
      BY <3>1, <3>3 DEF LeaseInv, HoldInv, Active
    <3>5. UnderReview(run.job)'
      BY <1>24, <3>3 DEF UnderReview, Settle
    <3>6. RowsInv'
      BY <3>2, <3>3 DEF LeaseInv, RowsInv
    <3>7. run' = run
      BY <1>24 DEF Settle
    <3>. QED BY <3>1, <3>2, <3>3, <3>4, <3>5, <3>6, <3>7
         DEF LeaseInv, QuarantineInv, OneActiveJob, SettledInv, HoldInv, FinishInv
  <2>. QED BY <2>1, <2>2
<1>25. ASSUME EnterTerminal PROVE LeaseInv'
  <2>1. pc = "change" /\ pc' = "release" /\ Change(run.job, run.desired)
    BY <1>25 DEF EnterTerminal
  <2>2. run.job \in Jobs /\ jobs[run.job].state = "cleaning" /\ ~jobs[run.job].cleanupError
    BY <2>1 DEF LeaseInv, FinishInv, HoldInv, QuarantineInv, UnderReview
  <2>3. run.desired \in TerminalStates
    BY <2>1, <2>2 DEF Change, CanTransition, Terminal
  <2>4. /\ \A j \in Jobs \ {run.job} : jobs'[j] = jobs[j]
        /\ jobs'[run.job].state = run.desired
        /\ ~jobs'[run.job].cleanupError
        /\ UNCHANGED device
    BY <1>1, <2>1, <2>2 DEF Change, Row
  <2>5. \A j \in Jobs : ~Active(j)' /\ ~UnderReview(j)'
    BY <2>1, <2>3, <2>4 DEF LeaseInv, HoldInv, Active, UnderReview, ActiveStates, TerminalStates
  <2>6. RowsInv'
    BY <2>2, <2>3, <2>4 DEF LeaseInv, RowsInv, TerminalStates
  <2>. QED BY <2>1, <2>2, <2>4, <2>5, <2>6
       DEF LeaseInv, QuarantineInv, OneActiveJob, SettledInv, HoldInv, FinishInv
<1>26. ASSUME ReleaseLease PROVE LeaseInv'
  <2>1. pc \in {"release", "abort"} /\ pc' \in {"poll", "failed"} /\ UNCHANGED jobs
    BY <1>26 DEF ReleaseLease, Release
  <2>2. pc' = "poll" => pc = "release"
    BY <1>26 DEF ReleaseLease
  <2>3. device'.quarantined = device.quarantined
    BY <1>26, <1>1 DEF ReleaseLease, Release, Device
  <2>. QED BY <2>1, <2>2, <2>3
       DEF LeaseInv, RowsInv, QuarantineInv, OneActiveJob, SettledInv, HoldInv, FinishInv, Active,
           UnderReview
<1>. QED BY <1>2, <1>3, <1>4, <1>5, <1>6, <1>7, <1>8, <1>9, <1>10, <1>11, <1>12, <1>13, <1>14, <1>15, <1>16, <1>17, <1>18, <1>19, <1>20, <1>21, <1>22, <1>23, <1>24, <1>25, <1>26 DEF RunStep

\* Startup, the scheduler's loop and the process.
LEMMA LeaseMain ==
  ASSUME TypeInv, LeaseInv,
         \/ RecoverStep
         \/ Start \/ Serve \/ Poll \/ PollExpired \/ ClaimNothing \/ SchedulerFails
         \/ Stop \/ Shutdown \/ Exit \/ Crash \/ StartupFails
         \/ \E j \in Jobs : ClaimJob(j)
  PROVE  LeaseInv'
<1>. USE TypeFacts DEF HoldPcs, RunPcs, AttemptPcs, FinishPcs, SettledPcs, storeVars
<1>1. jobs \in [Jobs -> Row] /\ device \in Device
  BY DEF StoreTypeOK
<1>2. ASSUME RecoverJobs PROVE LeaseInv'
  <2>1. Recover /\ pc' = "reconcile"
    BY <1>2 DEF RecoverJobs
  <2>2. ASSUME NEW j \in Jobs
        PROVE  /\ Active(j) => UnderReview(j)' /\ jobs'[j].pendingState \in TerminalStates
               /\ ~Active(j) => jobs'[j] = jobs[j]
    <3>1. CASE Active(j) /\ ~UnderReview(j)
      <4>1. jobs'[j] = RecoveredRow(jobs[j])
        BY <2>1, <3>1 DEF Recover
      <4>. QED BY <1>1, <3>1, <4>1 DEF RecoveredRow, Row, UnderReview, Terminal, TerminalStates
    <3>2. CASE ~Active(j) \/ UnderReview(j)
      BY <2>1, <3>2 DEF Recover, LeaseInv, RowsInv, UnderReview
    <3>. QED BY <3>1, <3>2
  <2>3. \A j \in Jobs : (Active(j)' <=> Active(j)) /\ (UnderReview(j)' <=> Active(j))
    BY <2>2 DEF Active, UnderReview, ActiveStates
  <2>4. device'.quarantined <=> \E j \in Jobs : Active(j)
    BY <2>1 DEF Recover, LeaseInv, QuarantineInv, UnderReview, Active, ActiveStates
  <2>5. RowsInv'
    BY <2>2 DEF LeaseInv, RowsInv, UnderReview, Active, ActiveStates
  <2>. QED BY <2>1, <2>3, <2>4, <2>5
       DEF LeaseInv, QuarantineInv, OneActiveJob, SettledInv, HoldInv, FinishInv
<1>3. ASSUME Reconcile \/ RecoverExpired PROVE LeaseInv'
  BY <1>3, QuietStep DEF Reconcile, RecoverExpired
<1>4. ASSUME NEW j \in Jobs, RecoverDevice(j) PROVE LeaseInv'
  <2>1. pc' = pc /\ run' = run /\ (Resolve(j) \/ UNCHANGED <<jobs, device>>)
    BY <1>4 DEF RecoverDevice
  <2>. QED BY <2>1, ResolveStep, QuietStep
<1>5. ASSUME NEW j \in Jobs, RecoverDeviceFails(j) PROVE LeaseInv'
  BY <1>5, QuietStep DEF RecoverDeviceFails
<1>6. ASSUME Start \/ Serve \/ Poll \/ PollExpired \/ ClaimNothing \/ SchedulerFails
      PROVE LeaseInv'
  BY <1>6, QuietStep DEF Start, Serve, Poll, PollExpired, ClaimNothing, SchedulerFails
<1>7. ASSUME Stop \/ Shutdown PROVE LeaseInv'
  BY <1>7, QuietStep DEF Stop, Shutdown, procVars
<1>8. ASSUME Exit \/ Crash \/ StartupFails PROVE LeaseInv'
  <2>1. ProcessEnds
    BY <1>8 DEF Exit, Crash, StartupFails
  <2>. QED BY <2>1, QuietStep DEF ProcessEnds
<1>9. ASSUME NEW j \in Jobs, ClaimJob(j) PROVE LeaseInv'
  <2>1. pc = "claim" /\ Claim(j) /\ pc' \in {"begin", "workspace"} /\ run'.job = j
    BY <1>9 DEF ClaimJob, Idle
  <2>2. ~device.quarantined /\ jobs[j].state = "queued"
    BY <2>1 DEF Claim, Claimable
  <2>3. \A k \in Jobs : ~UnderReview(k) /\ ~Active(k)
    BY <2>1, <2>2 DEF LeaseInv, QuarantineInv, SettledInv
  <2>4. ~jobs[j].cleanupError
    BY <2>2 DEF LeaseInv, RowsInv
  <2>5. /\ \A k \in Jobs \ {j} : jobs'[k] = jobs[k]
        /\ jobs'[j].state = "running"
        /\ jobs'[j].cleanupError = jobs[j].cleanupError
    BY <2>1, <1>1 DEF Claim, Row
  <2>6. device'.owner = j /\ ~device'.quarantined
    BY <2>1, <2>2, <1>1 DEF Claim, Device
  <2>7. \A k \in Jobs : (Active(k)' => k = j) /\ ~UnderReview(k)'
    BY <2>3, <2>4, <2>5 DEF Active, UnderReview
  <2>8. RowsInv'
    BY <2>4, <2>5 DEF LeaseInv, RowsInv
  <2>. QED BY <2>1, <2>6, <2>7, <2>8
       DEF LeaseInv, QuarantineInv, OneActiveJob, SettledInv, HoldInv, FinishInv
<1>. QED BY <1>2, <1>3, <1>4, <1>5, <1>6, <1>7, <1>8, <1>9 DEF RecoverStep

\* Everything that runs beside the scheduler's goroutine.
LEMMA LeaseOthers ==
  ASSUME TypeInv, LeaseInv,
         \/ MonitorCancels \/ MonitorFails \/ JobDeadline
         \/ \E p \in Callers : ExpireStep(p)
         \/ UploadAccepted \/ UploadRefused
         \/ \E c \in Confirmers : ConfirmRemoves(c) \/ ConfirmExpired(c) \/ ConfirmResolves(c)
         \/ \E j \in Jobs : Request(j) \/ OperatorCleans(j) \/ RetentionElapses(j)
  PROVE  LeaseInv'
<1>. USE TypeFacts DEF storeVars, procVars
<1>1. jobs \in [Jobs -> Row] /\ device \in Device
  BY DEF StoreTypeOK
<1>2. ASSUME UNCHANGED <<pc, jobs, device>>, run'.job = run.job PROVE LeaseInv'
  BY <1>2, QuietStep
<1>3. ASSUME UNCHANGED <<pc, run, device>>,
             \A j \in Jobs : /\ jobs'[j].state = jobs[j].state
                             /\ jobs'[j].cleanupError = jobs[j].cleanupError
                             /\ jobs'[j].pendingState \in {jobs[j].pendingState, "failed"}
      PROVE  LeaseInv'
  BY <1>3, ColumnStep DEF FinishPcs, RunPcs
<1>4. ASSUME NEW j \in Jobs, Enqueue(j), UNCHANGED <<pc, run>> PROVE LeaseInv'
  <2>1. /\ \A k \in Jobs \ {j} : jobs'[k] = jobs[k]
        /\ jobs[j].state = "absent"
        /\ jobs'[j].state = "queued"
        /\ ~jobs'[j].cleanupError
        /\ UNCHANGED device
    BY <1>1, <1>4 DEF Enqueue, NoRow
  <2>2. \A k \in Jobs : (Active(k)' <=> Active(k)) /\ (UnderReview(k)' <=> UnderReview(k))
    BY <2>1 DEF Active, UnderReview, ActiveStates
  <2>3. RowsInv' /\ FinishInv'
    BY <1>4, <2>1 DEF LeaseInv, RowsInv, FinishInv, FinishPcs, RunPcs
  <2>. QED BY <1>4, <2>1, <2>2, <2>3
       DEF LeaseInv, QuarantineInv, OneActiveJob, SettledInv, HoldInv
<1>5. ASSUME MonitorCancels \/ MonitorFails \/ JobDeadline PROVE LeaseInv'
  BY <1>2, <1>5 DEF MonitorCancels, MonitorFails, JobDeadline, Run
<1>6. ASSUME NEW p \in Callers, NEW j \in Jobs, ExpireSkip(p, j) \/ ExpireRemove(p, j)
      PROVE LeaseInv'
  BY <1>2, <1>6 DEF ExpireSkip, ExpireRemove
<1>7. ASSUME NEW p \in Callers, ExpireMark(p) PROVE LeaseInv'
  <2>1. \A j \in Jobs : /\ jobs'[j].state = jobs[j].state
                        /\ jobs'[j].cleanupError = jobs[j].cleanupError
                        /\ jobs'[j].pendingState \in {jobs[j].pendingState, "failed"}
    BY <1>1, <1>7 DEF ExpireMark, RecordExpired, Row
  <2>. QED BY <1>3, <1>7, <2>1 DEF ExpireMark, RecordExpired
<1>8. ASSUME UploadAccepted \/ UploadRefused PROVE LeaseInv'
  <2>1. UploadAccepted => uploading \in Jobs
    BY DEF UploadAccepted, TypeInv, TypeOK
  <2>. QED BY <1>2, <1>4, <1>8, <2>1 DEF UploadAccepted, UploadRefused
<1>9. ASSUME NEW c \in Confirmers, ConfirmRemoves(c) \/ ConfirmExpired(c) PROVE LeaseInv'
  BY <1>2, <1>9 DEF ConfirmRemoves, ConfirmExpired
<1>10. ASSUME NEW c \in Confirmers, ConfirmResolves(c) PROVE LeaseInv'
  <2>1. confirm[c].job \in Jobs
    BY <1>10 DEF ConfirmResolves, TypeInv, JobsNamed
  <2>. QED BY <1>2, <1>10, <2>1, ResolveStep DEF ConfirmResolves
<1>11. ASSUME NEW j \in Jobs, Request(j) PROVE LeaseInv'
  <2>1. CASE EnqueueRequest(j)
    BY <1>4, <2>1 DEF EnqueueRequest
  <2>2. CASE CancelRequest(j)
    <3>1. \A k \in Jobs : /\ jobs'[k].state = jobs[k].state
                          /\ jobs'[k].cleanupError = jobs[k].cleanupError
                          /\ jobs'[k].pendingState = jobs[k].pendingState
      BY <1>1, <2>2 DEF CancelRequest, Cancel, Row
    <3>. QED BY <1>3, <2>2, <3>1 DEF CancelRequest, Cancel
  <2>3. CASE UploadBegins(j) \/ \E c \in Confirmers : ConfirmBegins(c, j)
    BY <1>2, <2>3 DEF UploadBegins, ConfirmBegins
  <2>. QED BY <1>11, <2>1, <2>2, <2>3 DEF Request
<1>12. ASSUME NEW j \in Jobs, OperatorCleans(j) PROVE LeaseInv'
  BY <1>2, <1>12 DEF OperatorCleans
<1>13. ASSUME NEW j \in Jobs, RetentionElapses(j) PROVE LeaseInv'
  <2>1. \A k \in Jobs : /\ jobs'[k].state = jobs[k].state
                        /\ jobs'[k].cleanupError = jobs[k].cleanupError
                        /\ jobs'[k].pendingState = jobs[k].pendingState
    BY <1>1, <1>13 DEF RetentionElapses, Row
  <2>. QED BY <1>3, <1>13, <2>1 DEF RetentionElapses
<1>. QED
  BY <1>5, <1>6, <1>7, <1>8, <1>9, <1>10, <1>11, <1>12, <1>13 DEF ExpireStep

\* Before the first job nobody holds or needs the lease.
LEMMA LeaseInit == Init => LeaseInv
BY DEF Init, WorkerInit, StoreInit, NoRow, LeaseInv, RowsInv, QuarantineInv, OneActiveJob,
       SettledInv, HoldInv, FinishInv, Active, ActiveStates, UnderReview, SettledPcs, HoldPcs,
       RunPcs, AttemptPcs, FinishPcs

\* Every action keeps the lease with the job that is active.
LEMMA LeaseInvStep == TypeInv /\ LeaseInv /\ [Next]_vars => LeaseInv'
<1>. SUFFICES ASSUME TypeInv, LeaseInv, [Next]_vars PROVE LeaseInv'
  OBVIOUS
<1>1. CASE UNCHANGED vars
  BY <1>1, QuietStep DEF vars, storeVars, procVars
<1>2. CASE MainStep
  BY <1>2, LeaseRun, LeaseMain, LeaseOthers DEF MainStep, Callers
<1>3. CASE \E c \in Confirmers : ConfirmStep(c)
  BY <1>3, LeaseOthers DEF ConfirmStep, Callers
<1>. QED
  BY <1>1, <1>2, <1>3, LeaseMain, LeaseOthers DEF Next

(* The device serves one job at a time: while a job is running, verifying or     *)
(* cleaning, through crashes, recoveries and confirmations, no other job is.     *)
THEOREM DeviceServesOneJob == Spec => []OneActiveJob
<1>1. LeaseInv => OneActiveJob
  BY DEF LeaseInv
<1>. QED
  BY <1>1, TypeInvInit, TypeInvStep, LeaseInit, LeaseInvStep, PTL DEF Spec

(* A run keeps the persisted lease and an open device row from its claim to its   *)
(* deferred Release: no confirmation in flight and no recovery takes it away.     *)
THEOREM RunKeepsLease == Spec => []LeaseCoversRun
<1>1. TypeInv /\ LeaseInv => LeaseCoversRun
  <2>. SUFFICES ASSUME TypeInv, LeaseInv, run.job # NoJob, pc \notin {"release", "abort"}
                PROVE  device = [owner |-> run.job, quarantined |-> FALSE]
    BY DEF LeaseCoversRun
  <2>1. pc \in HoldPcs
    BY DEF TypeInv, JobsNamed, Idle, HoldPcs
  <2>2. device \in Device /\ device.owner = run.job /\ device.quarantined = FALSE
    BY <2>1 DEF LeaseInv, HoldInv, TypeInv, TypeOK, WorkerTypeOK, StoreTypeOK, Device
  <2>. QED BY <2>2 DEF Device
<1>. QED
  BY <1>1, TypeInvInit, TypeInvStep, LeaseInit, LeaseInvStep, PTL DEF Spec

(* The device row is quarantined exactly while some job waits for a confirmation, *)
(* and the confirmation of such a job is never refused: a quarantine is neither   *)
(* lifted early nor left behind without a job to resolve it.                      *)
THEOREM QuarantineIsResolvable == Spec => []QuarantineHasReview
<1>1. LeaseInv => QuarantineHasReview
  BY DEF LeaseInv, QuarantineInv, RowsInv, QuarantineHasReview, Resolvable, UnderReview, Terminal
<1>. QED
  BY <1>1, TypeInvInit, TypeInvStep, LeaseInit, LeaseInvStep, PTL DEF Spec
===============================================================================
