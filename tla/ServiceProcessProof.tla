-------------------------- MODULE ServiceProcessProof --------------------------
(***************************************************************************)
(* The life of the process, for any number of processes and starts.        *)
(*                                                                         *)
(* None of the three properties is inductive.  Whatever a process does to  *)
(* the data directory it does between taking the lock and the end of its   *)
(* life, so the invariant ties every piece of a process to the stages it   *)
(* can be met in; and an error of the worker is followed from its          *)
(* goroutine, through workerDone and err, to the exit status.              *)
(***************************************************************************)
EXTENDS ServiceProcess, TLAPS

\* The stages in which the database is open.
StoreStages == {"recover", "serve", "shutdown", "join", "close-store"}

StageInv(r) ==
  /\ r.store <=> r.at \in StoreStages
  /\ r.listening => r.at = "serve"
  /\ r.handlers => r.at \in {"serve", "shutdown"}
  /\ r.worker # "off" => r.at \in {"serve", "shutdown", "join"}

\* Where an error of the worker is.
ErrorInv(r) ==
  r.broken => IF r.at = "down" THEN r.status = "error" ELSE r.failed \/ r.worker = "done"

LockInv == \A p \in Processes : proc[p].at # "down" => lock = p

ProcessInv ==
  /\ TypeOK
  /\ LockInv
  /\ \A p \in Processes : StageInv(proc[p]) /\ ErrorInv(proc[p])

\* At first no process runs and nobody holds the lock.
LEMMA ProcessInit == Init => ProcessInv
<1>1. Idle \in Process /\ StageInv(Idle) /\ ErrorInv(Idle)
  BY DEF Idle, Process, StageInv, ErrorInv, StoreStages
<1>. QED BY <1>1, MaxStartsAssumption DEF Init, ProcessInv, TypeOK, LockInv, Idle

\* A process that keeps its lock, or gives up a lock it holds with its life.
LEMMA ProcessMoves ==
  ASSUME ProcessInv, NEW p \in Processes, NEW r \in Process,
         proc' = [proc EXCEPT ![p] = r], UNCHANGED starts,
         StageInv(r), ErrorInv(r),
         \/ lock' = lock /\ (r.at # "down" => proc[p].at # "down")
         \/ lock' = (IF lock = p THEN None ELSE lock) /\ r.at = "down"
  PROVE  ProcessInv'
<1>1. TypeOK'
  BY DEF ProcessInv, TypeOK
<1>2. proc'[p] = r /\ \A q \in Processes \ {p} : proc'[q] = proc[q]
  BY DEF ProcessInv, TypeOK
<1>3. LockInv'
  BY <1>2 DEF ProcessInv, LockInv
<1>. QED BY <1>1, <1>2, <1>3 DEF ProcessInv

\* The end of a process by any cause, with a status that tells of an error of its worker.
LEMMA ProcessGone ==
  ASSUME ProcessInv, NEW p \in Processes, NEW code \in {"ok", "error"}, Gone(p, code),
         proc[p].broken => code = "error"
  PROVE  ProcessInv'
<1>. DEFINE r == [Idle EXCEPT !.status = code, !.broken = proc[p].broken]
<1>1. proc[p].broken \in BOOLEAN
  BY DEF ProcessInv, TypeOK, Process
<1>2. r \in Process /\ StageInv(r) /\ ErrorInv(r) /\ r.at = "down"
  BY <1>1 DEF Idle, Process, StageInv, ErrorInv, StoreStages
<1>. QED BY <1>2, ProcessMoves DEF Gone

\* Every step of every process keeps stages, lock and errors as they should be.
LEMMA ProcessStep == ProcessInv /\ [Next]_vars => ProcessInv'
<1>. SUFFICES ASSUME ProcessInv, [Next]_vars PROVE ProcessInv'
  OBVIOUS
<1>1. CASE UNCHANGED vars
  BY <1>1 DEF vars, ProcessInv, TypeOK, LockInv
<1>2. ASSUME NEW p \in Processes, NEW r \in Process, Becomes(p, r), StageInv(r), ErrorInv(r),
             r.at # "down" => proc[p].at # "down"
      PROVE  ProcessInv'
  BY <1>2, ProcessMoves DEF Becomes
<1>3. ASSUME NEW p \in Processes
      PROVE  /\ proc[p] \in Process /\ StageInv(proc[p]) /\ ErrorInv(proc[p])
  BY DEF ProcessInv, TypeOK
<1>. USE DEF Process, StageInv, ErrorInv, StoreStages
<1>4. ASSUME NEW p \in Processes, Open(p) PROVE ProcessInv'
  <2>1. [starts EXCEPT ![p] = @ + 1] \in [Processes -> 0 .. MaxStarts]
    BY <1>4, MaxStartsAssumption DEF Open, ProcessInv, TypeOK
  <2>2. CASE lock = None
    <3>. DEFINE r == [Idle EXCEPT !.at = "open"]
    <3>1. r \in Process /\ StageInv(r) /\ ErrorInv(r)
      BY DEF Idle
    <3>2. lock' = p /\ proc' = [proc EXCEPT ![p] = r]
      BY <1>4, <2>2 DEF Open
    <3>. HIDE DEF r
    <3>3. proc'[p] = r /\ \A q \in Processes \ {p} : proc'[q] = proc[q] /\ proc[q].at = "down"
      BY <2>2, <3>2, NoneAssumption DEF ProcessInv, TypeOK, LockInv
    <3>4. TypeOK'
      BY <1>4, <2>1, <3>1, <3>2 DEF Open, ProcessInv, TypeOK
    <3>5. LockInv'
      BY <3>2, <3>3 DEF LockInv
    <3>6. \A q \in Processes : StageInv(proc'[q]) /\ ErrorInv(proc'[q])
      BY <1>3, <3>1, <3>3
    <3>. QED BY <3>4, <3>5, <3>6 DEF ProcessInv
  <2>3. CASE lock # None
    <3>. DEFINE r == [Idle EXCEPT !.status = "error"]
    <3>1. r \in Process /\ StageInv(r) /\ ErrorInv(r) /\ r.at = "down"
      BY DEF Idle
    <3>2. lock' = lock /\ proc' = [proc EXCEPT ![p] = r]
      BY <1>4, <2>3 DEF Open
    <3>. HIDE DEF r
    <3>3. proc'[p] = r /\ \A q \in Processes \ {p} : proc'[q] = proc[q]
      BY <3>2 DEF ProcessInv, TypeOK
    <3>4. TypeOK'
      BY <1>4, <2>1, <3>1, <3>2 DEF Open, ProcessInv, TypeOK
    <3>5. LockInv'
      BY <3>1, <3>2, <3>3 DEF ProcessInv, LockInv
    <3>6. \A q \in Processes : StageInv(proc'[q]) /\ ErrorInv(proc'[q])
      BY <1>3, <3>1, <3>3
    <3>. QED BY <3>4, <3>5, <3>6 DEF ProcessInv
  <2>. QED BY <2>2, <2>3
<1>5. ASSUME NEW p \in Processes, OpenStore(p) \/ StartupFails(p) \/ Serve(p) PROVE ProcessInv'
  <2>1. CASE OpenStore(p)
    BY <1>2, <1>3, <2>1 DEF OpenStore
  <2>2. CASE StartupFails(p)
    BY <1>2, <1>3, <2>2 DEF StartupFails
  <2>3. CASE Serve(p)
    BY <1>2, <1>3, <2>3 DEF Serve
  <2>. QED BY <1>5, <2>1, <2>2, <2>3
<1>6. ASSUME NEW p \in Processes, HandlerBegins(p) \/ HandlerEnds(p) \/ Signal(p) PROVE ProcessInv'
  <2>1. CASE HandlerBegins(p)
    BY <1>2, <1>3, <2>1 DEF HandlerBegins
  <2>2. CASE HandlerEnds(p)
    <3>. DEFINE r == [proc[p] EXCEPT !.handlers = FALSE]
    <3>1. r \in Process /\ r.at = proc[p].at /\ r.at # "down"
      BY <1>3, <2>2 DEF HandlerEnds
    <3>2. StageInv(r) /\ ErrorInv(r)
      BY <1>3
    <3>3. Becomes(p, r)
      BY <2>2 DEF HandlerEnds
    <3>. QED BY <1>2, <3>1, <3>2, <3>3
  <2>3. CASE Signal(p)
    BY <1>2, <1>3, <2>3 DEF Signal
  <2>. QED BY <1>6, <2>1, <2>2, <2>3
<1>7. ASSUME NEW p \in Processes, WorkerStep(p) PROVE ProcessInv'
  <2>1. CASE /\ proc[p].worker = "idle"
             /\ Becomes(p, [proc[p] EXCEPT !.worker = IF proc[p].ctxDone THEN "done" ELSE "busy"])
    BY <1>2, <1>3, <2>1
  <2>2. CASE proc[p].worker = "busy" /\ Becomes(p, [proc[p] EXCEPT !.worker = "idle"])
    BY <1>2, <1>3, <2>2
  <2>3. CASE /\ proc[p].worker \in {"idle", "busy"}
             /\ Becomes(p, [proc[p] EXCEPT !.worker = "done", !.broken = TRUE])
    BY <1>2, <1>3, <2>3
  <2>. QED BY <1>7, <2>1, <2>2, <2>3 DEF WorkerStep
<1>8. ASSUME NEW p \in Processes, Stopped(p) \/ ServerFails(p) PROVE ProcessInv'
  <2>1. CASE proc[p].at = "serve" /\ Becomes(p, ToShutdown(proc[p]))
    BY <1>2, <1>3, <2>1 DEF ToShutdown
  <2>2. CASE /\ proc[p].at = "serve" /\ proc[p].worker = "done"
             /\ Becomes(p, ToShutdown([proc[p] EXCEPT !.worker = "off", !.failed = proc[p].broken]))
    <3>. DEFINE r == ToShutdown([proc[p] EXCEPT !.worker = "off", !.failed = proc[p].broken])
    <3>1. r \in Process
      BY <1>3, <2>2 DEF ToShutdown
    <3>2. /\ r.at = "shutdown" /\ ~r.listening /\ r.worker = "off" /\ r.failed = proc[p].broken
          /\ r.store = proc[p].store /\ r.broken = proc[p].broken
      BY <1>3, <2>2 DEF ToShutdown
    <3>3. Becomes(p, r)
      BY <2>2
    <3>. HIDE DEF r
    <3>4. StageInv(r) /\ ErrorInv(r)
      BY <1>3, <2>2, <3>2
    <3>. QED BY <1>2, <2>2, <3>1, <3>2, <3>3, <3>4
  <2>3. CASE proc[p].at = "serve" /\ Becomes(p, ToShutdown([proc[p] EXCEPT !.failed = TRUE]))
    BY <1>2, <1>3, <2>3 DEF ToShutdown
  <2>. QED BY <1>8, <2>1, <2>2, <2>3 DEF Stopped, ServerFails
<1>9. ASSUME NEW p \in Processes, DeadlinePasses(p) PROVE ProcessInv'
  BY <1>2, <1>3, <1>9 DEF DeadlinePasses
<1>10. ASSUME NEW p \in Processes, ShutdownServer(p) PROVE ProcessInv'
  <2>1. CASE /\ proc[p].at = "shutdown" /\ ~proc[p].handlers
             /\ Becomes(p, [proc[p] EXCEPT !.at = "join"])
    BY <1>2, <1>3, <2>1
  <2>2. CASE Gone(p, "error")
    BY <2>2, ProcessGone
  <2>. QED BY <1>10, <2>1, <2>2 DEF ShutdownServer
<1>11. ASSUME NEW p \in Processes, JoinWorker(p) PROVE ProcessInv'
  <2>1. CASE /\ proc[p].at = "join" /\ proc[p].worker \in {"done", "off"}
             /\ Becomes(p, [proc[p] EXCEPT !.at = "close-store", !.worker = "off",
                                           !.failed = Joined(proc[p])])
    <3>1. Joined(proc[p]) \in BOOLEAN /\ (proc[p].broken => Joined(proc[p]))
      BY <1>3, <2>1 DEF Joined
    <3>. QED BY <1>2, <1>3, <2>1, <3>1
  <2>2. CASE Gone(p, "error")
    BY <2>2, ProcessGone
  <2>. QED BY <1>11, <2>1, <2>2 DEF JoinWorker, Overdue
<1>12. ASSUME NEW p \in Processes, CloseStore(p) PROVE ProcessInv'
  BY <1>2, <1>3, <1>12 DEF CloseStore
<1>13. ASSUME NEW p \in Processes, CloseFiles(p) PROVE ProcessInv'
  <2>1. proc[p].broken => proc[p].failed
    BY <1>3, <1>13 DEF CloseFiles
  <2>. QED BY <1>13, <2>1, ProcessGone DEF CloseFiles
<1>14. ASSUME NEW p \in Processes, Kill(p) PROVE ProcessInv'
  BY <1>14, ProcessGone DEF Kill
<1>. QED
  BY <1>1, <1>4, <1>5, <1>6, <1>7, <1>8, <1>9, <1>10, <1>11, <1>12, <1>13, <1>14 DEF Next, MainStep

\* What a process holds at each stage of run(), who has the flock, and where an error of the
\* worker is, through startups, shutdowns, deadlines and kills in any order.
THEOREM ProcessInvariant == Spec => []ProcessInv
BY ProcessInit, ProcessStep, PTL DEF Spec

\* The flock of storage.Open keeps a second process off the data directory, and a process
\* gives it up only with the last of its work, through every way run() can end.
THEOREM DataHasOneUser == Spec => []OneProcessUsesData
<1>1. ProcessInv => OneProcessUsesData
  <2>. SUFFICES ASSUME ProcessInv, NEW p \in Processes,
                       proc[p].at \in {"open", "recover"} \/ proc[p].store \/ Works(proc[p])
                PROVE  lock = p
    BY DEF OneProcessUsesData
  <2>1. StageInv(proc[p])
    BY DEF ProcessInv
  <2>2. proc[p].at # "down"
    BY <2>1 DEF StageInv, StoreStages, Works
  <2>. QED BY <2>2 DEF ProcessInv, LockInv
<1>. QED BY <1>1, ProcessInvariant, PTL

\* main.go's "Never close the lease/database while a library operation may still run".
THEOREM StoreOutlivesAllWork == Spec => []StoreOutlivesWork
<1>1. ProcessInv => StoreOutlivesWork
  BY DEF ProcessInv, StageInv, StoreStages, StoreOutlivesWork, Works
<1>. QED BY <1>1, ProcessInvariant, PTL

\* An error of the worker reaches the exit status of the process, whichever case of the
\* select in run() comes first.
THEOREM FailuresAreReported == Spec => []FailureReported
<1>1. ProcessInv => FailureReported
  BY DEF ProcessInv, ErrorInv, FailureReported
<1>. QED BY <1>1, ProcessInvariant, PTL
===============================================================================
