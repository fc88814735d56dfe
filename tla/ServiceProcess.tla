---------------------------- MODULE ServiceProcess ----------------------------
(***************************************************************************)
(* The life of the process (cmd/ipa-now): opening the data directory under *)
(* its lock, recovery, serving, and the shutdown that waits for handlers   *)
(* and worker at most until its deadline.  Several processes may be        *)
(* started on one data directory, by a supervisor or by hand, and a        *)
(* library call or a handler may never return.                             *)
(*                                                                         *)
(* Module Service has one process at a time and takes the whole shutdown   *)
(* for one step; what entitles it to is checked here.                      *)
(***************************************************************************)
EXTENDS Naturals

CONSTANTS
  Processes,
  None,
  MaxStarts     \* bound: starts of each process

ASSUME NoneAssumption == None \notin Processes
ASSUME MaxStartsAssumption == MaxStarts \in Nat

VARIABLES
  lock,         \* the process whose open file holds the flock of service.lock
  proc,         \* the processes, as in Process below
  starts        \* starts so far

vars == <<lock, proc, starts>>

Process ==
  [at : {"down", "open", "recover", "serve", "shutdown", "join", "close-store", "close-files"},
   store : BOOLEAN,       \* the job database is open
   worker : {"off", "idle", "busy", "done"},
                          \* the scheduler's goroutine: "done" once its result is in
                          \* workerDone, "off" again when run() has received it
   handlers : BOOLEAN,    \* a handler is active
   ctxDone : BOOLEAN,     \* the signal context is done
   listening : BOOLEAN,   \* the server accepts requests
   late : BOOLEAN,        \* the shutdown deadline has passed
   failed : BOOLEAN,      \* err: what run() has collected
   broken : BOOLEAN,      \* the worker returned an error (history)
   status : {"none", "ok", "error"}]   \* the exit status of the last life

TypeOK ==
  /\ lock \in Processes \cup {None}
  /\ proc \in [Processes -> Process]
  /\ starts \in [Processes -> 0 .. MaxStarts]

Idle ==
  [at |-> "down", store |-> FALSE, worker |-> "off", handlers |-> FALSE, ctxDone |-> FALSE,
   listening |-> FALSE, late |-> FALSE, failed |-> FALSE, broken |-> FALSE, status |-> "none"]

Init ==
  /\ lock = None
  /\ proc = [p \in Processes |-> Idle]
  /\ starts = [p \in Processes |-> 0]

------------------------------------------------------------------------------

\* The process becomes r; locks and starts stay as they are.
Becomes(p, r) == proc' = [proc EXCEPT ![p] = r] /\ UNCHANGED <<lock, starts>>

\* The process is gone, with its goroutines and its open files.
Gone(p, code) ==
  /\ proc' = [proc EXCEPT ![p] = [Idle EXCEPT !.status = code, !.broken = proc[p].broken]]
  /\ lock' = IF lock = p THEN None ELSE lock
  /\ UNCHANGED starts

\* storage.Open: a private directory, then the lock without waiting.
Open(p) ==
  /\ proc[p].at = "down" /\ starts[p] < MaxStarts
  /\ starts' = [starts EXCEPT ![p] = @ + 1]
  /\ IF lock = None
     THEN lock' = p /\ proc' = [proc EXCEPT ![p] = [Idle EXCEPT !.at = "open"]]
     ELSE proc' = [proc EXCEPT ![p] = [Idle EXCEPT !.status = "error"]] /\ UNCHANGED lock

\* jobs.Open and the account; then Worker.Recover writes rows and files.
OpenStore(p) ==
  /\ proc[p].at = "open"
  /\ Becomes(p, [proc[p] EXCEPT !.at = "recover", !.store = TRUE])

\* A step of the startup fails, up to net.Listen: the deferred closes run.
StartupFails(p) ==
  /\ proc[p].at \in {"open", "recover"}
  /\ Becomes(p, [proc[p] EXCEPT !.at = IF @ = "recover" THEN "close-store" ELSE "close-files",
                                !.failed = TRUE])

Serve(p) ==
  /\ proc[p].at = "recover"
  /\ Becomes(p, [proc[p] EXCEPT !.at = "serve", !.worker = "idle", !.listening = TRUE])

------------------------------------------------------------------------------
(* The other goroutines.                                                     *)

HandlerBegins(p) ==
  /\ proc[p].listening /\ ~proc[p].handlers
  /\ Becomes(p, [proc[p] EXCEPT !.handlers = TRUE])

HandlerEnds(p) ==
  /\ proc[p].handlers
  /\ Becomes(p, [proc[p] EXCEPT !.handlers = FALSE])

\* scheduler.Run: jobs while the context lasts; a failed store or run ends it.
WorkerStep(p) ==
  \/ /\ proc[p].worker = "idle"
     /\ Becomes(p, [proc[p] EXCEPT !.worker = IF proc[p].ctxDone THEN "done" ELSE "busy"])
  \/ /\ proc[p].worker = "busy"
     /\ Becomes(p, [proc[p] EXCEPT !.worker = "idle"])
  \/ /\ proc[p].worker \in {"idle", "busy"}
     /\ Becomes(p, [proc[p] EXCEPT !.worker = "done", !.broken = TRUE])

Signal(p) ==
  /\ proc[p].at = "serve" /\ ~proc[p].ctxDone
  /\ Becomes(p, [proc[p] EXCEPT !.ctxDone = TRUE])

------------------------------------------------------------------------------
(* The select of run() and the shutdown.                                     *)

ToShutdown(r) == [r EXCEPT !.at = "shutdown", !.ctxDone = TRUE, !.listening = FALSE]

\* ctx.Done, or workerDone with the worker's result and stop().
Stopped(p) ==
  /\ proc[p].at = "serve"
  /\ \/ /\ proc[p].ctxDone
        /\ Becomes(p, ToShutdown(proc[p]))
     \/ /\ proc[p].worker = "done"
        /\ Becomes(p, ToShutdown([proc[p] EXCEPT !.worker = "off", !.failed = proc[p].broken]))

\* serverDone with the error of Serve, and stop().
ServerFails(p) ==
  /\ proc[p].at = "serve"
  /\ Becomes(p, ToShutdown([proc[p] EXCEPT !.failed = TRUE]))

\* Mutant: the shutdown has no deadline.
DeadlinePasses_Never(p) == FALSE /\ UNCHANGED vars

DeadlinePasses(p) ==
  /\ proc[p].at \in {"shutdown", "join"} /\ ~proc[p].late
  /\ Becomes(p, [proc[p] EXCEPT !.late = TRUE])

\* srv.Shutdown: no handler is left, or os.Exit at the deadline.
ShutdownServer(p) ==
  /\ proc[p].at = "shutdown"
  /\ \/ ~proc[p].handlers /\ Becomes(p, [proc[p] EXCEPT !.at = "join"])
     \/ proc[p].late /\ Gone(p, "error")

\* Mutant: the deadline returns from run instead of ending the process.
Overdue_Returns(p) == Becomes(p, [proc[p] EXCEPT !.at = "close-store", !.failed = TRUE])

\* The worker has not returned at the deadline: os.Exit.
Overdue(p) == Gone(p, "error")

\* Mutant: the error that arrives on workerDone is not joined.
Joined_DropsError(r) == r.failed

\* err, joined with the worker's result unless the select has had it.
Joined(r) == r.failed \/ (r.worker = "done" /\ r.broken)

JoinWorker(p) ==
  /\ proc[p].at = "join"
  /\ \/ /\ proc[p].worker \in {"done", "off"}
        /\ Becomes(p, [proc[p] EXCEPT !.at = "close-store", !.worker = "off",
                                      !.failed = Joined(proc[p])])
     \/ proc[p].late /\ proc[p].worker # "off" /\ Overdue(p)

\* Mutant: the files, and with them the lock, are closed before the store.
CloseStore_FilesFirst(p) ==
  /\ proc[p].at = "close-store"
  /\ proc' = [proc EXCEPT ![p].at = "close-files"] /\ lock' = None
  /\ UNCHANGED starts

\* run() returns; its deferred calls run last in, first out.
CloseStore(p) ==
  /\ proc[p].at = "close-store"
  /\ Becomes(p, [proc[p] EXCEPT !.at = "close-files", !.store = FALSE])

\* files.Close, then main reports the error.
CloseFiles(p) ==
  /\ proc[p].at = "close-files"
  /\ Gone(p, IF proc[p].failed THEN "error" ELSE "ok")

Kill(p) == proc[p].at # "down" /\ Gone(p, "error")

MainStep(p) ==
  \/ OpenStore(p) \/ Serve(p) \/ Stopped(p) \/ ShutdownServer(p) \/ JoinWorker(p)
  \/ CloseStore(p) \/ CloseFiles(p)

Next == \E p \in Processes :
  \/ MainStep(p) \/ Open(p) \/ StartupFails(p) \/ Signal(p) \/ ServerFails(p)
  \/ HandlerBegins(p) \/ HandlerEnds(p) \/ WorkerStep(p) \/ DeadlinePasses(p) \/ Kill(p)

\* run() is scheduled, its select wakes up, and timers fire.  Nothing is assumed of the
\* handlers or of the worker: a library call may hang.
Spec == /\ Init /\ [][Next]_vars
        /\ \A p \in Processes : WF_vars(MainStep(p)) /\ WF_vars(DeadlinePasses(p))

------------------------------------------------------------------------------

Works(r) == r.handlers \/ r.worker \in {"idle", "busy"}

\* Two processes never use the data directory at once, however their starts, shutdowns,
\* deadlines and ends meet: what one process still does happens under its lock.
OneProcessUsesData ==
  \A p, q \in Processes :
    (\A r \in {proc[p], proc[q]} : r.at \in {"open", "recover"} \/ r.store \/ Works(r)) => p = q

\* "Never close the lease/database while a library operation may still run": no handler
\* and no worker ever meets a closed store.
StoreOutlivesWork == \A p \in Processes : Works(proc[p]) => proc[p].store

\* A worker that failed is not reported as a clean stop, whichever of the signal, the
\* worker and the server the select saw first.
FailureReported ==
  \A p \in Processes : proc[p].at = "down" /\ proc[p].broken => proc[p].status = "error"

\* After a signal, and after the worker has stopped by itself, the process ends, even when
\* a handler or the library never returns.
StopEndsProcess ==
  \A p \in Processes : proc[p].ctxDone \/ proc[p].worker = "done" ~> proc[p].at = "down"
===============================================================================
