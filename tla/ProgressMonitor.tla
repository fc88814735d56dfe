--------------------------- MODULE ProgressMonitor ----------------------------
(***************************************************************************)
(* The goroutines of one Worker.Run that share the progress channel: the   *)
(* library's callbacks, which put a record into the adapter's helper log,  *)
(* write a line of their own to the operator's log when its level is debug *)
(* and then send into the channel and may empty it (emit); the monitor,    *)
(* which polls the row, cancels the run and persists what the channel      *)
(* holds; and the run itself, which records retries, stops the monitor and *)
(* waits for it.                                                           *)
(*                                                                         *)
(* Events are numbered in the order their callbacks begin; an event stands *)
(* for a phase with its counters.  Module Worker keeps only the monitor's  *)
(* effect on the run's context.  The row is running from before the        *)
(* monitor starts until after it is joined (Worker), so the state guard of *)
(* Store.Progress holds whenever the monitor persists.                     *)
(***************************************************************************)
EXTENDS Naturals, FiniteSets

CONSTANTS
  Emitters,     \* goroutines of the library that call OnEvent
  helperLogQueueSize,
  MaxEvents,    \* bound: callbacks in one run
  MaxRetries    \* bound: retries recorded in one run

ASSUME BoundsAssumption == {helperLogQueueSize, MaxEvents, MaxRetries} \subseteq Nat

VARIABLES
  debug,        \* config IPA_NOW_LOG_LEVEL is "debug"; the process never changes it
  helperLogs,   \* how many records wait in the log queue
  channel,      \* the event in the channel of capacity one, 0 when it is empty
  begun,        \* number of callbacks begun
  emit,         \* where each callback is in OnEvent, and with which event
  older,        \* events whose callbacks had returned when the event's began (history)
  sent,         \* the last event that entered the channel (history)
  monitor,      \* where the monitor goroutine is
  held,         \* the event the monitor has received
  row,          \* the phase the row shows: an event, or 0 for "starting" and "retry-wait"
  persisted,    \* every event the row has shown (history)
  retries,      \* retries recorded
  cancelRequested,
  ctxDone,
  monitorErr,
  run           \* the goroutine of Worker.Run

vars == <<debug, helperLogs, channel, begun, emit, older, sent, monitor, held, row, persisted,
          retries, cancelRequested, ctxDone, monitorErr, run>>
chanVars == <<debug, helperLogs, channel, begun, emit, older, sent>>
rowVars == <<row, persisted, retries>>
runVars == <<debug, monitor, held, row, persisted, retries, cancelRequested, ctxDone, monitorErr,
             run>>

Events == 1 .. MaxEvents
NoEvent == 0

TypeOK ==
  /\ debug \in BOOLEAN
  /\ helperLogs \in 0 .. helperLogQueueSize
  /\ channel \in 0 .. MaxEvents /\ begun \in 0 .. MaxEvents
  /\ emit \in [Emitters ->
               [at : {"idle", "log", "write", "send", "drain", "resend"}, event : 0 .. MaxEvents]]
  /\ older \in [Events -> SUBSET Events]
  /\ sent \in 0 .. MaxEvents
  /\ monitor \in {"select", "receive", "persist", "returned"}
  /\ held \in 0 .. MaxEvents
  /\ row \in 0 .. MaxEvents /\ persisted \in SUBSET Events
  /\ retries \in 0 .. MaxRetries
  /\ cancelRequested \in BOOLEAN /\ ctxDone \in BOOLEAN /\ monitorErr \in BOOLEAN
  /\ run \in {"decrypt", "closed", "failed", "continues"}

Resting == [at |-> "idle", event |-> NoEvent]

Init ==
  /\ debug \in BOOLEAN
  /\ helperLogs = 0 /\ channel = NoEvent /\ begun = 0
  /\ emit = [e \in Emitters |-> Resting]
  /\ older = [n \in Events |-> {}] /\ sent = NoEvent
  /\ monitor = "select" /\ held = NoEvent
  /\ row = NoEvent /\ persisted = {} /\ retries = 0
  /\ cancelRequested = FALSE /\ ctxDone = FALSE /\ monitorErr = FALSE
  /\ run = "decrypt"

------------------------------------------------------------------------------
(* OnEvent: the record for the log queue, the debug line, then emit: a send  *)
(* that does not block, else a receive that does not block and another such  *)
(* send.  The channel is never closed, so a callback that comes late sends   *)
(* into a buffer nobody reads.                                               *)

\* Mutant: OnEvent hands the event to a goroutine of its own and returns.
Returned_Async == 1 .. begun

\* The callbacks that have returned.
Returned == (1 .. begun) \ {emit[e].event : e \in Emitters}

\* Only some events carry a record for the log queue.
EmitBegins(e) ==
  /\ emit[e] = Resting /\ begun < MaxEvents
  /\ begun' = begun + 1
  /\ older' = [older EXCEPT ![begun + 1] = Returned]
  /\ \E at \in {"log", "write"} : emit' = [emit EXCEPT ![e] = [at |-> at, event |-> begun + 1]]
  /\ UNCHANGED <<helperLogs, channel, sent, runVars>>

\* Mutant: the send waits for a free place.
Enqueue_Blocks == helperLogs < helperLogQueueSize /\ helperLogs' = helperLogs + 1

\* enqueueHelperLog: a full queue drops the record.
Enqueue == helperLogs' = IF helperLogs < helperLogQueueSize THEN helperLogs + 1 ELSE helperLogs

EmitLogs(e) ==
  /\ emit[e].at = "log" /\ Enqueue
  /\ emit' = [emit EXCEPT ![e].at = "write"]
  /\ UNCHANGED <<channel, begun, older, sent, runVars>>

\* The "engine progress" line is written by the callback itself; below debug it is no
\* write at all.
EmitWrites(e) ==
  /\ emit[e].at = "write"
  /\ emit' = [emit EXCEPT ![e].at = "send"]
  /\ UNCHANGED <<helperLogs, channel, begun, older, sent, runVars>>

\* The callback is inside the write to the operator's log.
HeldByLog(e) == debug /\ emit[e].at = "write"

EmitSends(e) ==
  /\ emit[e].at = "send"
  /\ IF channel = NoEvent
     THEN /\ channel' = emit[e].event /\ sent' = emit[e].event
          /\ emit' = [emit EXCEPT ![e] = Resting]
     ELSE emit' = [emit EXCEPT ![e].at = "drain"] /\ UNCHANGED <<channel, sent>>
  /\ UNCHANGED <<helperLogs, begun, older, runVars>>

EmitDrains(e) ==
  /\ emit[e].at = "drain"
  /\ channel' = NoEvent
  /\ emit' = [emit EXCEPT ![e].at = "resend"]
  /\ UNCHANGED <<helperLogs, begun, older, sent, runVars>>

\* Mutant: the event is given up once the channel has been drained.
Resend_GivesUp(e) == UNCHANGED <<channel, sent>>

Resend(e) ==
  IF channel = NoEvent
  THEN channel' = emit[e].event /\ sent' = emit[e].event
  ELSE UNCHANGED <<channel, sent>>

EmitResends(e) ==
  /\ emit[e].at = "resend" /\ Resend(e)
  /\ emit' = [emit EXCEPT ![e] = Resting]
  /\ UNCHANGED <<helperLogs, begun, older, runVars>>

EmitStep(e) == EmitLogs(e) \/ EmitWrites(e) \/ EmitSends(e) \/ EmitDrains(e) \/ EmitResends(e)

------------------------------------------------------------------------------
(* The monitor.                                                              *)

\* Mutant: the monitor returns its error and leaves the library running.
MonitorGivesUp_KeepsContext ==
  monitor' = "returned" /\ monitorErr' = TRUE /\ UNCHANGED ctxDone

\* A store call of the monitor failed: cancel the run and return.
MonitorGivesUp ==
  monitor' = "returned" /\ monitorErr' = TRUE /\ ctxDone' = TRUE

\* Mutant: done is never closed.
DoneClosed_Never == FALSE

DoneClosed == run # "decrypt"

MonitorDone ==
  /\ monitor = "select" /\ DoneClosed
  /\ monitor' = "returned"
  /\ UNCHANGED <<chanVars, held, rowVars, cancelRequested, ctxDone, monitorErr, run>>

\* Mutant: the poll ignores cancel_requested.
Polled_IgnoresCancel == ctxDone

\* The run's context once the row has been read.
Polled == ctxDone \/ cancelRequested

MonitorTick ==
  /\ monitor = "select"
  /\ \/ monitor' = "receive" /\ ctxDone' = Polled /\ UNCHANGED monitorErr
     \/ MonitorGivesUp
  /\ UNCHANGED <<chanVars, held, rowVars, cancelRequested, run>>

MonitorReceives ==
  /\ monitor = "receive"
  /\ held' = channel /\ channel' = NoEvent
  /\ monitor' = IF channel = NoEvent THEN "select" ELSE "persist"
  /\ UNCHANGED <<debug, helperLogs, begun, emit, older, sent, rowVars, cancelRequested, ctxDone,
                 monitorErr, run>>

\* Store.Progress
MonitorPersists ==
  /\ monitor = "persist"
  /\ \/ /\ row' = held /\ persisted' = persisted \cup {held}
        /\ monitor' = "select" /\ UNCHANGED <<ctxDone, monitorErr>>
     \/ MonitorGivesUp /\ UNCHANGED <<row, persisted>>
  /\ UNCHANGED <<chanVars, held, retries, cancelRequested, run>>

MonitorStep == MonitorDone \/ MonitorTick \/ MonitorReceives \/ MonitorPersists

\* The consumer of the log queue has written a record and takes the next.
LogWrites ==
  /\ helperLogs > 0 /\ helperLogs' = helperLogs - 1
  /\ UNCHANGED <<channel, begun, emit, older, sent, runVars>>

------------------------------------------------------------------------------
(* The run, and the environment.                                             *)

\* Store.Retry between two attempts.  The context can end after the loop looked at it.
Retry ==
  /\ run = "decrypt" /\ retries < MaxRetries
  /\ retries' = retries + 1 /\ row' = NoEvent
  /\ UNCHANGED <<chanVars, monitor, held, persisted, cancelRequested, ctxDone, monitorErr, run>>

\* The attempt loop ended.
CloseDone ==
  /\ run = "decrypt" /\ run' = "closed"
  /\ UNCHANGED <<chanVars, monitor, held, rowVars, cancelRequested, ctxDone, monitorErr>>

\* wg.Wait returns.  A failure of the monitor ends the run.
Join ==
  /\ run = "closed" /\ monitor = "returned"
  /\ run' = IF monitorErr THEN "failed" ELSE "continues"
  /\ UNCHANGED <<chanVars, monitor, held, rowVars, cancelRequested, ctxDone, monitorErr>>

CancelRequest ==
  /\ ~cancelRequested /\ cancelRequested' = TRUE
  /\ UNCHANGED <<chanVars, monitor, held, rowVars, ctxDone, monitorErr, run>>

\* The job's deadline, or the end of the parent context.
Deadline ==
  /\ ~ctxDone /\ ctxDone' = TRUE
  /\ UNCHANGED <<chanVars, monitor, held, rowVars, cancelRequested, monitorErr, run>>

Next ==
  \/ \E e \in Emitters : EmitBegins(e) \/ EmitStep(e)
  \/ LogWrites \/ MonitorStep \/ Retry \/ CloseDone \/ Join \/ CancelRequest \/ Deadline

Spec == Init /\ [][Next]_vars

\* Goroutines are scheduled; the ticker fires; select prefers no ready case for ever;
\* the library returns once its context is done, unless a callback of its own does not.
\* The operator's log may hang for ever: neither its queue nor a debug line has to move.
Fairness ==
  /\ \A e \in Emitters : WF_vars(EmitStep(e) /\ ~HeldByLog(e))
  /\ WF_vars(MonitorStep) /\ SF_vars(MonitorDone)
  /\ WF_vars(CloseDone /\ ctxDone /\ \A e \in Emitters : ~HeldByLog(e))
  /\ WF_vars(Join)

FairSpec == Spec /\ Fairness

------------------------------------------------------------------------------

\* Callbacks and monitor may all empty the channel, but when the callbacks have returned
\* the event that entered it last is still there or has reached the monitor: draining
\* drops only what a later event replaces, so the row catches up with the library.
LatestKept ==
  (\A e \in Emitters : emit[e] = Resting) =>
    channel = sent \/ sent = held \/ sent \in persisted

\* The row never shows an event after one whose callback began when the former's had
\* returned, however the callbacks and the monitor interleave.
RowKeepsOrder ==
  [][row' \notin {row, NoEvent} => \A n \in persisted : row' \notin older[n]]_vars

\* At every level but debug each callback of the library returns, with no help from the
\* log, the monitor or the store, however full the log queue is; at debug nothing but its
\* own line in the log can hold it.  ("Device work must keep moving even when the operator
\* log is slow", engine.go:125: at debug the line of engine.go:204 is the exception.)
CallbacksReturn == \A e \in Emitters : []<>(emit[e] = Resting \/ HeldByLog(e))

\* A cancellation reaches the running library, without help from the deadline and even
\* while the log hangs.
CancelReachesRun == cancelRequested ~> (ctxDone \/ run # "decrypt")

\* No callback is held by its debug line for ever.
LogMoves == \A e \in Emitters : []<>~HeldByLog(e)

\* Once its context is done the run comes out of its wait for the monitor, wherever the
\* monitor is in its loop.
RunJoins == LogMoves => (ctxDone ~> run \in {"failed", "continues"})

\* A store call of the monitor that fails ends the run with that failure: the library is
\* cancelled, with no help from the deadline, and the run does not go on to verify or
\* publish as if the row had been read or written.
StoreFailureEndsRun == LogMoves => (monitorErr ~> run = "failed")
===============================================================================
