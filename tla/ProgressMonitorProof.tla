------------------------- MODULE ProgressMonitorProof --------------------------
(***************************************************************************)
(* The progress channel, for any number of callbacks, events and retries.  *)
(*                                                                         *)
(* An event passes from a callback in emit into the channel, from there to *)
(* the monitor and then to the row.  Order is kept because at every place  *)
(* on that way an event is behind none that began after its callback had   *)
(* returned; nothing that counts is lost because whoever empties the       *)
(* channel is the monitor, which keeps the event, or a callback that still *)
(* has one to send.                                                        *)
(***************************************************************************)
EXTENDS ProgressMonitor, TLAPS

\* Nobody refers to an event that has not begun.
BegunInv ==
  /\ channel \in 0 .. begun /\ sent \in 0 .. begun /\ held \in 0 .. begun
  /\ persisted \subseteq 1 .. begun
  /\ \A e \in Emitters : emit[e].event \in 0 .. begun
  /\ \A n \in Events : older[n] \subseteq 1 .. begun

\* m, on its way to the row, is behind none of the events in S.
InOrder(m, S) == \A n \in S \cap Events : m \notin older[n]

OrderInv ==
  /\ \A e \in Emitters : InOrder(emit[e].event, Events)
  /\ InOrder(channel, persisted \cup {held})
  /\ monitor = "persist" => InOrder(held, persisted)

KeptInv ==
  /\ channel \in {NoEvent, sent}
  /\ monitor \in {"select", "receive"} => held = NoEvent \/ held \in persisted
  /\ monitor = "persist" => held # NoEvent
  /\ \/ channel = sent \/ sent = held \/ sent \in persisted
     \/ \E e \in Emitters : emit[e].at = "resend"

MonitorInv == TypeOK /\ BegunInv /\ OrderInv /\ KeptInv

\* A run begins with an empty channel and a monitor that holds nothing.
LEMMA MonitorInit == Init => MonitorInv
<1>. SUFFICES ASSUME Init PROVE MonitorInv
  OBVIOUS
<1>. USE DEF Init, NoEvent
<1>1. helperLogQueueSize \in Nat /\ MaxEvents \in Nat /\ MaxRetries \in Nat
  BY BoundsAssumption
<1>2. TypeOK
  <2>1. Resting \in [at : {"idle", "log", "write", "send", "drain", "resend"},
                     event : 0 .. MaxEvents]
    BY <1>1 DEF Resting
  <2>2. emit \in [Emitters -> [at : {"idle", "log", "write", "send", "drain", "resend"},
                               event : 0 .. MaxEvents]]
    BY <2>1
  <2>3. older \in [Events -> SUBSET Events]
    OBVIOUS
  <2>4. persisted \in SUBSET Events
    OBVIOUS
  <2>5. 0 \in 0 .. helperLogQueueSize /\ 0 \in 0 .. MaxEvents /\ 0 \in 0 .. MaxRetries
    BY <1>1
  <2>. QED BY <2>2, <2>3, <2>4, <2>5 DEF TypeOK
<1>3. \A e \in Emitters : emit[e].event = 0
  BY DEF Resting
<1>4. BegunInv
  BY <1>3 DEF BegunInv
<1>5. OrderInv
  BY DEF OrderInv, InOrder
<1>6. KeptInv
  BY DEF KeptInv
<1>. QED BY <1>2, <1>4, <1>5, <1>6 DEF MonitorInv

\* The emitters' side: what a step of a callback keeps.
LEMMA EmitKeeps ==
  ASSUME MonitorInv, NEW e \in Emitters, EmitBegins(e) \/ EmitStep(e)
  PROVE  MonitorInv'
<1>. USE DEF MonitorInv, NoEvent
<1>1. /\ begun \in Nat /\ MaxEvents \in Nat /\ helperLogQueueSize \in Nat /\ helperLogs \in Nat
      /\ emit \in [Emitters -> [at : {"idle", "log", "write", "send", "drain", "resend"},
                                event : 0 .. MaxEvents]]
      /\ older \in [Events -> SUBSET Events]
  BY BoundsAssumption DEF TypeOK
<1>2. UNCHANGED runVars
  BY DEF EmitBegins, EmitStep, EmitLogs, EmitWrites, EmitSends, EmitDrains, EmitResends
<1>. USE DEF runVars
<1>4. CASE EmitBegins(e)
  <2>1. PICK at \in {"log", "write"} : emit' = [emit EXCEPT ![e] = [at |-> at, event |-> begun + 1]]
    BY <1>4 DEF EmitBegins
  <2>2. /\ begun' = begun + 1 /\ begun + 1 \in Events
        /\ older' = [older EXCEPT ![begun + 1] = Returned]
        /\ UNCHANGED <<helperLogs, channel, sent>> /\ emit[e] = Resting
    BY <1>1, <1>4 DEF EmitBegins, Events
  <2>3. Returned \subseteq 1 .. begun /\ \A f \in Emitters : emit[f].event \notin Returned
    BY DEF Returned
  <2>4. 1 .. begun \subseteq Events /\ 1 .. begun \subseteq 1 .. (begun + 1)
    BY <1>1, <2>2 DEF Events
  <2>5. TypeOK'
    BY <1>1, <1>2, <2>1, <2>2, <2>3, <2>4 DEF TypeOK, Events
  <2>6. \A n \in Events : older'[n] = IF n = begun + 1 THEN Returned ELSE older[n]
    BY <1>1, <2>2
  <2>7. BegunInv'
    <3>1. \A n \in Events : older'[n] \subseteq 1 .. (begun + 1)
      BY <2>3, <2>4, <2>6 DEF BegunInv
    <3>2. \A f \in Emitters : emit'[f].event \in 0 .. (begun + 1)
      BY <1>1, <2>1 DEF BegunInv
    <3>3. /\ channel \in 0 .. (begun + 1) /\ sent \in 0 .. (begun + 1) /\ held \in 0 .. (begun + 1)
          /\ persisted \subseteq 1 .. (begun + 1)
      BY <1>1, <2>4 DEF BegunInv
    <3>. QED BY <1>2, <2>2, <3>1, <3>2, <3>3 DEF BegunInv
  <2>8. OrderInv'
    <3>1. \A f \in Emitters : InOrder(emit[f].event, Events)'
      <4>. SUFFICES ASSUME NEW f \in Emitters, NEW n \in Events PROVE emit'[f].event \notin older'[n]
        BY DEF InOrder
      <4>1. begun + 1 \notin Returned /\ begun + 1 \notin older[n]
        BY <1>1, <2>3 DEF BegunInv
      <4>2. emit[f].event \notin Returned /\ emit[f].event \notin older[n]
        BY <2>3 DEF OrderInv, InOrder
      <4>3. emit'[f].event \in {emit[f].event, begun + 1}
        BY <1>1, <2>1
      <4>. QED BY <2>6, <4>1, <4>2, <4>3
    <3>2. begun + 1 \notin persisted \cup {held}
      BY <1>1 DEF BegunInv
    <3>3. InOrder(channel, persisted \cup {held})'
      BY <1>2, <2>2, <2>6, <3>2 DEF OrderInv, InOrder
    <3>4. monitor' = "persist" => InOrder(held, persisted)'
      BY <1>2, <2>6, <3>2 DEF OrderInv, InOrder
    <3>. QED BY <3>1, <3>3, <3>4 DEF OrderInv
  <2>9. KeptInv'
    BY <1>1, <1>2, <2>1, <2>2 DEF KeptInv, Resting
  <2>. QED BY <2>5, <2>7, <2>8, <2>9
<1>5. CASE EmitStep(e)
  <2>1. /\ UNCHANGED <<begun, older>>
        /\ \A f \in Emitters \ {e} : emit'[f] = emit[f]
        /\ emit'[e].event \in {emit[e].event, 0}
        /\ channel' \in {channel, emit[e].event, 0}
        /\ sent' \in {sent, emit[e].event}
    BY <1>1, <1>5 DEF EmitStep, EmitLogs, EmitWrites, EmitSends, EmitDrains, EmitResends, Resend, Resting
  <2>2. \A f \in Emitters : emit'[f].event \in {emit[f].event, 0}
    BY <2>1
  <2>3. 0 \in 0 .. begun /\ \A n \in Events : 0 \notin older[n]
    BY <1>1 DEF Events
  <2>4. TypeOK'
    <3>1. helperLogs' \in 0 .. helperLogQueueSize
      BY <1>1, <1>5
      DEF EmitStep, EmitLogs, EmitWrites, EmitSends, EmitDrains, EmitResends, Enqueue, TypeOK
    <3>2. emit' \in [Emitters -> [at : {"idle", "log", "write", "send", "drain", "resend"},
                                  event : 0 .. MaxEvents]]
      BY <1>1, <1>5 DEF EmitStep, EmitLogs, EmitWrites, EmitSends, EmitDrains, EmitResends, Resting
    <3>3. emit[e].event \in 0 .. MaxEvents /\ 0 \in 0 .. MaxEvents
      BY <1>1
    <3>. QED BY <1>2, <2>1, <3>1, <3>2, <3>3 DEF TypeOK
  <2>5. BegunInv'
    BY <1>2, <2>1, <2>2, <2>3 DEF BegunInv
  <2>6. OrderInv'
    <3>1. \A f \in Emitters : InOrder(emit[f].event, Events)'
      BY <2>1, <2>2, <2>3 DEF OrderInv, InOrder
    <3>2. InOrder(channel, persisted \cup {held})'
      BY <1>2, <2>1, <2>3 DEF OrderInv, InOrder
    <3>3. monitor' = "persist" => InOrder(held, persisted)'
      BY <1>2, <2>1 DEF OrderInv, InOrder
    <3>. QED BY <3>1, <3>2, <3>3 DEF OrderInv
  <2>7. KeptInv'
    <3>1. CASE EmitLogs(e)
      BY <1>1, <1>2, <3>1 DEF EmitLogs, KeptInv
    <3>2. CASE EmitWrites(e)
      BY <1>1, <1>2, <3>2 DEF EmitWrites, KeptInv
    <3>3. CASE EmitSends(e)
      <4>1. CASE channel = NoEvent
        BY <1>2, <3>3, <4>1 DEF EmitSends, KeptInv
      <4>2. CASE channel # NoEvent
        BY <1>1, <1>2, <3>3, <4>2 DEF EmitSends, KeptInv
      <4>. QED BY <4>1, <4>2
    <3>4. CASE EmitDrains(e)
      <4>1. emit'[e].at = "resend" /\ channel' = NoEvent /\ UNCHANGED sent
        BY <1>1, <3>4 DEF EmitDrains
      <4>. QED BY <1>2, <4>1 DEF KeptInv
    <3>5. CASE EmitResends(e)
      <4>1. channel' = sent'
        BY <1>2, <3>5 DEF EmitResends, Resend, KeptInv
      <4>. QED BY <1>2, <4>1 DEF KeptInv
    <3>. QED BY <1>5, <3>1, <3>2, <3>3, <3>4, <3>5 DEF EmitStep
  <2>. QED BY <2>4, <2>5, <2>6, <2>7
<1>. QED BY <1>4, <1>5

\* The monitor's side, the run and the environment.
LEMMA RunKeeps ==
  ASSUME MonitorInv,
         LogWrites \/ MonitorStep \/ Retry \/ CloseDone \/ Join \/ CancelRequest \/ Deadline
  PROVE  MonitorInv'
<1>. USE DEF MonitorInv, NoEvent, chanVars, rowVars, runVars
<1>1. /\ begun \in Nat /\ helperLogs \in Nat /\ helperLogQueueSize \in Nat
      /\ MaxRetries \in Nat /\ retries \in Nat
      /\ older \in [Events -> SUBSET Events] /\ begun \in 0 .. MaxEvents /\ MaxEvents \in Nat
  BY BoundsAssumption DEF TypeOK
<1>2. ASSUME LogWrites PROVE MonitorInv'
  BY <1>1, <1>2 DEF LogWrites, TypeOK, BegunInv, OrderInv, InOrder, KeptInv
<1>3. ASSUME Retry \/ CloseDone \/ Join \/ CancelRequest \/ Deadline PROVE MonitorInv'
  <2>1. /\ UNCHANGED <<chanVars, monitor, held, persisted, monitorErr>>
        /\ row' \in {row, 0} /\ retries' \in 0 .. MaxRetries
        /\ run' \in {"decrypt", "closed", "failed", "continues"}
        /\ cancelRequested' \in BOOLEAN /\ ctxDone' \in BOOLEAN
    <3>1. CASE Retry
      BY <1>1, <3>1 DEF Retry, TypeOK
    <3>2. CASE CloseDone \/ Join
      BY <3>2 DEF CloseDone, Join, TypeOK
    <3>3. CASE CancelRequest \/ Deadline
      BY <3>3 DEF CancelRequest, Deadline, TypeOK
    <3>. QED BY <1>3, <3>1, <3>2, <3>3
  <2>. QED BY <1>1, <2>1 DEF TypeOK, BegunInv, OrderInv, InOrder, KeptInv
<1>4. ASSUME MonitorDone \/ MonitorTick PROVE MonitorInv'
  <2>1. /\ UNCHANGED <<chanVars, held, rowVars, run, cancelRequested>>
        /\ monitor' \in {"receive", "returned"} /\ monitor = "select"
        /\ monitorErr' \in BOOLEAN /\ ctxDone' \in BOOLEAN
    BY <1>4 DEF MonitorDone, MonitorTick, MonitorGivesUp, Polled, TypeOK
  <2>. QED BY <2>1 DEF TypeOK, BegunInv, OrderInv, InOrder, KeptInv
<1>5. ASSUME MonitorReceives PROVE MonitorInv'
  <2>1. /\ monitor = "receive" /\ held' = channel /\ channel' = 0
        /\ monitor' = IF channel = 0 THEN "select" ELSE "persist"
        /\ UNCHANGED <<debug, helperLogs, begun, emit, older, sent, rowVars, cancelRequested, ctxDone,
                       monitorErr, run>>
    BY <1>5 DEF MonitorReceives
  <2>2. TypeOK'
    BY <1>1, <2>1 DEF TypeOK
  <2>3. BegunInv'
    BY <1>1, <2>1 DEF BegunInv
  <2>4. OrderInv'
    <3>1. \A n \in Events : 0 \notin older[n]
      BY <1>1 DEF Events
    <3>. QED BY <2>1, <3>1 DEF OrderInv, InOrder
  <2>5. KeptInv'
    BY <2>1 DEF KeptInv
  <2>. QED BY <2>2, <2>3, <2>4, <2>5
<1>6. ASSUME MonitorPersists PROVE MonitorInv'
  <2>1. /\ monitor = "persist" /\ UNCHANGED <<chanVars, held, retries, cancelRequested, run>>
        /\ \/ row' = held /\ persisted' = persisted \cup {held} /\ monitor' = "select"
              /\ UNCHANGED <<ctxDone, monitorErr>>
           \/ MonitorGivesUp /\ UNCHANGED <<row, persisted>>
    BY <1>6 DEF MonitorPersists
  <2>2. held \in 1 .. begun /\ held \in Events
    BY <1>1, <2>1 DEF KeptInv, BegunInv, Events
  <2>3. CASE /\ row' = held /\ persisted' = persisted \cup {held} /\ monitor' = "select"
             /\ UNCHANGED <<ctxDone, monitorErr>>
    <3>1. TypeOK'
      BY <1>1, <2>1, <2>2, <2>3 DEF TypeOK
    <3>2. BegunInv'
      BY <2>1, <2>2, <2>3 DEF BegunInv
    <3>3. OrderInv'
      BY <2>1, <2>3 DEF OrderInv, InOrder
    <3>4. KeptInv'
      BY <2>1, <2>3 DEF KeptInv
    <3>. QED BY <3>1, <3>2, <3>3, <3>4
  <2>4. CASE MonitorGivesUp /\ UNCHANGED <<row, persisted>>
    BY <2>1, <2>4
    DEF MonitorGivesUp, TypeOK, BegunInv, OrderInv, InOrder, KeptInv
  <2>. QED BY <2>1, <2>3, <2>4
<1>. QED
  BY <1>2, <1>3, <1>4, <1>5, <1>6 DEF MonitorStep

\* Every step of a callback, the monitor, the log, the run or the environment keeps it.
LEMMA MonitorStepKeeps == MonitorInv /\ [Next]_vars => MonitorInv'
<1>. SUFFICES ASSUME MonitorInv, [Next]_vars PROVE MonitorInv'
  OBVIOUS
<1>1. CASE Next
  BY <1>1, EmitKeeps, RunKeeps DEF Next
<1>2. CASE UNCHANGED vars
  BY <1>2 DEF vars, MonitorInv, TypeOK, BegunInv, OrderInv, InOrder, KeptInv
<1>. QED BY <1>1, <1>2

\* What emit, the channel, the monitor goroutine and the row hold together, at every
\* interleaving of the callbacks, the monitor, the retries and the end of the run.
THEOREM MonitorInvariant == Spec => []MonitorInv
BY MonitorInit, MonitorStepKeeps, PTL DEF Spec

\* emit drains the channel only to send a later event, so the event that entered it last is
\* never lost between the callbacks and the monitor.
THEOREM LatestIsKept == Spec => []LatestKept
<1>1. MonitorInv => LatestKept
  BY DEF MonitorInv, KeptInv, LatestKept, Resting
<1>. QED BY <1>1, MonitorInvariant, PTL

\* The phases that Store.Progress writes follow the order of the callbacks, whatever was
\* dropped in between.
THEOREM RowIsInOrder == Spec => RowKeepsOrder
<1>. DEFINE A == row' \notin {row, NoEvent} => \A n \in persisted : row' \notin older[n]
<1>1. MonitorInv /\ [Next]_vars => [A]_vars
  <2>. SUFFICES ASSUME MonitorInv, Next, row' \notin {row, NoEvent}, NEW n \in persisted
                PROVE  row' \notin older[n]
    OBVIOUS
  <2>1. MonitorPersists
    BY DEF Next, EmitBegins, EmitStep, EmitLogs, EmitWrites, EmitSends, EmitDrains, EmitResends, LogWrites,
           MonitorStep, MonitorDone, MonitorTick, MonitorReceives, Retry, CloseDone, Join,
           CancelRequest, Deadline, runVars, rowVars
  <2>2. row' = held /\ monitor = "persist"
    BY <2>1 DEF MonitorPersists
  <2>. QED BY <2>2 DEF MonitorInv, OrderInv, InOrder, TypeOK
<1>. QED BY <1>1, MonitorInvariant, PTL DEF Spec, RowKeepsOrder
===============================================================================
