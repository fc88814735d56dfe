---------------------------- MODULE WorkspacePoll -----------------------------
(***************************************************************************)
(* The web client's view of the service (web/src/hooks): useWorkspace      *)
(* polls the jobs and the status, useAction refreshes them after every     *)
(* mutation, and the effect that polls is mounted, unmounted and mounted   *)
(* again (React.StrictMode does so at once).                               *)
(*                                                                         *)
(* What the service persists is a version that only grows.  A refresh      *)
(* reads it twice, for /jobs and for /status, at any two moments; answers  *)
(* arrive in any order.  JavaScript runs between awaits without            *)
(* interruption, so each stretch of code up to an await is one step.  The  *)
(* sequence number is used only to ask whether a later refresh has begun;  *)
(* each request carries the answer.                                        *)
(***************************************************************************)
EXTENDS Naturals, FiniteSets

CONSTANTS
  MaxVersion,   \* bound: mutations the service persists
  MaxMounts     \* bound: times the effect is mounted

ASSUME BoundsAssumption == {MaxVersion, MaxMounts} \subseteq Nat \ {0}

VARIABLES
  version,      \* what the service has persisted
  mounts,       \* how often the effect has been mounted; its AbortController
  mounted,
  requests,     \* refreshes that wait for loadWorkspace
  timers,       \* mounts whose setTimeout is armed
  mutations,    \* mutations answered whose refresh has still to begin
  jobs, status, \* the versions that are shown
  error,        \* "Cannot reach ipa-now" is shown
  unreachable   \* bound: the service may still fail to answer

vars == <<version, mounts, mounted, requests, timers, mutations, jobs, status,
          error, unreachable>>
viewVars == <<jobs, status, error>>

Versions == 0 .. MaxVersion
Unread == MaxVersion + 1
Request == [latest : BOOLEAN, mount : 1 .. MaxMounts, kind : {"poll", "action"},
            jobs : Versions \cup {Unread}, status : Versions \cup {Unread}]

TypeOK ==
  /\ version \in Versions
  /\ mounts \in 0 .. MaxMounts /\ mounted \in BOOLEAN
  /\ requests \in SUBSET Request
  /\ timers \in SUBSET (1 .. MaxMounts)
  /\ mutations \in 0 .. MaxVersion
  /\ jobs \in Versions /\ status \in Versions
  /\ error \in BOOLEAN /\ unreachable \in BOOLEAN

Init ==
  /\ version = 0 /\ mounts = 0 /\ mounted = FALSE
  /\ requests = {} /\ timers = {} /\ mutations = 0
  /\ jobs = 0 /\ status = 0 /\ error = FALSE /\ unreachable = TRUE

Aborted(m) == ~mounted \/ m # mounts

------------------------------------------------------------------------------

\* The first stretch of refresh, in the mount m.
Refresh(kind, m) ==
  requests' = {[r EXCEPT !.latest = FALSE] : r \in requests} \cup
              {[latest |-> TRUE, mount |-> m, kind |-> kind, jobs |-> Unread, status |-> Unread]}

Mount ==
  /\ ~mounted /\ mounts < MaxMounts
  /\ mounts' = mounts + 1 /\ mounted' = TRUE
  /\ Refresh("poll", mounts + 1)
  /\ UNCHANGED <<version, timers, mutations, viewVars, unreachable>>

\* Mutant: the timer of the mount is left armed.
Unmount_KeepsTimer ==
  /\ mounted /\ mounted' = FALSE
  /\ UNCHANGED <<version, mounts, requests, timers, mutations, viewVars, unreachable>>

Unmount ==
  /\ mounted /\ mounted' = FALSE
  /\ timers' = timers \ {mounts}
  /\ UNCHANGED <<version, mounts, requests, mutations, viewVars, unreachable>>

\* The timer fires and poll calls refresh.  (A poll of an aborted mount would use
\* the controller of the present one.)
Poll(m) ==
  /\ m \in timers
  /\ timers' = timers \ {m}
  /\ IF mounted THEN Refresh("poll", mounts) ELSE UNCHANGED requests
  /\ UNCHANGED <<version, mounts, mounted, mutations, viewVars, unreachable>>

\* The service persists a change: a mutation of this client, answered to useAction,
\* or one of the worker's.
Change ==
  /\ version < MaxVersion
  /\ version' = version + 1
  /\ mutations' \in {mutations, mutations + 1}
  /\ UNCHANGED <<mounts, mounted, requests, timers, viewVars, unreachable>>

ActionRefreshes ==
  /\ mutations > 0
  /\ mutations' = mutations - 1
  /\ IF mounted THEN Refresh("action", mounts) ELSE UNCHANGED requests
  /\ UNCHANGED <<version, mounts, mounted, timers, viewVars, unreachable>>

\* The service answers one of the two reads.
Read(r) ==
  /\ r \in requests
  /\ \E half \in {"jobs", "status"} :
       r[half] = Unread /\ requests' = (requests \ {r}) \cup {[r EXCEPT ![half] = version]}
  /\ UNCHANGED <<version, mounts, mounted, timers, mutations, viewVars, unreachable>>

\* The finally of poll.
Rearm(r) ==
  timers' = IF r.kind = "poll" /\ ~Aborted(r.mount) THEN timers \cup {r.mount} ELSE timers

\* Mutant: any answer is shown.
Shown_AnyOrder(r) == ~Aborted(r.mount)
\* Mutant: an answer is shown although its mount has been aborted.
Shown_AfterAbort(r) == r.latest

Shown(r) == ~Aborted(r.mount) /\ r.latest

\* Mutant: an answer does not take back the message.
Show_KeepsError(r) == jobs' = r.jobs /\ status' = r.status /\ UNCHANGED error

Show(r) == jobs' = r.jobs /\ status' = r.status /\ error' = FALSE

\* loadWorkspace resolves: show the answer unless it is aborted or superseded.
Resolved(r) ==
  /\ r \in requests /\ Unread \notin {r.jobs, r.status}
  /\ requests' = requests \ {r}
  /\ IF Shown(r) THEN Show(r) ELSE UNCHANGED viewVars
  /\ Rearm(r)
  /\ UNCHANGED <<version, mounts, mounted, mutations, unreachable>>

\* loadWorkspace rejects: aborted, or the service cannot be reached.
Rejected(r) ==
  /\ r \in requests /\ (Aborted(r.mount) \/ unreachable)
  /\ requests' = requests \ {r}
  /\ error' = (error \/ (r.kind = "poll" /\ ~Aborted(r.mount)))
  /\ Rearm(r)
  /\ UNCHANGED <<version, mounts, mounted, mutations, jobs, status, unreachable>>

\* The operator dismisses the message.
DismissError ==
  /\ error /\ error' = FALSE
  /\ UNCHANGED <<version, mounts, mounted, requests, timers, mutations, jobs, status, unreachable>>

\* From here on the service answers.
Reachable ==
  /\ unreachable /\ unreachable' = FALSE
  /\ UNCHANGED <<version, mounts, mounted, requests, timers, mutations, viewVars>>

Next ==
  \/ Mount \/ Unmount \/ Change \/ ActionRefreshes \/ DismissError \/ Reachable
  \/ \E m \in 1 .. MaxMounts : Poll(m)
  \/ \E r \in requests : Read(r) \/ Resolved(r) \/ Rejected(r)

Spec == Init /\ [][Next]_vars

\* Timers fire, and the service answers the live poll or lets it fail.
PollStep ==
  \/ \E m \in 1 .. MaxMounts : Poll(m)
  \/ \E r \in requests : /\ r.kind = "poll" /\ ~Aborted(r.mount)
                         /\ Read(r) \/ Resolved(r)

FairSpec == Spec /\ WF_vars(PollStep)

------------------------------------------------------------------------------

\* What is shown never goes back, in either half: an answer that was overtaken, by a
\* poll or by the refresh of an action, does not replace a newer one.
ViewNeverGoesBack == [][jobs' >= jobs /\ status' >= status]_vars

\* "Polled without overlap" (useWorkspace.ts:6): while the hook is mounted exactly one
\* poll is in flight or armed, so polling neither stops nor doubles, whatever failed and
\* however often the hook was mounted.
OnePollChain ==
  mounted => Cardinality({r \in requests : r.kind = "poll" /\ ~Aborted(r.mount)})
               + Cardinality(timers) = 1

\* "Pending reads abort on unmount": from the unmount on nothing changes what is shown,
\* although reads of the unmounted hook, and of actions, are still in flight.
UnmountIsQuiet ==
  [][~mounted => jobs' = jobs /\ status' = status /\ (error' => error)]_vars

\* A hook that stays mounted beside a service that answers comes to show what the
\* service persisted last and no failure, after any failures, actions and remounts.
ViewCatchesUp ==
  <>[](mounted /\ ~unreachable) => <>[](jobs = version /\ status = version /\ ~error)
===============================================================================
