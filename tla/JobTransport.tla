----------------------------- MODULE JobTransport -----------------------------
(***************************************************************************)
(* engine.JobTransport: HTTP requests of the library carry no context, so  *)
(* the transport ties each to the job whose scope is active.  Adapter.     *)
(* Decrypt opens the scope and releases it when it returns; a request runs *)
(* in the library's goroutines beside it, and the hook that                *)
(* context.AfterFunc registers runs in a goroutine of its own.             *)
(*                                                                         *)
(* External: Decrypt returns after the round trips it started have         *)
(* returned (their bodies may still be open), and net/http ends a round    *)
(* trip or a read whose context is cancelled.                              *)
(***************************************************************************)
EXTENDS Naturals

CONSTANTS
  Decrypts,     \* calls of Adapter.Decrypt
  Requests,     \* calls of RoundTrip
  None          \* no scope, no call

ASSUME NoneAssumption == None \notin Decrypts

VARIABLES
  active,       \* the context the transport holds, named after its Decrypt
  decrypt,      \* each call of Decrypt
  done,         \* calls of Decrypt whose job context is done
  step,         \* each request
  caller,       \* the Decrypt a request is made for
  bound,        \* the Decrypt whose context it is tied to
  hook,         \* its context.AfterFunc
  cancelled     \* requests whose own context is cancelled

requestVars == <<step, caller, bound, hook, cancelled>>
vars == <<active, decrypt, done, requestVars>>

\* The steps of RoundTrip, the response body, the end.
InTrip == {"scope", "bind", "check", "base"}
Steps == {"new", "body", "over"} \cup InTrip

TypeOK ==
  /\ active \in Decrypts \cup {None}
  /\ decrypt \in [Decrypts -> {"new", "in", "returned", "refused"}]
  /\ done \in SUBSET Decrypts
  /\ step \in [Requests -> Steps]
  /\ caller \in [Requests -> Decrypts \cup {None}]
  /\ bound \in [Requests -> Decrypts \cup {None}]
  /\ hook \in [Requests -> {"none", "armed", "fired", "stopped"}]
  /\ cancelled \in SUBSET Requests

Init ==
  /\ active = None
  /\ decrypt = [d \in Decrypts |-> "new"]
  /\ done = {}
  /\ step = [r \in Requests |-> "new"]
  /\ caller = [r \in Requests |-> None]
  /\ bound = [r \in Requests |-> None]
  /\ hook = [r \in Requests |-> "none"]
  /\ cancelled = {}

------------------------------------------------------------------------------
(* Adapter.Decrypt and its context.                                          *)

\* Mutant: the new scope replaces one that is still active.
Scope_Replaces(d) ==
  /\ decrypt[d] = "new"
  /\ active' = d /\ decrypt' = [decrypt EXCEPT ![d] = "in"]
  /\ UNCHANGED <<done, requestVars>>

Scope(d) ==
  /\ decrypt[d] = "new"
  /\ IF active # None
     THEN decrypt' = [decrypt EXCEPT ![d] = "refused"] /\ UNCHANGED active
     ELSE active' = d /\ decrypt' = [decrypt EXCEPT ![d] = "in"]
  /\ UNCHANGED <<done, requestVars>>

\* The deferred release of the scope.
DecryptReturns(d) ==
  /\ decrypt[d] = "in"
  /\ \A r \in Requests : caller[r] = d => step[r] \notin InTrip
  /\ active' = None
  /\ decrypt' = [decrypt EXCEPT ![d] = "returned"]
  /\ UNCHANGED <<done, requestVars>>

\* A cancellation, the deadline, or the end of Worker.Run.
ContextEnds(d) ==
  /\ d \notin done
  /\ done' = done \cup {d}
  /\ UNCHANGED <<active, decrypt, requestVars>>

------------------------------------------------------------------------------
(* RoundTrip.                                                                *)

RequestStarts(r, d) ==
  /\ step[r] = "new" /\ decrypt[d] = "in"
  /\ step' = [step EXCEPT ![r] = "scope"]
  /\ caller' = [caller EXCEPT ![r] = d]
  /\ UNCHANGED <<active, decrypt, done, bound, hook, cancelled>>

\* Read the active context under the mutex.
TakeScope(r) ==
  /\ step[r] = "scope" /\ active # None
  /\ bound' = [bound EXCEPT ![r] = active]
  /\ step' = [step EXCEPT ![r] = "bind"]
  /\ UNCHANGED <<active, decrypt, done, caller, hook, cancelled>>

\* There is none: also what a request made outside any Decrypt meets.
RequestRefused(r) ==
  /\ step[r] \in {"new", "scope"} /\ active = None
  /\ step' = [step EXCEPT ![r] = "over"]
  /\ UNCHANGED <<active, decrypt, done, caller, bound, hook, cancelled>>

\* Mutant: the job's context is looked at once, and not followed.
BindContext_Once(r) ==
  /\ step[r] = "bind"
  /\ step' = [step EXCEPT ![r] = "check"]
  /\ UNCHANGED <<active, decrypt, done, caller, bound, hook, cancelled>>

\* context.AfterFunc(job, cancel)
BindContext(r) ==
  /\ step[r] = "bind"
  /\ hook' = [hook EXCEPT ![r] = "armed"]
  /\ step' = [step EXCEPT ![r] = "check"]
  /\ UNCHANGED <<active, decrypt, done, caller, bound, cancelled>>

CheckJob(r) ==
  /\ step[r] = "check"
  /\ cancelled' = IF bound[r] \in done THEN cancelled \cup {r} ELSE cancelled
  /\ step' = [step EXCEPT ![r] = "base"]
  /\ UNCHANGED <<active, decrypt, done, caller, bound, hook>>

\* The hook's goroutine; it runs at once when the context was done already.
HookFires(r) ==
  /\ hook[r] = "armed" /\ bound[r] \in done
  /\ hook' = [hook EXCEPT ![r] = "fired"]
  /\ cancelled' = cancelled \cup {r}
  /\ UNCHANGED <<active, decrypt, done, step, caller, bound>>

\* Mutant: the request's context is cancelled, the hook stays registered.
Release_KeepsHook(r) ==
  /\ cancelled' = cancelled \cup {r}
  /\ UNCHANGED hook

\* release: stop the hook, cancel the request's context.
Release(r) ==
  /\ hook' = [hook EXCEPT ![r] = IF hook[r] = "armed" THEN "stopped" ELSE hook[r]]
  /\ cancelled' = cancelled \cup {r}

BaseResponds(r) ==
  /\ step[r] = "base"
  /\ step' = [step EXCEPT ![r] = "body"]
  /\ UNCHANGED <<active, decrypt, done, caller, bound, hook, cancelled>>

\* An error of the base transport, or no base transport.
BaseFails(r) ==
  /\ step[r] = "base"
  /\ Release(r)
  /\ step' = [step EXCEPT ![r] = "over"]
  /\ UNCHANGED <<active, decrypt, done, caller, bound>>

\* The body is read to its end or to an error, or closed.
BodyEnds(r) ==
  /\ step[r] = "body"
  /\ Release(r)
  /\ step' = [step EXCEPT ![r] = "over"]
  /\ UNCHANGED <<active, decrypt, done, caller, bound>>

RoundTrip(r) == TakeScope(r) \/ BindContext(r) \/ CheckJob(r)
Ends(r) == BaseFails(r) \/ BodyEnds(r)

Next ==
  \/ \E d \in Decrypts : Scope(d) \/ DecryptReturns(d) \/ ContextEnds(d)
  \/ \E r \in Requests : \/ RoundTrip(r) \/ HookFires(r) \/ BaseResponds(r) \/ Ends(r)
                         \/ RequestRefused(r) \/ \E d \in Decrypts : RequestStarts(r, d)

Spec == Init /\ [][Next]_vars

\* Goroutines go on, and net/http honours a cancelled context.  A peer that never
\* answers is not ruled out: only the cancellation ends such a request.
FairSpec ==
  /\ Spec
  /\ \A r \in Requests : /\ WF_vars(RoundTrip(r))
                         /\ WF_vars(HookFires(r))
                         /\ WF_vars(r \in cancelled /\ Ends(r))

------------------------------------------------------------------------------

\* A request is never run under the context of another job than the one it is made
\* for, although it does not say which that is.
BoundToOwnJob ==
  \A r \in Requests : bound[r] # None => bound[r] = caller[r]

\* A finished request leaves nothing registered with the job's context.
NothingLeftRegistered ==
  \A r \in Requests : step[r] = "over" => hook[r] # "armed"

\* When a job's context ends, its requests end, in whatever step it catches them.
DeadlineEndsRequests ==
  \A r \in Requests :
    step[r] \in {"bind", "check", "base", "body"} /\ bound[r] \in done ~> step[r] = "over"
===============================================================================
