------------------------------ MODULE AuthBroker ------------------------------
(***************************************************************************)
(* The 2FA broker (secrets.Broker): the library asks for a code through    *)
(* Request, an HTTP handler delivers one through Submit, and the job's     *)
(* context may end at any time.  A call of Request is a member of Calls;   *)
(* the channel it makes is named after it.  The broker itself is the pair  *)
(* (job, ch), guarded by its mutex.                                        *)
(*                                                                         *)
(* Codes are the well-formed codes; each is submitted once, so that it can *)
(* be told where it came from.  A malformed code is refused without effect.*)
(***************************************************************************)
EXTENDS Naturals

CONSTANTS
  Jobs,         \* job ids
  Calls,        \* calls of Request
  Codes,        \* six-digit codes
  None          \* no job, no channel, no code

ASSUME NoneAssumption == None \notin Jobs \cup Calls \cup Codes

VARIABLES
  job, ch,      \* the broker's fields
  buffer,       \* the one-place buffer of each channel
  call,         \* each call of Request
  done,         \* calls whose context is done
  origin        \* for each accepted code: the job it names, the calls open then

vars == <<job, ch, buffer, call, done, origin>>

Call == [step : {"new", "select", "reset", "ended", "refused"},
         id   : Jobs \cup {None},
         code : Codes \cup {None}]

\* A call that has opened its challenge and not yet reset the broker.
Open(c) == call[c].step \in {"select", "reset"}

TypeOK ==
  /\ job \in Jobs \cup {None}
  /\ ch \in Calls \cup {None}
  /\ buffer \in [Calls -> Codes \cup {None}]
  /\ call \in [Calls -> Call]
  /\ done \in SUBSET Calls
  /\ origin \in [Codes -> [job : Jobs \cup {None}, open : SUBSET Calls]]

Init ==
  /\ job = None /\ ch = None
  /\ buffer = [c \in Calls |-> None]
  /\ call = [c \in Calls |-> [step |-> "new", id |-> None, code |-> None]]
  /\ done = {}
  /\ origin = [x \in Codes |-> [job |-> None, open |-> {}]]

\* Mutant: a second Request replaces the pending one.
Request_Replaces(c, j) ==
  /\ call[c].step = "new"
  /\ job' = j /\ ch' = c
  /\ call' = [call EXCEPT ![c] = [step |-> "select", id |-> j, code |-> None]]
  /\ UNCHANGED <<buffer, done, origin>>

\* Request up to its select.
Request(c, j) ==
  /\ call[c].step = "new"
  /\ IF ch # None
     THEN /\ call' = [call EXCEPT ![c].step = "refused"]
          /\ UNCHANGED <<job, ch>>
     ELSE /\ job' = j /\ ch' = c
          /\ call' = [call EXCEPT ![c] = [step |-> "select", id |-> j, code |-> None]]
  /\ UNCHANGED <<buffer, done, origin>>

\* case code := <-ch
RequestReceives(c) ==
  /\ call[c].step = "select" /\ buffer[c] # None
  /\ call' = [call EXCEPT ![c].step = "reset", ![c].code = buffer[c]]
  /\ buffer' = [buffer EXCEPT ![c] = None]
  /\ UNCHANGED <<job, ch, done, origin>>

\* Mutant: a context that ends is noticed only once a code has come.
RequestGivesUp_Late(c) ==
  /\ call[c].step = "select" /\ c \in done /\ buffer[c] # None
  /\ call' = [call EXCEPT ![c].step = "reset"]
  /\ UNCHANGED <<job, ch, buffer, done, origin>>

\* case <-ctx.Done(): also possible when a code is there, as select may choose.
RequestGivesUp(c) ==
  /\ call[c].step = "select" /\ c \in done
  /\ call' = [call EXCEPT ![c].step = "reset"]
  /\ UNCHANGED <<job, ch, buffer, done, origin>>

\* The deferred function.
RequestResets(c) ==
  /\ call[c].step = "reset"
  /\ job' = None /\ ch' = None
  /\ call' = [call EXCEPT ![c].step = "ended"]
  /\ UNCHANGED <<buffer, done, origin>>

\* Mutant: Submit goes to whoever waits.
Submit_AnyJob(j, x) ==
  /\ origin[x].job = None
  /\ ch # None /\ buffer[ch] = None
  /\ buffer' = [buffer EXCEPT ![ch] = x]
  /\ origin' = [origin EXCEPT ![x] = [job |-> j, open |-> {c \in Calls : Open(c)}]]
  /\ UNCHANGED <<job, ch, call, done>>

\* An accepted Submit; a refused one changes nothing.
Submit(j, x) ==
  /\ origin[x].job = None
  /\ job = j /\ ch # None
  /\ buffer[ch] = None
  /\ buffer' = [buffer EXCEPT ![ch] = x]
  /\ origin' = [origin EXCEPT ![x] = [job |-> j, open |-> {c \in Calls : Open(c)}]]
  /\ UNCHANGED <<job, ch, call, done>>

\* The deadline, a cancellation or a shutdown ends the job's context.
ContextEnds(c) ==
  /\ c \notin done
  /\ done' = done \cup {c}
  /\ UNCHANGED <<job, ch, buffer, call, origin>>

RequestStep(c) == RequestReceives(c) \/ RequestGivesUp(c) \/ RequestResets(c)

Next ==
  \/ \E c \in Calls : RequestStep(c) \/ ContextEnds(c) \/ \E j \in Jobs : Request(c, j)
  \/ \E j \in Jobs, x \in Codes : Submit(j, x)

Spec == Init /\ [][Next]_vars

\* A goroutine that can go on does.  Neither the operator nor the deadline is fair.
FairSpec == Spec /\ \A c \in Calls : WF_vars(RequestStep(c))

------------------------------------------------------------------------------

\* The broker is pending exactly while one call of Request is open, and for that
\* call's job: neither a refused call nor the deferred reset of an earlier one
\* clears or redirects a challenge.
ChallengeHasCaller ==
  /\ \A c \in Calls : Open(c) <=> ch = c
  /\ job = IF ch = None THEN None ELSE call[ch].id

\* "codes exist only in memory for that challenge" (README.md:52): a code that a
\* call returns was submitted for its job while that very call was open.
CodeStaysInChallenge ==
  \A c \in Calls : call[c].code # None =>
    /\ origin[call[c].code].job = call[c].id
    /\ c \in origin[call[c].code].open

\* A challenge whose context is done or that has its code ends, and frees the broker.
ChallengeEnds ==
  \A c \in Calls : Open(c) /\ (c \in done \/ buffer[c] # None) ~> call[c].step = "ended" /\ ch # c
===============================================================================
