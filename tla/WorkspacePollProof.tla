-------------------------- MODULE WorkspacePollProof ---------------------------
(***************************************************************************)
(* The web client's polling, for any number of mounts and versions.        *)
(*                                                                         *)
(* A poll chain is one poll in flight or one armed timer; it moves from    *)
(* one to the other and only a mount starts one.  What is shown never goes *)
(* back because only the latest refresh may show its answer, and nothing   *)
(* has been shown since it began.                                          *)
(***************************************************************************)
EXTENDS WorkspacePoll, FiniteSetTheorems, TLAPS

\* The polls in flight of the present mount.
LivePolls == {r \in requests : r.kind = "poll" /\ r.mount = mounts}

Single(S) == \E x \in S : S = {x}

ChainInv ==
  /\ \A r \in requests : r.mount \in 1 .. mounts
  /\ mounted => \/ timers = {} /\ Single(LivePolls)
                \/ timers = {mounts} /\ LivePolls = {}
  /\ ~mounted => timers = {}

\* What a half of an answer holds, beside what is shown of it.
Fresh(read, shown) == read # Unread => shown <= read /\ read <= version

\* A refresh is owed for no more mutations than the service has persisted.
OwedInv == mutations <= version

ViewInv ==
  /\ jobs <= version /\ status <= version
  /\ \A r, q \in requests : r.latest /\ q.latest => r = q
  /\ \A r \in requests : r.latest => Fresh(r.jobs, jobs) /\ Fresh(r.status, status)

PollInv == TypeOK /\ OwedInv /\ ChainInv /\ ViewInv

\* Facts about the bounds and the types that every step needs.
LEMMA PollFacts ==
  ASSUME TypeOK
  PROVE  /\ MaxVersion \in Nat /\ MaxMounts \in Nat /\ Unread \in Nat /\ Unread \notin Versions
         /\ version \in Nat /\ mounts \in Nat /\ jobs \in Nat /\ status \in Nat /\ mutations \in Nat
         /\ Versions \subseteq Nat
BY BoundsAssumption DEF TypeOK, Versions, Unread

\* Before the first mount nothing is in flight, armed, owed or shown.
LEMMA PollInit == Init => PollInv
<1>. SUFFICES ASSUME Init PROVE PollInv
  OBVIOUS
<1>1. TypeOK
  <2>1. MaxVersion \in Nat /\ MaxMounts \in Nat
    BY BoundsAssumption
  <2>2. 0 \in Versions /\ 0 \in 0 .. MaxVersion /\ 0 \in 0 .. MaxMounts
    BY <2>1 DEF Versions
  <2>. QED BY <2>2 DEF Init, TypeOK
<1>2. OwedInv /\ ChainInv /\ ViewInv
  BY DEF Init, OwedInv, ChainInv, LivePolls, ViewInv
<1>. QED BY <1>1, <1>2 DEF PollInv

\* The first stretch of refresh: every request before it is superseded.
LEMMA RefreshKeeps ==
  ASSUME TypeOK, ViewInv, NEW kind \in {"poll", "action"}, NEW m \in 1 .. MaxMounts,
         Refresh(kind, m), UNCHANGED <<version, jobs, status>>
  PROVE  /\ requests' \in SUBSET Request
         /\ ViewInv'
<1>. DEFINE new == [latest |-> TRUE, mount |-> m, kind |-> kind, jobs |-> Unread, status |-> Unread]
<1>1. new \in Request
  BY DEF Request
<1>2. \A r \in requests : [r EXCEPT !.latest = FALSE] \in Request
  BY DEF TypeOK, Request
<1>3. requests' \in SUBSET Request
  BY <1>1, <1>2 DEF Refresh
<1>4. \A r \in requests' : r.latest => r = new
  BY DEF Refresh, TypeOK, Request
<1>5. new.jobs = Unread /\ new.status = Unread
  OBVIOUS
<1>. HIDE DEF new
<1>6. ViewInv'
  BY <1>4, <1>5 DEF ViewInv, Fresh, Unread
<1>. QED BY <1>3, <1>6

\* A refresh in the present mount neither adds to the polls in flight nor takes one away,
\* except for the poll it may be itself.
LEMMA RefreshLive ==
  ASSUME TypeOK, NEW kind \in {"poll", "action"}, Refresh(kind, mounts), UNCHANGED mounts,
         \A r \in requests : r.mount \in 1 .. mounts, mounts \in 1 .. MaxMounts
  PROVE  /\ \A r \in requests' : r.mount \in 1 .. mounts
         /\ kind = "action" /\ LivePolls = {} => LivePolls' = {}
         /\ kind = "action" /\ Single(LivePolls) => Single(LivePolls')
         /\ kind = "poll" /\ LivePolls = {} => Single(LivePolls')
<1>. DEFINE new == [latest |-> TRUE, mount |-> mounts, kind |-> kind, jobs |-> Unread, status |-> Unread]
            Old(r) == [r EXCEPT !.latest = FALSE]
<1>1. requests' = {Old(r) : r \in requests} \cup {new}
  BY DEF Refresh
<1>2. \A r \in requests : Old(r).mount = r.mount /\ Old(r).kind = r.kind
  BY DEF TypeOK, Request
<1>3. new.mount = mounts /\ new.kind = kind
  OBVIOUS
<1>. HIDE DEF new, Old
<1>4. \A r \in requests' : r.mount \in 1 .. mounts
  BY <1>1, <1>2, <1>3
<1>5. LivePolls' = {Old(r) : r \in LivePolls} \cup (IF kind = "poll" THEN {new} ELSE {})
  BY <1>1, <1>2, <1>3 DEF LivePolls
<1>6. ASSUME kind = "action", NEW r, LivePolls = {r} PROVE LivePolls' = {Old(r)}
  BY <1>5, <1>6
<1>7. ASSUME kind = "poll", LivePolls = {} PROVE LivePolls' = {new}
  BY <1>5, <1>7
<1>8. ASSUME kind = "action", LivePolls = {} PROVE LivePolls' = {}
  BY <1>5, <1>8
<1>. QED BY <1>4, <1>6, <1>7, <1>8 DEF Single

\* The hook: mount, unmount, the timer, the refresh of an action.
LEMMA HookKeeps ==
  ASSUME PollInv, Mount \/ Unmount \/ ActionRefreshes \/ \E m \in 1 .. MaxMounts : Poll(m)
  PROVE  PollInv'
<1>. USE DEF PollInv
<1>1. OwedInv'
  BY PollFacts DEF Mount, Unmount, ActionRefreshes, Poll, OwedInv
<1>2. /\ mounts \in Nat /\ MaxMounts \in Nat /\ mutations \in Nat /\ MaxVersion \in Nat
      /\ timers \in SUBSET (1 .. MaxMounts)
  BY PollFacts DEF TypeOK
<1>3. CASE Mount
  <2>1. /\ ~mounted /\ mounts + 1 \in 1 .. MaxMounts /\ timers = {}
        /\ mounts' = mounts + 1 /\ mounted' = TRUE /\ Refresh("poll", mounts + 1)
        /\ UNCHANGED <<version, timers, mutations, viewVars, unreachable>>
    BY <1>2, <1>3 DEF Mount, ChainInv, TypeOK
  <2>2. requests' \in SUBSET Request /\ ViewInv'
    BY <2>1, RefreshKeeps DEF viewVars
  <2>3. TypeOK'
    BY <2>1, <2>2 DEF TypeOK, viewVars
  <2>4. ChainInv'
    <3>. DEFINE new == [latest |-> TRUE, mount |-> mounts + 1, kind |-> "poll",
                        jobs |-> Unread, status |-> Unread]
                Old(r) == [r EXCEPT !.latest = FALSE]
    <3>1. requests' = {Old(r) : r \in requests} \cup {new}
      BY <2>1 DEF Refresh
    <3>2. \A r \in requests : Old(r).mount = r.mount /\ r.mount \in 1 .. mounts
      BY DEF TypeOK, Request, ChainInv
    <3>3. new.mount = mounts + 1 /\ new.kind = "poll"
      OBVIOUS
    <3>. HIDE DEF new, Old
    <3>4. \A r \in requests' : r.mount \in 1 .. (mounts + 1)
      BY <1>2, <3>1, <3>2, <3>3
    <3>5. LivePolls' = {new}
      BY <1>2, <2>1, <3>1, <3>2, <3>3 DEF LivePolls
    <3>. QED BY <2>1, <3>4, <3>5 DEF ChainInv, Single
  <2>. QED BY <1>1, <2>2, <2>3, <2>4
<1>4. CASE Unmount
  <2>1. ChainInv'
    BY <1>4 DEF Unmount, ChainInv, LivePolls
  <2>2. TypeOK' /\ ViewInv'
    BY <1>4 DEF Unmount, TypeOK, ViewInv, Fresh, viewVars
  <2>. QED BY <1>1, <2>1, <2>2
<1>5. CASE ActionRefreshes
  <2>1. mutations' \in 0 .. MaxVersion
    BY <1>2, <1>5 DEF ActionRefreshes, TypeOK
  <2>2. CASE mounted
    <3>1. Refresh("action", mounts) /\ UNCHANGED <<version, mounts, mounted, timers, viewVars, unreachable>>
      BY <1>5, <2>2 DEF ActionRefreshes
    <3>2. mounts \in 1 .. MaxMounts
      BY <1>2, <2>2 DEF ChainInv, LivePolls, TypeOK, Single
    <3>3. requests' \in SUBSET Request /\ ViewInv'
      BY <3>1, <3>2, RefreshKeeps DEF viewVars
    <3>4. ChainInv'
      BY <2>2, <3>1, <3>2, RefreshLive DEF ChainInv
    <3>. QED BY <1>1, <2>1, <3>1, <3>3, <3>4 DEF TypeOK, viewVars
  <2>3. CASE ~mounted
    <3>1. UNCHANGED <<requests, version, mounts, mounted, timers, viewVars, unreachable>>
      BY <1>5, <2>3 DEF ActionRefreshes
    <3>. QED BY <1>1, <2>1, <3>1 DEF TypeOK, ChainInv, LivePolls, ViewInv, Fresh, viewVars
  <2>. QED BY <2>2, <2>3
<1>6. ASSUME NEW m \in 1 .. MaxMounts, Poll(m) PROVE PollInv'
  <2>1. mounted /\ timers = {mounts} /\ m = mounts /\ LivePolls = {}
    BY <1>6 DEF Poll, ChainInv
  <2>2. /\ timers' = {} /\ Refresh("poll", mounts)
        /\ UNCHANGED <<version, mounts, mounted, mutations, viewVars, unreachable>>
    BY <1>6, <2>1 DEF Poll
  <2>3. requests' \in SUBSET Request /\ ViewInv'
    BY <2>1, <2>2, RefreshKeeps DEF viewVars
  <2>4. ChainInv'
    BY <2>1, <2>2, RefreshLive DEF ChainInv
  <2>5. TypeOK'
    BY <2>2, <2>3 DEF TypeOK, viewVars
  <2>. QED BY <1>1, <2>3, <2>4, <2>5
<1>. QED BY <1>3, <1>4, <1>5, <1>6

\* The service: a change, an answered read, an answer or a failure that arrives.
LEMMA AnswerKeeps ==
  ASSUME PollInv,
         \/ Change \/ DismissError \/ Reachable
         \/ \E r \in requests : Read(r) \/ Resolved(r) \/ Rejected(r)
  PROVE  PollInv'
<1>. USE DEF PollInv
<1>1. /\ version \in Nat /\ MaxVersion \in Nat /\ mutations \in Nat /\ mounts \in Nat
      /\ jobs \in Nat /\ status \in Nat /\ Versions \subseteq Nat /\ Unread \notin Versions
      /\ \A r \in requests : r \in Request
  BY PollFacts DEF TypeOK
<1>2. CASE Change
  <2>1. version' = version + 1 /\ version' \in Versions
    BY <1>1, <1>2 DEF Change, Versions
  <2>2. mutations' \in 0 .. MaxVersion /\ OwedInv'
    BY <1>1, <1>2 DEF Change, OwedInv
  <2>3. UNCHANGED <<mounts, mounted, requests, timers, viewVars, unreachable>>
    BY <1>2 DEF Change
  <2>4. TypeOK' /\ ChainInv'
    BY <2>1, <2>2, <2>3 DEF TypeOK, ChainInv, LivePolls, viewVars
  <2>5. ViewInv'
    <3>1. jobs <= version' /\ status <= version'
      BY <1>1, <2>1 DEF ViewInv
    <3>2. ASSUME NEW r \in requests, r.latest PROVE Fresh(r.jobs, jobs)' /\ Fresh(r.status, status)'
      <4>1. Fresh(r.jobs, jobs) /\ Fresh(r.status, status)
        BY <3>2 DEF ViewInv
      <4>2. (r.jobs # Unread => r.jobs \in Nat) /\ (r.status # Unread => r.status \in Nat)
        BY <1>1 DEF Request
      <4>3. /\ r.jobs # Unread => jobs <= r.jobs /\ r.jobs <= version + 1
            /\ r.status # Unread => status <= r.status /\ r.status <= version + 1
        BY <1>1, <4>1, <4>2 DEF Fresh
      <4>4. Unread' = Unread /\ UNCHANGED <<jobs, status>>
        BY <2>3 DEF Unread, viewVars
      <4>. QED BY <2>1, <4>3, <4>4 DEF Fresh
    <3>. QED BY <2>3, <3>1, <3>2 DEF ViewInv, viewVars
  <2>. QED BY <2>2, <2>4, <2>5
<1>3. CASE DismissError \/ Reachable
  <2>1. /\ UNCHANGED <<version, mounts, mounted, requests, timers, mutations, jobs, status>>
        /\ error' \in BOOLEAN /\ unreachable' \in BOOLEAN
    BY <1>3 DEF DismissError, Reachable, TypeOK, viewVars
  <2>. QED BY <2>1 DEF TypeOK, OwedInv, ChainInv, LivePolls, ViewInv, Fresh
<1>4. ASSUME NEW r \in requests, Read(r) PROVE PollInv'
  <2>1. PICK half \in {"jobs", "status"} :
          r[half] = Unread /\ requests' = (requests \ {r}) \cup {[r EXCEPT ![half] = version]}
    BY <1>4 DEF Read
  <2>. DEFINE s == [r EXCEPT ![half] = version]
  <2>2. UNCHANGED <<version, mounts, mounted, timers, mutations, viewVars, unreachable>>
    BY <1>4 DEF Read
  <2>3. /\ s \in Request /\ s.mount = r.mount /\ s.kind = r.kind /\ s.latest = r.latest
        /\ s.jobs \in {r.jobs, version} /\ s.status \in {r.status, version}
    BY <1>1 DEF Request, TypeOK
  <2>4. requests' = (requests \ {r}) \cup {s}
    BY <2>1
  <2>. HIDE DEF s
  <2>5. TypeOK'
    BY <1>1, <2>2, <2>3, <2>4 DEF TypeOK, viewVars
  <2>6. ChainInv'
    <3>1. \A q \in requests' : q.mount \in 1 .. mounts
      BY <2>3, <2>4 DEF ChainInv
    <3>2. r \in LivePolls => LivePolls' = (LivePolls \ {r}) \cup {s}
      BY <2>2, <2>3, <2>4 DEF LivePolls
    <3>3. r \notin LivePolls => LivePolls' = LivePolls
      BY <2>2, <2>3, <2>4 DEF LivePolls
    <3>4. ASSUME NEW q, LivePolls = {q} PROVE Single(LivePolls')
      <4>1. CASE r = q
        <5>1. LivePolls' = {s}
          BY <3>2, <3>4, <4>1
        <5>. QED BY <5>1 DEF Single
      <4>2. CASE r # q
        BY <3>3, <3>4, <4>2 DEF Single
      <4>. QED BY <4>1, <4>2
    <3>5. LivePolls = {} => LivePolls' = {}
      BY <3>3
    <3>. QED BY <2>2, <3>1, <3>4, <3>5 DEF ChainInv, Single
  <2>7. ViewInv'
    <3>1. s.latest => Fresh(s.jobs, jobs) /\ Fresh(s.status, status)
      <4>1. jobs <= version /\ status <= version /\ version <= version
        BY <1>1 DEF ViewInv
      <4>2. r.latest => Fresh(r.jobs, jobs) /\ Fresh(r.status, status)
        BY DEF ViewInv
      <4>. QED BY <2>3, <4>1, <4>2 DEF Fresh
    <3>. QED BY <2>2, <2>3, <2>4, <3>1 DEF ViewInv, Fresh, viewVars
  <2>. QED BY <2>2, <2>5, <2>6, <2>7 DEF OwedInv
<1>5. ASSUME NEW r \in requests, Resolved(r) \/ Rejected(r) PROVE PollInv'
  <2>1. /\ requests' = requests \ {r} /\ Rearm(r)
        /\ UNCHANGED <<version, mounts, mounted, mutations, unreachable>>
    BY <1>5 DEF Resolved, Rejected
  <2>2. /\ jobs' \in Versions /\ status' \in Versions /\ error' \in BOOLEAN
        /\ jobs' <= version /\ status' <= version
        /\ UNCHANGED <<jobs, status>> \/ r.latest
    <3>1. CASE Rejected(r) \/ (Resolved(r) /\ ~Shown(r))
      BY <3>1 DEF Resolved, Rejected, TypeOK, ViewInv, viewVars
    <3>2. CASE Resolved(r) /\ Shown(r)
      <4>1. /\ jobs' = r.jobs /\ status' = r.status /\ error' = FALSE /\ r.latest
            /\ Unread \notin {r.jobs, r.status}
        BY <3>2 DEF Resolved, Shown, Show
      <4>2. r.jobs \in Versions /\ r.status \in Versions
        BY <1>1, <4>1 DEF Request
      <4>. QED BY <4>1, <4>2 DEF ViewInv, Fresh
    <3>. QED BY <1>5, <3>1, <3>2
  <2>3. timers' = IF r.kind = "poll" /\ mounted /\ r.mount = mounts THEN timers \cup {mounts} ELSE timers
    BY <2>1 DEF Rearm, Aborted
  <2>4. timers' \in SUBSET (1 .. MaxMounts)
    BY <1>1, <2>3 DEF TypeOK, Request
  <2>5. TypeOK'
    BY <2>1, <2>2, <2>4 DEF TypeOK
  <2>6. ChainInv'
    <3>1. \A q \in requests' : q.mount \in 1 .. mounts
      BY <2>1 DEF ChainInv
    <3>2. LivePolls' = LivePolls \ {r}
      BY <2>1 DEF LivePolls
    <3>3. CASE r \in LivePolls /\ mounted
      <4>1. timers = {} /\ LivePolls = {r}
        BY <3>3 DEF ChainInv, Single
      <4>2. timers' = {mounts} /\ LivePolls' = {}
        BY <2>3, <3>2, <3>3, <4>1 DEF LivePolls
      <4>. QED BY <2>1, <3>1, <3>3, <4>2 DEF ChainInv
    <3>4. CASE r \notin LivePolls \/ ~mounted
      <4>1. timers' = timers /\ (mounted => LivePolls' = LivePolls)
        BY <2>3, <3>2, <3>4 DEF LivePolls
      <4>. QED BY <2>1, <3>1, <4>1 DEF ChainInv
    <3>. QED BY <3>3, <3>4
  <2>7. ViewInv'
    <3>1. CASE UNCHANGED <<jobs, status>>
      BY <2>1, <3>1 DEF ViewInv, Fresh
    <3>2. CASE r.latest
      <4>1. \A q \in requests' : ~q.latest
        BY <2>1, <3>2 DEF ViewInv
      <4>. QED BY <2>1, <2>2, <4>1 DEF ViewInv
    <3>. QED BY <2>2, <3>1, <3>2
  <2>. QED BY <2>1, <2>5, <2>6, <2>7 DEF OwedInv
<1>. QED BY <1>2, <1>3, <1>4, <1>5

\* Every step of the hook, of an action or of the service keeps the invariant.
LEMMA PollStepKeeps == PollInv /\ [Next]_vars => PollInv'
<1>. SUFFICES ASSUME PollInv, [Next]_vars PROVE PollInv'
  OBVIOUS
<1>1. CASE Next
  BY <1>1, HookKeeps, AnswerKeeps DEF Next
<1>2. CASE UNCHANGED vars
  BY <1>2 DEF vars, PollInv, TypeOK, OwedInv, ChainInv, LivePolls, ViewInv, Fresh
<1>. QED BY <1>1, <1>2

\* The requests in flight, the timers and what is shown fit together, however mounts,
\* answers, failures and the refreshes of actions interleave.
THEOREM PollInvariant == Spec => []PollInv
BY PollInit, PollStepKeeps, PTL DEF Spec

\* The finally of poll rearms the timer exactly once per poll, and an unmount ends the
\* chain: useWorkspace polls without overlap and without stopping.
THEOREM OneChainOfPolls == Spec => []OnePollChain
<1>1. PollInv => OnePollChain
  <2>. SUFFICES ASSUME PollInv, mounted
                PROVE  Cardinality({r \in requests : r.kind = "poll" /\ ~Aborted(r.mount)})
                         + Cardinality(timers) = 1
    BY DEF OnePollChain
  <2>1. {r \in requests : r.kind = "poll" /\ ~Aborted(r.mount)} = LivePolls
    BY DEF LivePolls, Aborted
  <2>2. CASE timers = {} /\ Single(LivePolls)
    <3>1. Cardinality(timers) = 0 /\ Cardinality(LivePolls) = 1
      BY <2>2, FS_EmptySet, FS_Singleton DEF Single
    <3>. QED BY <2>1, <3>1
  <2>3. CASE timers = {mounts} /\ LivePolls = {}
    <3>1. Cardinality(timers) = 1 /\ Cardinality(LivePolls) = 0
      BY <2>3, FS_EmptySet, FS_Singleton
    <3>. QED BY <2>1, <3>1
  <2>. QED BY <2>2, <2>3 DEF PollInv, ChainInv
<1>. QED BY <1>1, PollInvariant, PTL

\* The sequence number of refresh: an answer that a later refresh overtook is not shown, so
\* neither the jobs nor the status go back to an older version.
THEOREM ViewOnlyAdvances == Spec => ViewNeverGoesBack
<1>1. PollInv /\ [Next]_vars => [jobs' >= jobs /\ status' >= status]_vars
  <2>. SUFFICES ASSUME PollInv, Next PROVE jobs' >= jobs /\ status' >= status
    OBVIOUS
  <2>1. jobs \in Nat /\ status \in Nat /\ \A r \in requests : r \in Request
    BY PollFacts DEF PollInv, TypeOK
  <2>2. CASE UNCHANGED <<jobs, status>>
    BY <2>1, <2>2
  <2>3. ASSUME NEW r \in requests, Resolved(r), Shown(r) PROVE jobs' >= jobs /\ status' >= status
    <3>1. jobs' = r.jobs /\ status' = r.status /\ r.latest /\ Unread \notin {r.jobs, r.status}
      BY <2>3 DEF Resolved, Shown, Show
    <3>2. jobs <= r.jobs /\ status <= r.status /\ r.jobs \in Nat /\ r.status \in Nat
      BY <2>1, <3>1, PollFacts DEF PollInv, ViewInv, Fresh, Request
    <3>. QED BY <2>1, <3>1, <3>2
  <2>. QED
    BY <2>2, <2>3
    DEF Next, Mount, Unmount, Change, ActionRefreshes, DismissError, Reachable, Poll, Read, Resolved,
        Rejected, viewVars
<1>. QED BY <1>1, PollInvariant, PTL DEF Spec, ViewNeverGoesBack

\* The abort of the effect's controller: what is still in flight after an unmount, polls and
\* refreshes of actions alike, changes nothing that is shown.
THEOREM UnmountedIsQuiet == Spec => UnmountIsQuiet
<1>. DEFINE Quiet == ~mounted => jobs' = jobs /\ status' = status /\ (error' => error)
<1>1. PollInv /\ [Next]_vars => [Quiet]_vars
  <2>. SUFFICES ASSUME PollInv, Next, ~mounted
                PROVE  jobs' = jobs /\ status' = status /\ (error' => error)
    OBVIOUS
  <2>1. \A m : Aborted(m)
    BY DEF Aborted
  <2>2. ASSUME NEW r \in requests, Resolved(r) \/ Rejected(r)
        PROVE  jobs' = jobs /\ status' = status /\ (error' => error)
    BY <2>1, <2>2 DEF Resolved, Rejected, Shown, viewVars
  <2>. QED
    BY <2>2
    DEF Next, Mount, Unmount, Change, ActionRefreshes, DismissError, Reachable, Poll, Read, viewVars
<1>. QED BY <1>1, PollInvariant, PTL DEF Spec, UnmountIsQuiet
===============================================================================
