-------------------------- MODULE JobTransportProof ---------------------------
(***************************************************************************)
(* The transport's safety, for any number of decryptions and requests.     *)
(***************************************************************************)
EXTENDS JobTransport, TLAPS

\* The active scope is that of the one Decrypt in progress.
ScopeInv == \A d \in Decrypts : active = d <=> decrypt[d] = "in"

\* A round trip is made within a Decrypt, and one that has taken the scope is tied.
CallerInv ==
  \A r \in Requests :
    /\ step[r] = "new" => bound[r] = None
    /\ step[r] \in InTrip =>
         caller[r] \in Decrypts /\ decrypt[caller[r]] = "in"
    /\ step[r] = "scope" => bound[r] = None

\* A hook is registered only between BindContext and the release.
HookInv ==
  \A r \in Requests : hook[r] = "armed" => step[r] \in {"check", "base", "body"}

TransportInv ==
  TypeOK /\ ScopeInv /\ CallerInv /\ BoundToOwnJob /\ HookInv

\* Nothing is active at first.
LEMMA TransportInit == Init => TransportInv
  BY NoneAssumption
     DEF Init, TransportInv, TypeOK, ScopeInv, CallerInv, BoundToOwnJob, HookInv,
         Steps, InTrip

\* Every step of Decrypt, RoundTrip, the hook and the body keeps the invariant.
LEMMA TransportStep == TransportInv /\ [Next]_vars => TransportInv'
  <1> SUFFICES ASSUME TransportInv, [Next]_vars PROVE TransportInv'
    OBVIOUS
  <1> USE NoneAssumption
          DEF TransportInv, TypeOK, ScopeInv, CallerInv, BoundToOwnJob, HookInv,
              Steps, InTrip, requestVars
  <1>1. ASSUME NEW d \in Decrypts, Scope(d) PROVE TransportInv'
    <2>1. TypeOK'
      BY <1>1 DEF Scope
    <2>2. ScopeInv'
      BY <1>1 DEF Scope
    <2>3. CallerInv'
      BY <1>1 DEF Scope
    <2>4. BoundToOwnJob'
      BY <1>1 DEF Scope
    <2>5. HookInv'
      BY <1>1 DEF Scope
    <2> QED BY <2>1, <2>2, <2>3, <2>4, <2>5 DEF TransportInv
  <1>2. ASSUME NEW d \in Decrypts, DecryptReturns(d) PROVE TransportInv'
    <2>1. TypeOK'
      BY <1>2 DEF DecryptReturns
    <2>2. ScopeInv'
      BY <1>2 DEF DecryptReturns
    <2>3. CallerInv'
      BY <1>2 DEF DecryptReturns
    <2>4. BoundToOwnJob'
      BY <1>2 DEF DecryptReturns
    <2>5. HookInv'
      BY <1>2 DEF DecryptReturns
    <2> QED BY <2>1, <2>2, <2>3, <2>4, <2>5 DEF TransportInv
  <1>3. ASSUME NEW d \in Decrypts, ContextEnds(d) PROVE TransportInv'
    <2>1. TypeOK'
      BY <1>3 DEF ContextEnds
    <2>2. ScopeInv'
      BY <1>3 DEF ContextEnds
    <2>3. CallerInv'
      BY <1>3 DEF ContextEnds
    <2>4. BoundToOwnJob'
      BY <1>3 DEF ContextEnds
    <2>5. HookInv'
      BY <1>3 DEF ContextEnds
    <2> QED BY <2>1, <2>2, <2>3, <2>4, <2>5 DEF TransportInv
  <1>4. ASSUME NEW r \in Requests, NEW d \in Decrypts, RequestStarts(r, d) PROVE TransportInv'
    <2>1. TypeOK'
      BY <1>4 DEF RequestStarts
    <2>2. ScopeInv'
      BY <1>4 DEF RequestStarts
    <2>3. CallerInv'
      BY <1>4 DEF RequestStarts
    <2>4. BoundToOwnJob'
      BY <1>4 DEF RequestStarts
    <2>5. HookInv'
      BY <1>4 DEF RequestStarts
    <2> QED BY <2>1, <2>2, <2>3, <2>4, <2>5 DEF TransportInv
  <1>5. ASSUME NEW r \in Requests, TakeScope(r) PROVE TransportInv'
    <2>1. TypeOK'
      BY <1>5 DEF TakeScope
    <2>2. ScopeInv'
      BY <1>5 DEF TakeScope
    <2>3. CallerInv'
      BY <1>5 DEF TakeScope
    <2>4. BoundToOwnJob'
      BY <1>5 DEF TakeScope
    <2>5. HookInv'
      BY <1>5 DEF TakeScope
    <2> QED BY <2>1, <2>2, <2>3, <2>4, <2>5 DEF TransportInv
  <1>6. ASSUME NEW r \in Requests, RequestRefused(r) PROVE TransportInv'
    <2>1. TypeOK'
      BY <1>6 DEF RequestRefused
    <2>2. ScopeInv'
      BY <1>6 DEF RequestRefused
    <2>3. CallerInv'
      BY <1>6 DEF RequestRefused
    <2>4. BoundToOwnJob'
      BY <1>6 DEF RequestRefused
    <2>5. HookInv'
      BY <1>6 DEF RequestRefused
    <2> QED BY <2>1, <2>2, <2>3, <2>4, <2>5 DEF TransportInv
  <1>7. ASSUME NEW r \in Requests, BindContext(r) PROVE TransportInv'
    <2>1. TypeOK'
      BY <1>7 DEF BindContext
    <2>2. ScopeInv'
      BY <1>7 DEF BindContext
    <2>3. CallerInv'
      BY <1>7 DEF BindContext
    <2>4. BoundToOwnJob'
      BY <1>7 DEF BindContext
    <2>5. HookInv'
      BY <1>7 DEF BindContext
    <2> QED BY <2>1, <2>2, <2>3, <2>4, <2>5 DEF TransportInv
  <1>8. ASSUME NEW r \in Requests, CheckJob(r) PROVE TransportInv'
    <2>1. TypeOK'
      BY <1>8 DEF CheckJob
    <2>2. ScopeInv'
      BY <1>8 DEF CheckJob
    <2>3. CallerInv'
      BY <1>8 DEF CheckJob
    <2>4. BoundToOwnJob'
      BY <1>8 DEF CheckJob
    <2>5. HookInv'
      BY <1>8 DEF CheckJob
    <2> QED BY <2>1, <2>2, <2>3, <2>4, <2>5 DEF TransportInv
  <1>9. ASSUME NEW r \in Requests, HookFires(r) PROVE TransportInv'
    <2>1. TypeOK'
      BY <1>9 DEF HookFires
    <2>2. ScopeInv'
      BY <1>9 DEF HookFires
    <2>3. CallerInv'
      BY <1>9 DEF HookFires
    <2>4. BoundToOwnJob'
      BY <1>9 DEF HookFires
    <2>5. HookInv'
      BY <1>9 DEF HookFires
    <2> QED BY <2>1, <2>2, <2>3, <2>4, <2>5 DEF TransportInv
  <1>10. ASSUME NEW r \in Requests, BaseResponds(r) PROVE TransportInv'
    <2>1. TypeOK'
      BY <1>10 DEF BaseResponds
    <2>2. ScopeInv'
      BY <1>10 DEF BaseResponds
    <2>3. CallerInv'
      BY <1>10 DEF BaseResponds
    <2>4. BoundToOwnJob'
      BY <1>10 DEF BaseResponds
    <2>5. HookInv'
      BY <1>10 DEF BaseResponds
    <2> QED BY <2>1, <2>2, <2>3, <2>4, <2>5 DEF TransportInv
  <1>11. ASSUME NEW r \in Requests, BaseFails(r) PROVE TransportInv'
    <2>1. TypeOK'
      BY <1>11 DEF BaseFails, Release
    <2>2. ScopeInv'
      BY <1>11 DEF BaseFails, Release
    <2>3. CallerInv'
      BY <1>11 DEF BaseFails, Release
    <2>4. BoundToOwnJob'
      BY <1>11 DEF BaseFails, Release
    <2>5. HookInv'
      BY <1>11 DEF BaseFails, Release
    <2> QED BY <2>1, <2>2, <2>3, <2>4, <2>5 DEF TransportInv
  <1>12. ASSUME NEW r \in Requests, BodyEnds(r) PROVE TransportInv'
    <2>1. TypeOK'
      BY <1>12 DEF BodyEnds, Release
    <2>2. ScopeInv'
      BY <1>12 DEF BodyEnds, Release
    <2>3. CallerInv'
      BY <1>12 DEF BodyEnds, Release
    <2>4. BoundToOwnJob'
      BY <1>12 DEF BodyEnds, Release
    <2>5. HookInv'
      BY <1>12 DEF BodyEnds, Release
    <2> QED BY <2>1, <2>2, <2>3, <2>4, <2>5 DEF TransportInv
  <1>13. CASE UNCHANGED vars
    BY <1>13 DEF vars
  <1> QED
    BY <1>1, <1>2, <1>3, <1>4, <1>5, <1>6, <1>7, <1>8, <1>9, <1>10, <1>11, <1>12, <1>13 DEF Next, RoundTrip, Ends

\* The invariant holds throughout.
THEOREM TransportInvariant == Spec => []TransportInv
  BY TransportInit, TransportStep, PTL DEF Spec

\* A request only ever runs under the context of the Decrypt it is made for.
THEOREM RequestsFollowTheirJob == Spec => []BoundToOwnJob
  <1>1. TransportInv => BoundToOwnJob
    BY DEF TransportInv
  <1> QED BY <1>1, TransportInvariant, PTL

\* A finished request leaves no hook with the job's context.
THEOREM RequestsUnregister == Spec => []NothingLeftRegistered
  <1>1. TransportInv => NothingLeftRegistered
    BY DEF TransportInv, HookInv, NothingLeftRegistered
  <1> QED BY <1>1, TransportInvariant, PTL
===============================================================================
