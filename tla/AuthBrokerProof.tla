--------------------------- MODULE AuthBrokerProof ----------------------------
(***************************************************************************)
(* The broker's safety, for any jobs, calls and codes.                     *)
(***************************************************************************)
EXTENDS AuthBroker, TLAPS

\* A call that never opened a challenge has no code, in hand or in its channel; one
\* that did has its job.
CallInv ==
  \A c \in Calls :
    IF call[c].step \in {"new", "refused"}
    THEN call[c].code = None /\ buffer[c] = None
    ELSE call[c].id \in Jobs

\* What lies in a channel was put there for the call that made it.
BufferInv ==
  \A c \in Calls : buffer[c] # None =>
    /\ origin[buffer[c]].job = call[c].id
    /\ c \in origin[buffer[c]].open

BrokerInv ==
  TypeOK /\ ChallengeHasCaller /\ CallInv /\ BufferInv /\ CodeStaysInChallenge

\* The broker starts without a challenge.
LEMMA BrokerInit == Init => BrokerInv
  BY NoneAssumption
     DEF Init, BrokerInv, TypeOK, ChallengeHasCaller, CallInv, BufferInv,
         CodeStaysInChallenge, Open, Call

\* Every step of Request, Submit and the contexts keeps the invariant.
LEMMA BrokerStep == BrokerInv /\ [Next]_vars => BrokerInv'
  <1> SUFFICES ASSUME BrokerInv, [Next]_vars PROVE BrokerInv'
    OBVIOUS
  <1> USE NoneAssumption
          DEF BrokerInv, TypeOK, ChallengeHasCaller, CallInv, BufferInv,
              CodeStaysInChallenge, Open, Call
  <1>1. ASSUME NEW c \in Calls, NEW j \in Jobs, Request(c, j) PROVE BrokerInv'
    <2>1. TypeOK'
      BY <1>1 DEF Request
    <2>2. ChallengeHasCaller'
      BY <1>1 DEF Request
    <2>3. CallInv'
      BY <1>1 DEF Request
    <2>4. BufferInv'
      BY <1>1 DEF Request
    <2>5. CodeStaysInChallenge'
      BY <1>1 DEF Request
    <2> QED BY <2>1, <2>2, <2>3, <2>4, <2>5
  <1>2. ASSUME NEW c \in Calls, RequestReceives(c) PROVE BrokerInv'
    <2>1. TypeOK'
      <3>1. call[c] \in Call /\ buffer[c] \in Codes
        BY <1>2 DEF RequestReceives
      <3>2. [call[c] EXCEPT !.step = "reset", !.code = buffer[c]] \in Call
        BY <3>1
      <3>3. call' \in [Calls -> Call]
        BY <1>2, <3>2 DEF RequestReceives
      <3> QED BY <1>2, <3>3 DEF RequestReceives
    <2>2. ChallengeHasCaller'
      BY <1>2 DEF RequestReceives
    <2>3. CallInv'
      BY <1>2 DEF RequestReceives
    <2>4. BufferInv'
      BY <1>2 DEF RequestReceives
    <2>5. CodeStaysInChallenge'
      BY <1>2 DEF RequestReceives
    <2> QED BY <2>1, <2>2, <2>3, <2>4, <2>5
  <1>3. ASSUME NEW c \in Calls, RequestGivesUp(c) PROVE BrokerInv'
    <2>1. TypeOK'
      <3>1. [call[c] EXCEPT !.step = "reset"] \in Call
        BY <1>3
      <3>2. call' \in [Calls -> Call]
        BY <1>3, <3>1 DEF RequestGivesUp
      <3> QED BY <1>3, <3>2 DEF RequestGivesUp
    <2>2. ChallengeHasCaller'
      BY <1>3 DEF RequestGivesUp
    <2>3. CallInv'
      BY <1>3 DEF RequestGivesUp
    <2>4. BufferInv'
      BY <1>3 DEF RequestGivesUp
    <2>5. CodeStaysInChallenge'
      BY <1>3 DEF RequestGivesUp
    <2> QED BY <2>1, <2>2, <2>3, <2>4, <2>5
  <1>4. ASSUME NEW c \in Calls, RequestResets(c) PROVE BrokerInv'
    <2>1. TypeOK'
      BY <1>4 DEF RequestResets
    <2>2. ChallengeHasCaller'
      BY <1>4 DEF RequestResets
    <2>3. CallInv'
      BY <1>4 DEF RequestResets
    <2>4. BufferInv'
      BY <1>4 DEF RequestResets
    <2>5. CodeStaysInChallenge'
      BY <1>4 DEF RequestResets
    <2> QED BY <2>1, <2>2, <2>3, <2>4, <2>5
  <1>5. ASSUME NEW c \in Calls, ContextEnds(c) PROVE BrokerInv'
    <2>1. TypeOK'
      BY <1>5 DEF ContextEnds
    <2>2. ChallengeHasCaller'
      BY <1>5 DEF ContextEnds
    <2>3. CallInv'
      BY <1>5 DEF ContextEnds
    <2>4. BufferInv'
      BY <1>5 DEF ContextEnds
    <2>5. CodeStaysInChallenge'
      BY <1>5 DEF ContextEnds
    <2> QED BY <2>1, <2>2, <2>3, <2>4, <2>5
  <1>6. ASSUME NEW j \in Jobs, NEW x \in Codes, Submit(j, x) PROVE BrokerInv'
    <2>1. TypeOK'
      BY <1>6 DEF Submit
    <2>2. ChallengeHasCaller'
      BY <1>6 DEF Submit
    <2>3. CallInv'
      BY <1>6 DEF Submit
    <2>4. BufferInv'
      BY <1>6 DEF Submit
    <2>5. CodeStaysInChallenge'
      BY <1>6 DEF Submit
    <2> QED BY <2>1, <2>2, <2>3, <2>4, <2>5
  <1>7. CASE UNCHANGED vars
    BY <1>7 DEF vars
  <1> QED
    BY <1>1, <1>2, <1>3, <1>4, <1>5, <1>6, <1>7 DEF Next, RequestStep

\* The invariant holds throughout.
THEOREM BrokerInvariant == Spec => []BrokerInv
  BY BrokerInit, BrokerStep, PTL DEF Spec

\* The broker is pending exactly while one call is open, and for that call's job.
THEOREM ChallengesAreOwned == Spec => []ChallengeHasCaller
  <1>1. BrokerInv => ChallengeHasCaller
    BY DEF BrokerInv
  <1> QED BY <1>1, BrokerInvariant, PTL

\* A call returns only a code submitted for its job while the call was open.
THEOREM CodesStayInChallenge == Spec => []CodeStaysInChallenge
  <1>1. BrokerInv => CodeStaysInChallenge
    BY DEF BrokerInv
  <1> QED BY <1>1, BrokerInvariant, PTL
===============================================================================
