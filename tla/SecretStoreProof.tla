--------------------------- MODULE SecretStoreProof ---------------------------
(***************************************************************************)
(* The saved session's safety, for any accounts, identities and tokens.    *)
(***************************************************************************)
EXTENDS SecretStore, TLAPS

\* The token of an account was issued to that account and its machine identity.
Matched(a) == a.token # None => a.token.email = a.email /\ a.token.mac = a.mac

\* The file holds what it may, which is a matched account or nothing, and its data
\* is synced.
FileInv ==
  /\ SavedSessionSurvives
  /\ ~loose
  /\ \A a \in allowed : a # None => Matched(a)

\* Save runs in a live process on a matched account, syncs before it renames, and
\* syncs the directory over what it renamed.
SaveInv ==
  save.step # "idle" =>
    /\ config # None
    /\ save.data \in Accounts /\ Matched(save.data)
    /\ save.step = "rename" => save.synced
    /\ save.step = "sync-dir" => entry = save.data

\* The account in use is the configured one.
SessionInv ==
  session # None => /\ config # None
                    /\ session.email = config.email
                    /\ session.mac = config.mac
                    /\ Matched(session)

StoreInv == TypeOK /\ FileInv /\ SaveInv /\ SessionInv

\* Nothing is saved at first.
LEMMA StoreInit == Init => StoreInv
  <1> SUFFICES ASSUME Init PROVE StoreInv
    OBVIOUS
  <1>1. TypeOK
    <2>1. issued \in 0 .. MaxTokens
      BY MaxTokensAssumption DEF Init
    <2>2. save \in Save
      BY DEF Init, Save, Idle
    <2>3. allowed \in SUBSET (Accounts \cup {None})
      BY DEF Init
    <2> QED BY <2>1, <2>2, <2>3 DEF Init, TypeOK
  <1>2. FileInv
    BY DEF Init, FileInv, SavedSessionSurvives
  <1>3. SaveInv
    BY DEF Init, SaveInv, Idle
  <1>4. SessionInv
    BY DEF Init, SessionInv
  <1> QED BY <1>1, <1>2, <1>3, <1>4 DEF StoreInv

\* Every step of a process, of Save and of a crash keeps the invariant.
LEMMA StoreStep == StoreInv /\ [Next]_vars => StoreInv'
  <1> SUFFICES ASSUME StoreInv, [Next]_vars PROVE StoreInv'
    OBVIOUS
  <1> USE EmailsAssumption, MaxTokensAssumption
          DEF StoreInv, TypeOK, FileInv, SavedSessionSurvives, SaveInv, SessionInv,
              Matched, Save, Idle, Accounts, Configs, SaveTo
  <1>1. ASSUME NEW c \in Configs, Start(c) PROVE StoreInv'
    <2>1. TypeOK'
      BY <1>1 DEF Start
    <2>2. FileInv'
      BY <1>1 DEF Start
    <2>3. SaveInv'
      BY <1>1 DEF Start
    <2>4. SessionInv'
      BY <1>1 DEF Start
    <2> QED BY <2>1, <2>2, <2>3, <2>4 DEF StoreInv
  <1>2. ASSUME LoadAccount PROVE StoreInv'
    <2>1. TypeOK'
      BY <1>2 DEF LoadAccount, Loaded, LoadFails, Tokens
    <2>2. FileInv'
      BY <1>2 DEF LoadAccount, Loaded, LoadFails, Tokens
    <2>3. SaveInv'
      BY <1>2 DEF LoadAccount, Loaded, LoadFails, Tokens
    <2>4. SessionInv'
      BY <1>2 DEF LoadAccount, Loaded, LoadFails, Tokens
    <2> QED BY <2>1, <2>2, <2>3, <2>4 DEF StoreInv
  <1>3. ASSUME TokenIssued PROVE StoreInv'
    <2> DEFINE t == [email |-> session.email, mac |-> session.mac, serial |-> issued + 1]
    <2>1. session \in Accounts /\ issued + 1 \in 1 .. MaxTokens
      BY <1>3 DEF TokenIssued
    <2>2. t \in Tokens /\ t.email = session.email /\ t.mac = session.mac
      BY <2>1 DEF Tokens
    <2>3. /\ session' = [email |-> session.email, mac |-> session.mac, token |-> t]
          /\ save' = [step |-> "create", data |-> session', synced |-> FALSE]
      BY <1>3, <2>1 DEF TokenIssued
    <2> HIDE DEF t
    <2>4. session' \in Accounts /\ Matched(session')
      BY <2>1, <2>2, <2>3
    <2>5. TypeOK'
      BY <1>3, <2>1, <2>3, <2>4 DEF TokenIssued
    <2>6. FileInv'
      BY <1>3 DEF TokenIssued
    <2>7. SaveInv'
      BY <1>3, <2>3, <2>4 DEF TokenIssued
    <2>8. SessionInv'
      BY <1>3, <2>3, <2>4 DEF TokenIssued
    <2> QED BY <2>5, <2>6, <2>7, <2>8 DEF StoreInv
  <1>4. ASSUME SaveCreates PROVE StoreInv'
    <2>1. TypeOK'
      BY <1>4 DEF SaveCreates
    <2>2. FileInv'
      BY <1>4 DEF SaveCreates
    <2>3. SaveInv'
      BY <1>4 DEF SaveCreates
    <2>4. SessionInv'
      BY <1>4 DEF SaveCreates
    <2> QED BY <2>1, <2>2, <2>3, <2>4 DEF StoreInv
  <1>5. ASSUME SaveWrites PROVE StoreInv'
    <2>1. TypeOK'
      BY <1>5 DEF SaveWrites
    <2>2. FileInv'
      BY <1>5 DEF SaveWrites
    <2>3. SaveInv'
      BY <1>5 DEF SaveWrites
    <2>4. SessionInv'
      BY <1>5 DEF SaveWrites
    <2> QED BY <2>1, <2>2, <2>3, <2>4 DEF StoreInv
  <1>6. ASSUME SaveSyncs PROVE StoreInv'
    <2>1. TypeOK'
      BY <1>6 DEF SaveSyncs
    <2>2. FileInv'
      BY <1>6 DEF SaveSyncs
    <2>3. SaveInv'
      BY <1>6 DEF SaveSyncs
    <2>4. SessionInv'
      BY <1>6 DEF SaveSyncs
    <2> QED BY <2>1, <2>2, <2>3, <2>4 DEF StoreInv
  <1>7. ASSUME SaveRenames PROVE StoreInv'
    <2>1. TypeOK'
      BY <1>7 DEF SaveRenames
    <2>2. FileInv'
      BY <1>7 DEF SaveRenames
    <2>3. SaveInv'
      BY <1>7 DEF SaveRenames
    <2>4. SessionInv'
      BY <1>7 DEF SaveRenames
    <2> QED BY <2>1, <2>2, <2>3, <2>4 DEF StoreInv
  <1>8. ASSUME SaveReturns PROVE StoreInv'
    <2>1. TypeOK'
      BY <1>8 DEF SaveReturns
    <2>2. FileInv'
      BY <1>8 DEF SaveReturns
    <2>3. SaveInv'
      BY <1>8 DEF SaveReturns
    <2>4. SessionInv'
      BY <1>8 DEF SaveReturns
    <2> QED BY <2>1, <2>2, <2>3, <2>4 DEF StoreInv
  <1>9. ASSUME SaveFails PROVE StoreInv'
    <2>1. TypeOK'
      BY <1>9 DEF SaveFails
    <2>2. FileInv'
      BY <1>9 DEF SaveFails
    <2>3. SaveInv'
      BY <1>9 DEF SaveFails
    <2>4. SessionInv'
      BY <1>9 DEF SaveFails
    <2> QED BY <2>1, <2>2, <2>3, <2>4 DEF StoreInv
  <1>10. ASSUME Crash PROVE StoreInv'
    <2>1. TypeOK'
      BY <1>10 DEF Crash
    <2>2. FileInv'
      BY <1>10 DEF Crash
    <2>3. SaveInv'
      BY <1>10 DEF Crash
    <2>4. SessionInv'
      BY <1>10 DEF Crash
    <2> QED BY <2>1, <2>2, <2>3, <2>4 DEF StoreInv
  <1>11. CASE UNCHANGED vars
    BY <1>11 DEF vars
  <1> QED
    BY <1>1, <1>2, <1>3, <1>4, <1>5, <1>6, <1>7, <1>8, <1>9, <1>10, <1>11 DEF Next

\* The invariant holds throughout.
THEOREM StoreInvariant == Spec => []StoreInv
  BY StoreInit, StoreStep, PTL DEF Spec

\* Through crashes at any step, the file holds the last session whose Save returned
\* or one renamed since.
THEOREM SessionSurvives == Spec => []SavedSessionSurvives
  <1>1. StoreInv => SavedSessionSurvives
    BY DEF StoreInv, FileInv
  <1> QED BY <1>1, StoreInvariant, PTL

\* A token is used only under the identity it was issued to.
THEOREM TokensMatch == Spec => []TokenMatchesIdentity
  <1>1. StoreInv => TokenMatchesIdentity
    BY DEF StoreInv, SessionInv, Matched, TokenMatchesIdentity
  <1> QED BY <1>1, StoreInvariant, PTL
===============================================================================
