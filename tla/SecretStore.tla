------------------------------ MODULE SecretStore -----------------------------
(***************************************************************************)
(* The saved Apple session (secrets.Store): secrets/account.json, written  *)
(* through a temporary file and a rename, read at startup and before every *)
(* decryption, by processes that are configured, crash and are configured  *)
(* anew.  The store's mutex keeps one Save or Load at a time, so one save  *)
(* in progress is enough.                                                  *)
(*                                                                         *)
(* Disk: what a crash can undo is modelled.  A file that was not synced    *)
(* may come back torn; a rename may be lost until its directory is synced. *)
(* A token is named by the identity it was issued to and a serial number.  *)
(* The check that the file is private and regular concerns files the       *)
(* program did not write and is left out.                                  *)
(***************************************************************************)
EXTENDS Naturals

CONSTANTS
  Emails, MACs,     \* what the operator may configure
  NoEmail,          \* no account is configured
  None,             \* no process, no file, no account
  Torn,             \* what is left of a file that was not synced: not an account
  MaxTokens         \* bound: tokens Apple issues in a run

ASSUME EmailsAssumption == NoEmail \notin Emails
ASSUME NoneAssumption == None # Torn
ASSUME MaxTokensAssumption == MaxTokens \in Nat

Tokens == [email : Emails, mac : MACs, serial : 1 .. MaxTokens] \cup {None}

\* An account as it is saved (the password is never part of it) or in memory.
Accounts == [email : Emails, mac : MACs, token : Tokens]
Configs == [email : Emails \cup {NoEmail}, mac : MACs]

VARIABLES
  config,       \* email and MAC of the running process, or None
  entry,        \* what the name account.json shows to this process
  loose,        \* the data behind that name has not been synced
  disk,         \* what it shows after a crash that loses the unsynced rename
  save,         \* the Save in progress
  session,      \* the account the current decryption uses
  issued,       \* tokens issued so far
  allowed       \* what account.json may hold: the last save that returned, and later tries

vars == <<config, entry, loose, disk, save, session, issued, allowed>>

Save == [step : {"idle", "create", "write", "sync", "rename", "sync-dir"},
         data : Accounts \cup {None},
         synced : BOOLEAN]
Idle == [step |-> "idle", data |-> None, synced |-> FALSE]

TypeOK ==
  /\ config \in Configs \cup {None}
  /\ entry \in Accounts \cup {None, Torn}
  /\ loose \in BOOLEAN
  /\ disk \in Accounts \cup {None, Torn}
  /\ save \in Save
  /\ session \in Accounts \cup {None}
  /\ issued \in 0 .. MaxTokens
  /\ allowed \in SUBSET (Accounts \cup {None})

Init ==
  /\ config = None
  /\ entry = None /\ disk = None /\ loose = FALSE
  /\ save = Idle /\ session = None
  /\ issued = 0
  /\ allowed = {None}

------------------------------------------------------------------------------

\* Load under a configuration returns an error.
LoadFails(c) ==
  c.email # NoEmail /\ entry # None /\ (entry = Torn \/ entry.email # c.email)

\* Mutant: the saved token is used whatever machine identity it was issued to.
Loaded_KeepsToken(c) ==
  IF c.email = NoEmail THEN None
  ELSE [email |-> c.email, mac |-> c.mac,
        token |-> IF entry = None THEN None ELSE entry.token]

\* What Load returns otherwise.
Loaded(c) ==
  IF c.email = NoEmail THEN None
  ELSE [email |-> c.email, mac |-> c.mac,
        token |-> IF entry = None \/ entry.mac # c.mac THEN None ELSE entry.token]

\* The process starts under some configuration; a session it cannot load stops it.
Start(c) ==
  /\ config = None
  /\ ~LoadFails(c)
  /\ config' = c
  /\ UNCHANGED <<entry, loose, disk, save, session, issued, allowed>>

\* Adapter.Decrypt loads the account ...
LoadAccount ==
  /\ config # None /\ save = Idle
  /\ ~LoadFails(config)
  /\ session' = Loaded(config)
  /\ UNCHANGED <<config, entry, loose, disk, save, issued, allowed>>

\* ... logs in when it has no token, and the library may renew one at any time
\* (OnAccountUpdate).  Both are saved.
TokenIssued ==
  /\ config # None /\ save = Idle
  /\ session # None
  /\ issued < MaxTokens
  /\ issued' = issued + 1
  /\ session' = [session EXCEPT !.token =
                   [email |-> session.email, mac |-> session.mac, serial |-> issued + 1]]
  /\ save' = [step |-> "create", data |-> [session' EXCEPT !.mac = config.mac],
              synced |-> FALSE]
  /\ UNCHANGED <<config, entry, loose, disk, allowed>>

------------------------------------------------------------------------------
(* Save.                                                                     *)

SaveTo(step) == save' = [save EXCEPT !.step = step]

SaveCreates ==
  /\ save.step = "create"
  /\ SaveTo("write")
  /\ UNCHANGED <<config, entry, loose, disk, session, issued, allowed>>

SaveWrites ==
  /\ save.step = "write"
  /\ SaveTo("sync")
  /\ UNCHANGED <<config, entry, loose, disk, session, issued, allowed>>

\* Mutant: the data is renamed into place without being synced.
SaveSyncs_Skipped ==
  /\ save.step = "sync"
  /\ SaveTo("rename")
  /\ UNCHANGED <<config, entry, loose, disk, session, issued, allowed>>

SaveSyncs ==
  /\ save.step = "sync"
  /\ save' = [save EXCEPT !.step = "rename", !.synced = TRUE]
  /\ UNCHANGED <<config, entry, loose, disk, session, issued, allowed>>

SaveRenames ==
  /\ save.step = "rename"
  /\ entry' = save.data /\ loose' = ~save.synced
  /\ allowed' = allowed \cup {save.data}
  /\ SaveTo("sync-dir")
  /\ UNCHANGED <<config, disk, session, issued>>

\* The directory is synced and Save returns nil.
SaveReturns ==
  /\ save.step = "sync-dir"
  /\ disk' = entry
  /\ save' = Idle
  /\ allowed' = {save.data}
  /\ UNCHANGED <<config, entry, loose, session, issued>>

\* A step of Save fails: the temporary file goes.  A login ends there; what the
\* library does about a renewed session it could not hand over is open.
SaveFails ==
  /\ save.step # "idle"
  /\ save' = Idle
  /\ session' \in {None, session}
  /\ UNCHANGED <<config, entry, loose, disk, issued, allowed>>

\* The process ends, with or without the machine.
Crash ==
  /\ config # None
  /\ config' = None /\ save' = Idle /\ session' = None
  /\ \E survives \in {disk, entry} \cup (IF loose THEN {Torn} ELSE {}) :
       entry' = survives /\ disk' = survives
  /\ loose' = FALSE
  /\ UNCHANGED <<issued, allowed>>

Next ==
  \/ \E c \in Configs : Start(c)
  \/ LoadAccount \/ TokenIssued
  \/ SaveCreates \/ SaveWrites \/ SaveSyncs \/ SaveRenames \/ SaveReturns \/ SaveFails
  \/ Crash

Spec == Init /\ [][Next]_vars

------------------------------------------------------------------------------

\* account.json holds the last session whose Save returned, or one that a later Save
\* renamed: through crashes at any step, and never a torn file, which would keep the
\* service from starting.
SavedSessionSurvives == entry \in allowed /\ disk \in allowed

\* A token is only ever used under the account and the machine identity it was issued
\* to, whatever was configured in between ("App Store tokens are tied to the machine
\* identity", store.go:49).
TokenMatchesIdentity ==
  session # None /\ session.token # None =>
    /\ session.token.email = config.email
    /\ session.token.mac = config.mac
===============================================================================
