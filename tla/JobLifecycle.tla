----------------------------- MODULE JobLifecycle -----------------------------
(***************************************************************************)
(* What the service promises about its jobs, without files, attempts,      *)
(* crashes or reviews.  There is one device.  A job waits, then occupies   *)
(* the device alone from the moment it starts until its outcome is final;  *)
(* it is never started twice and never goes back.  A withdrawal            *)
(* (cancellation) is accepted while the job waits or works, and a job that *)
(* was withdrawn does not complete.                                        *)
(***************************************************************************)
CONSTANT Jobs

VARIABLES
  phase,        \* the stage of every job
  withdrawn     \* the jobs whose cancellation was accepted

lifecycleVars == <<phase, withdrawn>>

Outcomes == {"completed", "failed", "cancelled"}
Phases == {"none", "waiting", "working", "closing"} \cup Outcomes

Init ==
  /\ phase = [j \in Jobs |-> "none"]
  /\ withdrawn = {}

Submit(j) ==
  /\ phase[j] = "none"
  /\ phase' = [phase EXCEPT ![j] = "waiting"]
  /\ UNCHANGED withdrawn

Withdraw(j) ==
  /\ phase[j] \in {"waiting", "working"}
  /\ withdrawn' = withdrawn \cup {j}
  /\ UNCHANGED phase

Begin(j) ==
  /\ phase[j] = "waiting"
  /\ \A k \in Jobs : phase[k] \notin {"working", "closing"}
  /\ phase' = [phase EXCEPT ![j] = "working"]
  /\ UNCHANGED withdrawn

Close(j) ==
  /\ phase[j] = "working"
  /\ phase' = [phase EXCEPT ![j] = "closing"]
  /\ UNCHANGED withdrawn

Finish(j) ==
  /\ phase[j] = "closing"
  /\ \E outcome \in Outcomes :
       /\ outcome = "cancelled" => j \in withdrawn
       /\ outcome = "completed" => j \notin withdrawn
       /\ phase' = [phase EXCEPT ![j] = outcome]
  /\ UNCHANGED withdrawn

Next == \E j \in Jobs : Submit(j) \/ Withdraw(j) \/ Begin(j) \/ Close(j) \/ Finish(j)

Spec == Init /\ [][Next]_lifecycleVars
===============================================================================
