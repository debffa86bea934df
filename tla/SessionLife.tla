------------------------------ MODULE SessionLife ------------------------------
(***************************************************************************)
(* The life of one sandbox session as far as the limit on sandboxes is     *)
(* concerned: how far its creation has come, and what its status can       *)
(* become from there.  A session is persisted before it is counted, and    *)
(* only one that was let through can be registered, resumed or cancelled;  *)
(* the timeouts act on any.                                                *)
(*                                                                         *)
(* SandboxLife shows that the whole system, with every interleaving and    *)
(* failure, lives such a life, and SandboxQuota is several of them at      *)
(* once, counted against each other.                                       *)
(***************************************************************************)
EXTENDS SessionStates

CONSTANT Requests   \* "resume", "cancel": what clients do in a run

VARIABLES
  status,    \* of the session's item
  creation   \* "new", "count", "launch", "refused" (or cut short before the launch), "ended"
lifeVars == <<status, creation>>

Init == status = "absent" /\ creation = "new"

PersistSession ==
  /\ creation = "new"
  /\ status' = "SANDBOX_PROVISIONING"
  /\ creation' = "count"

CheckLimit ==
  /\ creation = "count"
  /\ creation' \in {"launch", "refused"}
  /\ UNCHANGED status

LaunchEnds ==
  /\ creation = "launch"
  /\ creation' = "ended"
  /\ UNCHANGED status

FailSession ==
  /\ creation = "launch"
  /\ status' = "SESSION_FAILED"
  /\ creation' = "ended"

Admitted == creation \in {"launch", "ended"}

Becomes(newStatus) == status' = newStatus /\ UNCHANGED creation

RegisterSandbox == Admitted /\ status = "SANDBOX_PROVISIONING" /\ Becomes("SANDBOX_READY")

ResumeSession ==
  /\ "resume" \in Requests
  /\ Admitted /\ status # "SANDBOX_PROVISIONING"
  /\ Becomes("SESSION_RUNNING")

ExpireSession ==
  /\ "resume" \in Requests
  /\ Admitted /\ status # "SANDBOX_PROVISIONING"
  /\ Becomes("SESSION_FAILED")

CancelSession == "cancel" \in Requests /\ Admitted /\ Becomes("SESSION_CANCELLED")

CheckProvisioningTimeout == status = "SANDBOX_PROVISIONING" /\ Becomes("SESSION_FAILED")

TerminateSession == status \in SANDBOX_ACTIVE_STATUSES /\ Becomes("SANDBOX_TERMINATED")

Next ==
  \/ PersistSession \/ CheckLimit \/ LaunchEnds \/ FailSession
  \/ RegisterSandbox \/ ResumeSession \/ ExpireSession \/ CancelSession
  \/ CheckProvisioningTimeout \/ TerminateSession

Spec == Init /\ [][Next]_lifeVars
==============================================================================
