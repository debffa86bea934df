---------------------------- MODULE SessionContract ----------------------------
(***************************************************************************)
(* What the service promises about one session's item whatever its         *)
(* handlers, lifecycle managers and failures do at the same time: which    *)
(* status changes can happen at all, and what each of them brings.  It     *)
(* keeps the parts of VALID_TRANSITIONS that survive interleaving, and     *)
(* drops those that do not: a write that was decided on an earlier status  *)
(* can fail, cancel or run a session from any status it has been past.     *)
(***************************************************************************)
EXTENDS SessionStates

CONSTANTS None, Container, Environment

VARIABLES status, env, compatible, sandboxEndpoint
contractVars == <<status, env, compatible, sandboxEndpoint>>

Init ==
  /\ status = "absent"
  /\ env \in Environment
  /\ compatible \in BOOLEAN
  /\ sandboxEndpoint = None

\* A session is created once, in the status its client calls for.
Create ==
  /\ status = "absent"
  /\ status' = IF env = "cloud_sandbox" THEN "SANDBOX_PROVISIONING"
               ELSE IF compatible THEN "SESSION_RUNNING" ELSE "SESSION_CREATED"
  /\ UNCHANGED <<env, compatible, sandboxEndpoint>>

\* The endpoint is written once, together with SANDBOX_READY.
Register ==
  /\ status = "SANDBOX_PROVISIONING"
  /\ sandboxEndpoint = None
  /\ \E c \in Container : sandboxEndpoint' = c
  /\ status' = "SANDBOX_READY"
  /\ UNCHANGED <<env, compatible>>

\* Only a compatible client's session runs, and none that still waits for its sandbox.
Run ==
  /\ compatible
  /\ status \notin {"absent", "SANDBOX_PROVISIONING"}
  /\ status' = "SESSION_RUNNING"
  /\ UNCHANGED <<env, compatible, sandboxEndpoint>>

Fail ==
  /\ status # "absent"
  /\ status' = "SESSION_FAILED"
  /\ UNCHANGED <<env, compatible, sandboxEndpoint>>

Cancel ==
  /\ status # "absent"
  /\ status' = "SESSION_CANCELLED"
  /\ UNCHANGED <<env, compatible, sandboxEndpoint>>

\* Only a sandbox that is up is terminated: never twice in a row, never one that was
\* cancelled or failed meanwhile.
Terminate ==
  /\ env = "cloud_sandbox"
  /\ status \in {"SANDBOX_READY", "SESSION_RUNNING"}
  /\ status' = "SANDBOX_TERMINATED"
  /\ UNCHANGED <<env, compatible, sandboxEndpoint>>

Next == Create \/ Register \/ Run \/ Fail \/ Cancel \/ Terminate

Spec == Init /\ [][Next]_contractVars
==============================================================================
