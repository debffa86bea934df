--------------------------- MODULE SandboxLauncher ---------------------------
(***************************************************************************)
(* The containers a launcher starts and stops: ECS tasks in production,    *)
(* local processes in development.  A container is a state machine of its  *)
(* own that neither the service nor its tables see; the service learns of  *)
(* one from the reply of RunTask and from the container's registration.    *)
(***************************************************************************)
EXTENDS SessionStore

CONSTANTS
  MaxAttempts,   \* launch attempts: 3 for ECS, 1 for the local launcher
  Faults         \* the failures of a run: see FaultKinds

(* launchFails: RunTask answers with an error and starts nothing.          *)
(* replyLost: RunTask starts a task and its caller sees an error.          *)
(* stopFails: StopTask answers with an error, the container runs on.       *)
(* storeFails: both updates of _fail_session may fail.                     *)
(* crash: a request or a check is cut short at an await, by an exception   *)
(* of the call awaited, by its caller going away or by a restart.          *)
(* sandboxFails: a request to a container that runs fails nevertheless.    *)
(* persistFails: the workspace service fails, before or after storing.     *)
FaultKinds == {"launchFails", "replyLost", "stopFails", "storeFails", "crash",
               "sandboxFails", "persistFails"}

ASSUME LauncherAssumption ==
  /\ MaxAttempts \in Nat \ {0}
  /\ Faults \subseteq FaultKinds

VARIABLE container   \* "none" until started, then "running", then "stopped"

LauncherInit == container = [c \in Container |-> "none"]

RunTask(c) ==
  /\ container[c] = "none"
  /\ container' = [container EXCEPT ![c] = "running"]

StopTask(arn) == container' = [container EXCEPT ![arn] = "stopped"]

\* Best effort: no ARN, nothing to stop; an error is logged and swallowed.
StopIfKnown(arn) ==
  \/ arn # None /\ StopTask(arn)
  \/ (arn = None \/ "stopFails" \in Faults) /\ UNCHANGED container

LauncherTypeOK == container \in [Container -> {"none", "running", "stopped"}]
==============================================================================
