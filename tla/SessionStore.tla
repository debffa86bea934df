----------------------------- MODULE SessionStore -----------------------------
(***************************************************************************)
(* The two DynamoDB tables as the handlers of one session see them: the    *)
(* session's item and the tasks that name the session, with one operator   *)
(* per repository method.  Every handler of the service reads and writes   *)
(* the item of its own session only, so one session is enough; the one     *)
(* exception, count_active_sandboxes, is a free choice in SessionService.  *)
(*                                                                         *)
(* The table applies each write atomically, and checks the condition of a  *)
(* conditional one, on the newest version of an item.  No read asks for a  *)
(* consistent one (get_item, query and scan without ConsistentRead), so a  *)
(* read may be answered from a copy that lags behind.                      *)
(***************************************************************************)
EXTENDS Integers, SessionStates

CONSTANTS
  None,          \* an attribute that is not set
  Container,     \* identities of ECS tasks: an ARN, and the endpoint behind it
  Task,          \* task ids, chosen by the callers
  Environment,   \* the execution environments requested in a run
  StaleReads,    \* whether a read may be answered from the copy that lags behind
  ExpiryPeriod,  \* session_expiry_hours
  MaxTime        \* bound on the clock

ASSUME StoreAssumption ==
  /\ StaleReads \in BOOLEAN
  /\ None \notin Container \cup Nat
  /\ Environment \subseteq {"desktop", "cloud_sandbox"}
  /\ ExpiryPeriod \in Nat
  /\ MaxTime \in Nat

VARIABLES
  item,      \* the session's item
  replica,   \* an earlier version of it, which a read may still return
  task,      \* the status of each task, "absent" when there is no such item
  clock      \* UTC time
storeVars == <<item, replica, task, clock>>

(* The attributes the handlers decide on.  env and compatible are fixed by *)
(* the request that creates the session: compatible is the verdict of      *)
(* check_compatibility on what it says of its client.                      *)
SessionItem ==
  [status          : SessionState \cup {"absent"},
   env             : Environment,
   compatible      : BOOLEAN,
   createdAt       : Nat,
   expiresAt       : Nat,
   sandboxEndpoint : Container \cup {None},
   expectedTaskArn : Container \cup {None},
   lastActivityAt  : Nat \cup {None}]

(* A client's versions are told apart by how they compare with the minimum *)
(* of the settings, or as unparsable.                                      *)
MinVersion == 1
Client ==
  [desktopApp : {None, 0, MinVersion}, agentHost : {None, 0, MinVersion}, hasCapabilities : BOOLEAN]

\* An unparsable version is refused like one that is too old.
IsSupported(version) == version # None /\ version >= MinVersion

CheckCompatibility(client) ==
  /\ IsSupported(client.desktopApp)
  /\ IsSupported(client.agentHost)
  /\ client.hasCapabilities

StoreInit ==
  /\ \E env \in Environment, client \in Client :
       item = [status |-> "absent", env |-> env, compatible |-> CheckCompatibility(client),
               createdAt |-> 0, expiresAt |-> 0, sandboxEndpoint |-> None,
               expectedTaskArn |-> None, lastActivityAt |-> None]
  /\ replica = item
  /\ task = [t \in Task |-> "absent"]
  /\ clock = 0

isSandbox == item.env = "cloud_sandbox"

\* What a read of the session may return.
Readable == {item} \cup (IF StaleReads THEN {replica} ELSE {})

\* put_item of a new session: created_at and the expiry come from one reading of the clock.
CreateSession(status, now) ==
  item' = [item EXCEPT !.status = status, !.createdAt = now, !.expiresAt = now + ExpiryPeriod]

UpdateStatus(status) == item' = [item EXCEPT !.status = status]

UpdateExpiry(expires) == item' = [item EXCEPT !.expiresAt = expires]

\* Mutant: the condition expression is forgotten, as in the in-memory repository.
RegisterSandboxUnconditionally(endpoint) ==
  item' = [item EXCEPT !.sandboxEndpoint = endpoint, !.status = "SANDBOX_READY"]

\* Mutant: the endpoint is stored and the status is not.
RegisterEndpointOnly(endpoint) ==
  IF item.status = "SANDBOX_PROVISIONING"
    THEN item' = [item EXCEPT !.sandboxEndpoint = endpoint]
    ELSE UNCHANGED item

\* One conditional update stores the endpoint and the status together.
RegisterSandbox(endpoint) ==
  IF item.status = "SANDBOX_PROVISIONING"
    THEN item' = [item EXCEPT !.sandboxEndpoint = endpoint, !.status = "SANDBOX_READY"]
    ELSE UNCHANGED item

StoreExpectedTaskArn(arn) == item' = [item EXCEPT !.expectedTaskArn = arn]

UpdateLastActivity(at) == item' = [item EXCEPT !.lastActivityAt = at]

Listed(read, statuses) == read.env = "cloud_sandbox" /\ read.status \in statuses
ListedIn(statuses) == Listed(item, statuses)

\* Mutant: the update is applied whatever the status has become.
IgnoreExpectedStatus(newStatus, expected) == UpdateStatus(newStatus)

ConditionalUpdateStatus(newStatus, expected) ==
  IF item.status = expected THEN UpdateStatus(newStatus) ELSE UNCHANGED item

PutTask(t) == task' = [task EXCEPT ![t] = "running"]

UpdateCompletion(t, status) == task' = [task EXCEPT ![t] = status]

(* Every task begins as running, so an old copy of one that has finished   *)
(* may still show it running.                                              *)
ShowsRunning(t) == task[t] = "running" \/ (StaleReads /\ task[t] # "absent")

(* list_by_session is one page of an index that lags behind: of the tasks  *)
(* that run it may miss any, and one that has finished may be listed as    *)
(* running.                                                                *)
RunningTasksListed ==
  IF StaleReads THEN SUBSET {t \in Task : ShowsRunning(t)}
                ELSE {{t \in Task : ShowsRunning(t)}}

\* The copy catches up.
Replicate ==
  /\ StaleReads
  /\ replica # item
  /\ replica' = item
  /\ UNCHANGED <<item, task, clock>>

Tick ==
  /\ clock < MaxTime
  /\ clock' = clock + 1
  /\ UNCHANGED <<item, replica, task>>

StoreTypeOK ==
  /\ {item, replica} \subseteq SessionItem
  /\ task \in [Task -> TaskState \cup {"absent"}]
  /\ clock \in Nat
==============================================================================
