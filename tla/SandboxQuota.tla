----------------------------- MODULE SandboxQuota -----------------------------
(***************************************************************************)
(* The limit on one user's sandboxes: several sessions created at the same *)
(* time, each persisted first and counted afterwards, from an index that   *)
(* lags behind the table and of which one page is read.                    *)
(*                                                                         *)
(* What becomes of each session is described as far as SessionLife does:   *)
(* which statuses its writers can give it.  That the handlers and managers *)
(* can give it no others is the subject of SandboxLife.                    *)
(***************************************************************************)
EXTENDS Integers, FiniteSets, SessionStates

CONSTANTS
  Session,     \* the user's sandbox sessions, numbered by created_at
  Limit,       \* sandbox_max_concurrent_sessions
  MaxBehind,   \* how many records the index may show as they were
  PageSize,    \* how many of the user's records the first page of the query has
  Requests     \* "resume", "cancel": what clients do in a run

ASSUME QuotaAssumption ==
  /\ Session \subseteq Nat /\ IsFiniteSet(Session)
  /\ {Limit, MaxBehind, PageSize} \subseteq Nat
  /\ Requests \subseteq {"resume", "cancel"}

VARIABLES
  status,     \* of each session's item
  index,      \* the status tenantId-userId-index shows
  creation,   \* the create_session call of each session
  revived     \* history: the sessions a resumption put back after they had stopped counting
quotaVars == <<status, index, creation, revived>>

Init ==
  /\ status = [s \in Session |-> "absent"]
  /\ index = status
  /\ creation = [s \in Session |-> "new"]
  /\ revived = {}

\* Mutant: a sandbox counts from its registration on.
CountedOnceReady == {"SANDBOX_READY", "SESSION_RUNNING"}

\* The statuses count_active_sandboxes asks for: of the active ones, those this service writes.
COUNTED_STATUSES == {"SANDBOX_PROVISIONING", "SANDBOX_READY", "SESSION_RUNNING"}

Behind == {s \in Session : index[s] # status[s]}

\* A write reaches the index at once or later.
Write(s, newStatus) ==
  /\ status' = [status EXCEPT ![s] = newStatus]
  /\ \/ index' = [index EXCEPT ![s] = newStatus]
     \/ index' = index /\ Cardinality(Behind') <= MaxBehind

Propagate(s) ==
  /\ s \in Behind
  /\ index' = [index EXCEPT ![s] = status[s]]
  /\ UNCHANGED <<status, creation, revived>>

------------------------------------------------------------------------------
\* put_item, before the count.
PersistSession(s) ==
  /\ creation[s] = "new"
  /\ Write(s, "SANDBOX_PROVISIONING")
  /\ creation' = [creation EXCEPT ![s] = "count"]
  /\ UNCHANGED revived

Listed == {s \in Session : index[s] # "absent"}
FirstPage == {s \in Listed : Cardinality({t \in Listed : t < s}) < PageSize}

\* One query, with no look at LastEvaluatedKey.
CountActiveSandboxes == Cardinality({s \in FirstPage : index[s] \in COUNTED_STATUSES})

\* Mutant: the session's own record is overlooked.
ReachesLimit(count) == count >= Limit

OverLimit(count) == count > Limit

CheckLimit(s) ==
  /\ creation[s] = "count"
  /\ creation' = [creation EXCEPT ![s] =
                    IF OverLimit(CountActiveSandboxes) THEN "refused" ELSE "launch"]
  /\ UNCHANGED <<status, index, revived>>

\* The handler is cut short before the count is in.
AbortCreation(s) ==
  /\ creation[s] = "count"
  /\ creation' = [creation EXCEPT ![s] = "dropped"]
  /\ UNCHANGED <<status, index, revived>>

\* The launch is through, or has failed with _fail_session failing too.
LaunchEnds(s) ==
  /\ creation[s] = "launch"
  /\ creation' = [creation EXCEPT ![s] = "ended"]
  /\ UNCHANGED <<status, index, revived>>

\* launch raises: _fail_session writes whatever the status has become.
FailSession(s) ==
  /\ creation[s] = "launch"
  /\ Write(s, "SESSION_FAILED")
  /\ creation' = [creation EXCEPT ![s] = "ended"]
  /\ UNCHANGED revived

------------------------------------------------------------------------------
\* Mutant: the id is handed out when the session is persisted.
KnownOncePersisted(s) == creation[s] # "new"

(* Only a session that was admitted has a container, and only its id gets  *)
(* out: to the container, and with the reply to the client.                *)
Admitted(s) == creation[s] \in {"launch", "ended"}

Becomes(s, newStatus) == Write(s, newStatus) /\ UNCHANGED <<creation, revived>>

RegisterSandbox(s) ==
  /\ Admitted(s)
  /\ status[s] = "SANDBOX_PROVISIONING"
  /\ Becomes(s, "SANDBOX_READY")

(* resume_session writes what it decided on an earlier read: from any      *)
(* status but the one in which it still waits.                             *)
ResumeSession(s) ==
  /\ "resume" \in Requests
  /\ Admitted(s)
  /\ status[s] # "SANDBOX_PROVISIONING"
  /\ Write(s, "SESSION_RUNNING")
  /\ revived' = IF status[s] \in COUNTED_STATUSES THEN revived ELSE revived \cup {s}
  /\ UNCHANGED creation

\* An expired session that is resumed.
ExpireSession(s) ==
  /\ "resume" \in Requests
  /\ Admitted(s)
  /\ status[s] # "SANDBOX_PROVISIONING"
  /\ Becomes(s, "SESSION_FAILED")

CancelSession(s) ==
  /\ "cancel" \in Requests
  /\ Admitted(s)
  /\ Becomes(s, "SESSION_CANCELLED")

\* Mutant: the manager fails the sandboxes it can stop, and no others.
FailLaunchedProvisioning(s) ==
  /\ Admitted(s)
  /\ status[s] = "SANDBOX_PROVISIONING"
  /\ Becomes(s, "SESSION_FAILED")

\* The lifecycle manager, of a record no container will ever register for too.
CheckProvisioningTimeout(s) ==
  /\ status[s] = "SANDBOX_PROVISIONING"
  /\ Becomes(s, "SESSION_FAILED")

TerminateSession(s) ==
  /\ status[s] \in SANDBOX_ACTIVE_STATUSES
  /\ Becomes(s, "SANDBOX_TERMINATED")

Next ==
  \E s \in Session :
    \/ PersistSession(s) \/ CheckLimit(s) \/ AbortCreation(s) \/ LaunchEnds(s) \/ FailSession(s)
    \/ RegisterSandbox(s) \/ ResumeSession(s) \/ ExpireSession(s) \/ CancelSession(s)
    \/ CheckProvisioningTimeout(s) \/ TerminateSession(s) \/ Propagate(s)

Spec == Init /\ [][Next]_quotaVars

(* The managers fail what waits too long, and the index catches up in the  *)
(* end.  Nothing is assumed of clients, launches or containers.            *)
Fairness ==
  \A s \in Session : WF_quotaVars(CheckProvisioningTimeout(s)) /\ WF_quotaVars(Propagate(s))

FairSpec == Spec /\ Fairness

------------------------------------------------------------------------------
QuotaStatus ==
  COUNTED_STATUSES \cup {"absent", "SESSION_FAILED", "SESSION_CANCELLED", "SANDBOX_TERMINATED"}

\* Type invariant.
TypeOK ==
  /\ status \in [Session -> QuotaStatus]
  /\ index \in [Session -> QuotaStatus]
  /\ creation \in [Session -> {"new", "count", "launch", "refused", "dropped", "ended"}]
  /\ revived \subseteq Session

(* "Max active sandboxes per user": the sandboxes the manager regards as   *)
(* active are never more than the limit, give or take what the index does  *)
(* not show yet, and the sessions a resumption brought back behind the     *)
(* count's back.  It holds although every creation is counted after it is  *)
(* persisted and without a lock (provision_sandbox, several at once).      *)
ActiveSandboxes == {s \in Session : Admitted(s) /\ status[s] \in LIFECYCLE_STATUSES}

AdmittedWithinLimit == Cardinality(ActiveSandboxes \ revived) <= Limit + MaxBehind

(* A creation is refused only if that many other records count against the *)
(* user, or did when the index last saw them: the caller's own record,     *)
(* persisted before the count, does not refuse it (the > of                *)
(* provision_sandbox).                                                     *)
OtherRecords(s) == {t \in Session \ {s} : status[t] \in COUNTED_STATUSES \/ t \in Behind}

RefusedOnlyAtLimit ==
  [][ \A s \in Session :
        creation[s] = "count" /\ creation'[s] = "refused"
          => Cardinality(OtherRecords(s)) >= Limit ]_quotaVars

(* A creation that was refused, or cut short, gives its place back for     *)
(* good: its record stops counting although nobody can cancel or resume it *)
(* (_check_provisioning_timeout).                                          *)
RefusedFreesItsPlace ==
  \A s \in Session : creation[s] \in {"refused", "dropped"} ~> [](index[s] \notin COUNTED_STATUSES)

(* What makes that for good: once the record of such a creation counts no  *)
(* more, in the table and in the index, no step makes it count again.      *)
GivenBack(s) ==
  /\ creation[s] \in {"refused", "dropped"}
  /\ {status[s], index[s]} \cap COUNTED_STATUSES = {}

FreedPlaceStaysFree ==
  [][ \A s \in Session : GivenBack(s) => GivenBack(s)' ]_quotaVars

(* Every session here lives the life the whole system is shown to lead in  *)
(* SandboxLife; a creation that was cut short is refused there.            *)
Life(s) == INSTANCE SessionLife WITH
  status <- status[s],
  creation <- IF creation[s] = "dropped" THEN "refused" ELSE creation[s]

EachSessionLives ==
  /\ \A s \in Session : Life(s)!Init
  /\ [][ \A s \in Session : [Life(s)!Next]_(Life(s)!lifeVars) ]_quotaVars
==============================================================================
