----------------------------- MODULE SandboxSystem -----------------------------
(***************************************************************************)
(* The service as a whole for one session: its creation, the requests of   *)
(* clients and containers, the lifecycle managers, the tasks, the proxied  *)
(* requests, uploads and activity updates, all acting on the same item.    *)
(* The components share the store and the containers, and each manager the *)
(* endpoint cache of its copy of the service; apart from that a step of    *)
(* the system is a step of one component that leaves the others' state     *)
(* alone.                                                                  *)
(***************************************************************************)
EXTENDS SessionService, SandboxLifecycle, TaskService, ActivityTracker, FileUpload

vars == <<storeVars, container, serviceVars, mgr, taskCall, activityVars, cacheVars, uploadVars>>

Init ==
  /\ StoreInit
  /\ LauncherInit
  /\ ServiceInit
  /\ LifecycleInit
  /\ TaskInit
  /\ ActivityInit
  /\ CacheInit
  /\ UploadInit

outsideService   == <<mgr, taskCall, activityVars, cacheVars, uploadVars>>
outsideLifecycle == <<serviceVars, taskCall, activityVars, request, uploadVars>>
outsideTasks     == <<serviceVars, mgr, activityVars, cacheVars, uploadVars>>
outsideActivity  == <<serviceVars, mgr, taskCall, cacheVars, uploadVars>>
outsideCache     == <<serviceVars, mgr, taskCall, activityVars, uploadVars>>
outsideUpload    == <<serviceVars, mgr, taskCall, activityVars, cacheVars>>

outsideStore     == <<container, serviceVars, mgr, taskCall, activityVars, cacheVars, uploadVars>>

ReplicaStep == Replicate /\ UNCHANGED outsideStore

ClockStep == Tick /\ UNCHANGED outsideStore

Next ==
  \/ ServiceNext /\ UNCHANGED outsideService
  \/ LifecycleNext /\ UNCHANGED outsideLifecycle
  \/ TaskNext /\ UNCHANGED outsideTasks
  \/ ActivityNext /\ UNCHANGED outsideActivity
  \/ CacheNext /\ UNCHANGED outsideCache
  \/ UploadNext /\ UNCHANGED outsideUpload
  \/ ReplicaStep
  \/ ClockStep

Spec == Init /\ [][Next]_vars

(* Time passes, the copies of the table catch up (eventual consistency),   *)
(* and every manager goes on.  _run_loop logs whatever a                   *)
(* check raises and goes round again for as long as the process lives, so  *)
(* a manager is never stuck, and the evaluation, the provisioning check    *)
(* and the claim, each of which a failing call may cut short any number of *)
(* times, are not cut short for ever.  Nothing is assumed of clients,      *)
(* containers or the other handlers.                                       *)
Fairness ==
  /\ WF_vars(ClockStep)
  /\ WF_vars(ReplicaStep)
  /\ \A m \in Manager :
       /\ WF_vars(Check(m) /\ UNCHANGED outsideLifecycle)
       /\ SF_vars(Evaluate(m) /\ UNCHANGED outsideLifecycle)
       /\ SF_vars(FailProvisioning(m) /\ UNCHANGED outsideLifecycle)
       /\ SF_vars(ClaimMaxDuration(m) /\ UNCHANGED outsideLifecycle)

FairSpec == Spec /\ Fairness

------------------------------------------------------------------------------
\* Type invariant.
TypeOK ==
  /\ StoreTypeOK
  /\ LauncherTypeOK
  /\ ServiceTypeOK
  /\ LifecycleTypeOK
  /\ TaskTypeOK
  /\ ActivityTypeOK
  /\ CacheTypeOK
  /\ UploadTypeOK

(* A sandbox that waits has no endpoint and one that is ready has one:     *)
(* endpoint and status change together, and no late write puts a session   *)
(* back to waiting or to ready (register_sandbox against every other write *)
(* of the status).                                                         *)
EndpointMatchesStatus ==
  /\ item.status \in {"absent", "SANDBOX_PROVISIONING"} => item.sandboxEndpoint = None
  /\ item.status = "SANDBOX_READY" => item.sandboxEndpoint # None

(* A session whose client fails the compatibility check never runs,        *)
(* however its creation, its resumptions and their failures interleave.    *)
OnlyCompatibleRuns == item.status = "SESSION_RUNNING" => item.compatible

(* A task exists only in a session that has been up: a put decided on an   *)
(* earlier read cannot land in one that still waits for its sandbox or     *)
(* whose client was refused (create_task against the writers of status).   *)
TaskImpliesStarted ==
  (\E t \in Task : task[t] # "absent")
    => item.status \notin {"absent", "SESSION_CREATED", "SANDBOX_PROVISIONING"}

(* Two managers never stop the container of one session at the same time: *)
(* the conditional update lets one of them claim it.  True as long as no   *)
(* resumption puts a terminated session back to running.                   *)
Stopping(m) == mgr[m].pc \in {"stopMax", "stopIdle"}

NoDoubleTermination ==
  \A m, n \in Manager : Stopping(m) /\ Stopping(n) => m = n

(* A request is left out of lastActivityAt only when the record already    *)
(* shows activity of this window, give or take the longest time a write    *)
(* may take to reach the table: an older write that lands late cannot      *)
(* undo more than that (update_activity on several copies of the service). *)
SkippedTouchIsOnRecord(maxWriteDelay) ==
  \A p \in Proxy :
    item.status # "absent" /\ WithinWindow(p)
      => /\ item.lastActivityAt # None
         /\ clock - item.lastActivityAt < BatchWindow + maxWriteDelay

(* Whatever is cached, forwarded to or synced is the endpoint on record,   *)
(* however old the read it was taken from: an endpoint, once registered,   *)
(* is never replaced (resolve_sandbox and upload_file against              *)
(* register_sandbox by several containers).                                *)
EndpointIsOnRecord ==
  LET OnRecord(endpoint) == endpoint # None /\ endpoint = item.sandboxEndpoint
  IN /\ \A p \in Proxy : cache[p] # NoEntry => OnRecord(cache[p].endpoint)
     /\ \A r \in Request : request[r].pc \in {"store", "forward"} => OnRecord(request[r].endpoint)
     /\ \A u \in Upload : upload[u].pc \in {"sync", "answer"} => OnRecord(upload[u].endpoint)

(* Only the session's user is forwarded, also from an entry that another   *)
(* request filled (the two checks of ownership in resolve_sandbox).        *)
OnlyOwnerIsForwarded == \A r \in Request : request[r].pc = "forward" => request[r].user = Owner

(* A reply says "synced" only if the sandbox was asked after the file was  *)
(* stored, and answered; unless its answer was an RPC error, it has        *)
(* fetched the file of that upload or one stored after it, whatever other  *)
(* uploads, faults and the end of the session came in between (the two     *)
(* phases of upload_file).                                                 *)
HasFetched(u) == upload[u].version <= pulled[upload[u].endpoint]

SyncedMeansAnswered ==
  \A u \in Upload :
    upload[u].synced => /\ 0 < upload[u].version
                        /\ upload[u].answer = "error" \/ HasFetched(u)

\* Resuming never leaves a session with less time than its creation gave it.
ExpiryNeverCut == item.status # "absent" => item.expiresAt >= item.createdAt + ExpiryPeriod

------------------------------------------------------------------------------
(* Grace: no session is terminated before it is older than the shorter of  *)
(* the two limits, whatever snapshot, activity or clock the claim used.    *)
NeverTerminatedYoung ==
  [][ item.status # "SANDBOX_TERMINATED" /\ item.status' = "SANDBOX_TERMINATED"
        => \/ clock - item.createdAt > MaxDuration
           \/ clock - item.createdAt > IdleTimeout ]_vars

(* A sandbox gets its whole provisioning time: while it waits, nothing but *)
(* a failed launch of its own fails it before the timeout.  In particular  *)
(* no resumption does, expired or not.                                     *)
ProvisioningGetsItsTime ==
  [][ item.status = "SANDBOX_PROVISIONING" /\ item.status' = "SESSION_FAILED"
        => \/ clock - item.createdAt > ProvisionTimeout
           \/ creation.pc \in {"fail", "failRetry"} ]_vars

(* A terminal status can be left only by a write that was decided on an    *)
(* earlier status.  With no such write pending, and no copy left that      *)
(* shows one, it is final, and no new write can be decided.                *)
TerminalAndQuiet ==
  /\ \A read \in Readable : read.status \in TERMINAL_STATUSES
  /\ creation.pc \in {"returned", "raised"}
  /\ \A h \in Handler : call[h].pc \in {"idle", "register", "extend"}

TerminalIsFinalWhenQuiet ==
  [][ TerminalAndQuiet => TerminalAndQuiet' /\ item.status' = item.status ]_vars

(* A container that a lost reply of RunTask left behind cannot take over   *)
(* the session: once every copy shows the ARN of the container the service *)
(* knows, and no other container has registered or is past the comparison  *)
(* of ARNs, none ever does (register_sandbox; until then one may).         *)
OnlyExpectedRegisters ==
  /\ \A read \in Readable : read.expectedTaskArn # None
  /\ item.sandboxEndpoint \in {None, item.expectedTaskArn}
  /\ \A h \in Handler : call[h].pc = "register" => call[h].arg = item.expectedTaskArn

StrangersStayOut ==
  [][ OnlyExpectedRegisters
        => OnlyExpectedRegisters' /\ item.expectedTaskArn' = item.expectedTaskArn ]_vars

(* What the sources say, and interleavings or orders of calls break.       *)

\* "Terminal states - no transitions possible, session is done" (domain.py).
TerminalIsFinal ==
  [][ item.status \in TERMINAL_STATUSES => item.status' = item.status ]_vars

\* "Session is active but endpoint is missing (shouldn't happen normally)" (test_proxy.py).
ActiveHasEndpoint == ListedIn(SANDBOX_ACTIVE_STATUSES) => item.sandboxEndpoint # None

(* "busy sandbox is never idle" (sandbox_lifecycle.py): no idle claim      *)
(* succeeds over a running task.  A task put between the look at the tasks *)
(* and the claim is overlooked, as is one the query does not list.         *)
BusyIsNeverIdle ==
  [][ \A m \in Manager, t \in Task :
        mgr[m].pc = "claimIdle" /\ mgr'[m].pc = "stopIdle" => task[t] # "running" ]_vars

------------------------------------------------------------------------------
(* The clock of a run stops at MaxTime, so the limits that bring a session *)
(* to an end are followed for sessions that reach them before that.        *)
ReachesAge(limit) == item.createdAt + limit < MaxTime

\* A sandbox does not wait for ever: it registers, or it is failed or cancelled
\* (_check_provisioning_timeout, although checks may fail any number of times).
ProvisioningEnds ==
  item.status = "SANDBOX_PROVISIONING" /\ ReachesAge(ProvisionTimeout)
    ~> item.status # "SANDBOX_PROVISIONING"

\* A session that is up does not stay up for ever, busy or not, resumed or not: the
\* maximum duration ends it (_check_max_duration).
ActiveEnds ==
  ListedIn(SANDBOX_ACTIVE_STATUSES) /\ ReachesAge(MaxDuration)
    ~> ~ListedIn(SANDBOX_ACTIVE_STATUSES)

------------------------------------------------------------------------------
(* The system implements the contract: the item's attributes are the       *)
(* contract's variables.                                                   *)
Contract == INSTANCE SessionContract WITH
  status <- item.status, env <- item.env, compatible <- item.compatible,
  sandboxEndpoint <- item.sandboxEndpoint

ImplementsContract == Contract!Spec
==============================================================================
