--------------------------- MODULE SandboxLifecycle ---------------------------
(***************************************************************************)
(* SandboxLifecycleManager, one instance per running copy of the service.  *)
(* Each check works on the snapshot its scan returned and on one reading   *)
(* of the clock; the tasks are read later, the conditional update is later *)
(* still, and the container is stopped last, from the snapshot's ARN.      *)
(* A manager and the endpoint cache of its copy go by the same name.       *)
(***************************************************************************)
EXTENDS EndpointCache

CONSTANTS
  Manager,
  ProvisionTimeout,   \* sandbox_provision_timeout_seconds
  IdleTimeout,        \* sandbox_idle_timeout_seconds
  MaxDuration         \* sandbox_max_duration_seconds

ASSUME LifecycleAssumption == {ProvisionTimeout, IdleTimeout, MaxDuration} \subseteq Nat

VARIABLE mgr

Asleep == [pc |-> "sleep", status |-> "absent", arn |-> None, last |-> 0, now |-> 0]

LifecycleInit == mgr = [m \in Manager |-> Asleep]

Goto(m, pc) == mgr' = [mgr EXCEPT ![m].pc = pc]
Sleep(m) == mgr' = [mgr EXCEPT ![m] = Asleep]

\* Mutant: the fallback to the creation time is missing.
lastActivityOnly(read) == read.lastActivityAt

lastActive(read) == IF read.lastActivityAt = None THEN read.createdAt ELSE read.lastActivityAt

\* list_sandbox_sessions_by_status returns this session.
Scan(m) ==
  /\ mgr[m].pc = "sleep"
  /\ \E read \in Readable :
       /\ Listed(read, LIFECYCLE_STATUSES)
       /\ mgr' = [mgr EXCEPT ![m] = [pc |-> "scanned", status |-> read.status,
                                     arn |-> read.expectedTaskArn, last |-> lastActive(read), now |-> 0]]
  /\ UNCHANGED <<storeVars, container, cache>>

\* Mutant: the age is measured from the epoch instead of from the creation.
AgeExceedsFromEpoch(now, limit) == now > limit

\* Mutant: off by one.
AgeReaches(now, limit) == now - item.createdAt >= limit

\* A limit is exceeded strictly: a session exactly as old as the limit is left alone.
AgeExceeds(now, limit) == now - item.createdAt > limit

IsIdle(snapshot) == snapshot.now - snapshot.last > IdleTimeout

(* `now` is read after the scan.  A session still provisioning is checked  *)
(* for the provisioning timeout only; any other for the maximum duration   *)
(* and then for idleness.                                                  *)
Evaluate(m) ==
  LET snapshot == [mgr[m] EXCEPT !.now = clock]
      provisioning == snapshot.status = "SANDBOX_PROVISIONING"
  IN /\ mgr[m].pc = "scanned"
     /\ \/ /\ provisioning /\ AgeExceeds(clock, ProvisionTimeout)
           /\ mgr' = [mgr EXCEPT ![m] = [snapshot EXCEPT !.pc = "provision"]]
        \/ /\ ~provisioning /\ AgeExceeds(clock, MaxDuration)
           /\ mgr' = [mgr EXCEPT ![m] = [snapshot EXCEPT !.pc = "claimMax"]]
        \/ /\ ~provisioning /\ ~AgeExceeds(clock, MaxDuration) /\ IsIdle(snapshot)
           /\ mgr' = [mgr EXCEPT ![m] = [snapshot EXCEPT !.pc = "tasks"]]
        \/ /\ IF provisioning
                THEN ~AgeExceeds(clock, ProvisionTimeout)
                ELSE ~AgeExceeds(clock, MaxDuration) /\ ~IsIdle(snapshot)
           /\ Sleep(m)
     /\ UNCHANGED <<storeVars, container, cache>>

\* The container of a session that is given up here is not stopped.
FailProvisioning(m) ==
  /\ mgr[m].pc = "provision"
  /\ ConditionalUpdateStatus("SESSION_FAILED", "SANDBOX_PROVISIONING")
  /\ Sleep(m)
  /\ UNCHANGED <<replica, task, clock, container, cache>>

\* After _check_max_duration, claimed or not, comes _check_idle_timeout on the same snapshot.
ThenIdleCheck(m) == IF IsIdle(mgr[m]) THEN Goto(m, "tasks") ELSE Sleep(m)

\* Mutant: the result of the conditional update is not looked at.
ClaimedWhateverHappened(m) == TRUE

Claimed(m) == item.status = mgr[m].status

\* Mutant: the claim expects a running session, not the status of the snapshot.
ClaimRunning(m) == ConditionalUpdateStatus("SANDBOX_TERMINATED", "SESSION_RUNNING")

Claim(m) == ConditionalUpdateStatus("SANDBOX_TERMINATED", mgr[m].status)

ClaimMaxDuration(m) ==
  /\ mgr[m].pc = "claimMax"
  /\ Claim(m)
  /\ IF Claimed(m) THEN Goto(m, "stopMax") ELSE ThenIdleCheck(m)
  /\ UNCHANGED <<replica, task, clock, container, cache>>

\* stop_sandbox_container: the cache entry goes too, in this copy of the service only.
StopSandboxContainer(m) ==
  /\ StopIfKnown(mgr[m].arn)
  /\ InvalidateCache(m)

StopAfterMaxDuration(m) ==
  /\ mgr[m].pc = "stopMax"
  /\ StopSandboxContainer(m)
  /\ ThenIdleCheck(m)
  /\ UNCHANGED storeVars

CheckTasks(m) ==
  /\ mgr[m].pc = "tasks"
  /\ \E running \in RunningTasksListed :
       IF running # {} THEN Sleep(m) ELSE Goto(m, "claimIdle")
  /\ UNCHANGED <<storeVars, container, cache>>

ClaimIdle(m) ==
  /\ mgr[m].pc = "claimIdle"
  /\ Claim(m)
  /\ IF Claimed(m) THEN Goto(m, "stopIdle") ELSE Sleep(m)
  /\ UNCHANGED <<replica, task, clock, container, cache>>

StopAfterIdle(m) ==
  /\ mgr[m].pc = "stopIdle"
  /\ StopSandboxContainer(m)
  /\ Sleep(m)
  /\ UNCHANGED storeVars

\* The except clause around one session's checks, the one around the loop, or a restart.
AbortCheck(m) ==
  /\ "crash" \in Faults
  /\ mgr[m].pc # "sleep"
  /\ Sleep(m)
  /\ UNCHANGED <<storeVars, container, cache>>

Check(m) ==
  \/ Scan(m) \/ Evaluate(m) \/ FailProvisioning(m)
  \/ ClaimMaxDuration(m) \/ StopAfterMaxDuration(m)
  \/ CheckTasks(m) \/ ClaimIdle(m) \/ StopAfterIdle(m)

LifecycleNext == \E m \in Manager : Check(m) \/ AbortCheck(m)

LifecyclePc ==
  {"sleep", "scanned", "provision", "claimMax", "stopMax", "tasks", "claimIdle", "stopIdle"}

CheckState ==
  [pc     : LifecyclePc,
   status : LIFECYCLE_STATUSES \cup {"absent"},
   arn    : Container \cup {None},
   last   : Nat,
   now    : Nat]

LifecycleTypeOK == mgr \in [Manager -> CheckState]
==============================================================================
