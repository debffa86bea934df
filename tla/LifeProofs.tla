------------------------------ MODULE LifeProofs ------------------------------
(***************************************************************************)
(* The whole system lives the life of SessionLife, for any number of       *)
(* handlers, managers and containers and with every fault.                 *)
(***************************************************************************)
EXTENDS SandboxLife, SandboxTheorems

\* The life of a session that is known to be in the cloud.
Sandbox == INSTANCE SessionLife WITH status <- item.status, creation <- phase

\* The history variable observes the system and does not change what it does.
LEMMA LifeIsSpec == LifeSpec => Spec
<1>1. LifeInit => Init
  BY DEF LifeInit
<1>2. [LifeNext]_lifeVars => [Next]_vars
  BY DEF LifeNext, lifeVars
<1> QED BY <1>1, <1>2, PTL DEF LifeSpec, Spec

\* A session stays where it was created.
LEMMA SandboxStays ==
  ASSUME IInv, [Next]_vars
  PROVE  isSandbox' <=> isSandbox
<1>0. item \in SessionItem
  BY DEF IInv, TypeOK, StoreTypeOK
<1>1. CASE item'.status = item.status
  BY <1>1, SameStatus DEF isSandbox
<1>2. CASE item'.status # item.status
  <2>1. item'.env = item.env
    <3>1. CASE PersistSession
      BY <1>0, <3>1 DEF PersistSession, CreateSession, SessionItem
    <3>2. CASE ~PersistSession
      BY <1>0, <1>2, <3>2, StatusChange DEF UpdateStatus, SessionItem
    <3> QED BY <3>1, <3>2
  <2> QED BY <2>1 DEF isSandbox
<1> QED BY <1>1, <1>2

\* Only create_session moves the phase.
LEMMA PhaseStays ==
  ASSUME creation' = creation, phase' = PhaseAfter
  PROVE  phase' = phase
BY DEF PhaseAfter

\* While create_session stands still, SandboxLifeInv asks only what is known of the session.
LEMMA KnownStays ==
  ASSUME SandboxLifeInv, UNCHANGED <<creation, phase>>,
         item'.expectedTaskArn # None \/ replica'.expectedTaskArn # None
           => item.expectedTaskArn # None \/ replica.expectedTaskArn # None,
         \A m \in Manager : mgr'[m].arn # None => LetThrough,
         \A c \in Container : container'[c] # "none" => LetThrough,
         \A h \in Handler : call'[h].pc # "idle" => LetThrough,
         CallsAreRequested'
  PROVE  SandboxLifeInv'
BY DEF SandboxLifeInv, OnlyLetThroughIsKnown, LetThrough

------------------------------------------------------------------------------
(* create_session, action by action.                                       *)
LEMMA CreationLives ==
  ASSUME IInv, isSandbox, SandboxLifeInv, Creation, UNCHANGED mgr, phase' = PhaseAfter
  PROVE  SandboxLifeInv' /\ [Sandbox!Next]_(Sandbox!lifeVars)
<1> USE DEF IInv, SandboxLifeInv, OnlyLetThroughIsKnown, CallsAreRequested, LetThrough, PhaseAfter
<1>0. /\ item \in SessionItem
      /\ creation \in [pc : CreationPc, at : Nat, attempts : Nat, arn : Container \cup {None}]
      /\ container \in [Container -> {"none", "running", "stopped"}]
      /\ UNCHANGED replica
  BY DEF TypeOK, StoreTypeOK, ServiceTypeOK, LauncherTypeOK, Creation, BeginCreation, PersistSession,
         CheckLimit, LaunchSandbox, LaunchReplyLost, LaunchFails, StoreTaskArn, FailSession,
         FailSessionError, AbortCreation, storeVars
<1>1. CASE BeginCreation
  BY <1>0, <1>1 DEF BeginCreation, storeVars, Sandbox!lifeVars
<1>2. CASE PersistSession
  <2>1. /\ creation.pc = "persist" /\ creation'.pc = "count" /\ phase = "new" /\ phase' = "count"
        /\ item'.status = "SANDBOX_PROVISIONING" /\ item'.expectedTaskArn = item.expectedTaskArn
        /\ UNCHANGED <<container, call>>
    BY <1>0, <1>2
    DEF PersistSession, CreateSession, initialStatus, isSandbox, SessionItem
  <2> QED BY <1>0, <2>1 DEF Sandbox!PersistSession, Sandbox!Next
<1>3. CASE CheckLimit
  <2>1. /\ creation.pc = "count" /\ creation'.pc \in {"launch", "raised"}
        /\ UNCHANGED <<item, container, call>>
    BY <1>0, <1>3 DEF CheckLimit, storeVars
  <2>2. /\ phase = "count" /\ phase' \in {"launch", "refused"}
        /\ creation'.pc = "launch" <=> phase' = "launch"
    BY <2>1
  <2> QED BY <1>0, <2>1, <2>2 DEF Sandbox!CheckLimit, Sandbox!Next
<1>4. CASE LaunchFails \/ \E c \in Container : LaunchSandbox(c) \/ LaunchReplyLost(c)
  <2>1. /\ creation.pc = "launch" /\ creation'.pc \in {"launch", "storeArn", "fail"}
        /\ UNCHANGED <<item, call>>
    BY <1>0, <1>4 DEF LaunchFails, LaunchSandbox, LaunchReplyLost, AttemptFailed, storeVars
  <2>2. phase = "launch" /\ phase' = "launch"
    BY <2>1
  <2> QED BY <1>0, <2>1, <2>2 DEF Sandbox!lifeVars
<1>5. CASE StoreTaskArn
  <2>1. /\ creation.pc = "storeArn" /\ creation'.pc = "returned"
        /\ item'.status = item.status /\ UNCHANGED <<container, call>>
    BY <1>0, <1>5 DEF StoreTaskArn, StoreExpectedTaskArn, SessionItem
  <2>2. phase = "launch" /\ phase' = "ended"
    BY <2>1
  <2> QED BY <1>0, <2>1, <2>2 DEF Sandbox!LaunchEnds, Sandbox!Next
<1>6. CASE FailSession
  <2>1. /\ creation.pc \in {"fail", "failRetry"} /\ creation'.pc = "raised"
        /\ item'.status = "SESSION_FAILED" /\ item'.expectedTaskArn = item.expectedTaskArn
        /\ UNCHANGED <<container, call>>
    BY <1>0, <1>6 DEF FailSession, UpdateStatus, SessionItem
  <2>2. phase = "launch" /\ phase' = "ended"
    BY <2>1
  <2> QED BY <1>0, <2>1, <2>2 DEF Sandbox!FailSession, Sandbox!Next
<1>7. CASE FailSessionError \/ AbortCreation
  <2>1. /\ \/ creation.pc = "fail" /\ creation'.pc = "failRetry"
           \/ creation.pc \notin {"new", "returned", "raised"} /\ creation'.pc = "raised"
        /\ UNCHANGED <<item, container, call>>
    BY <1>0, <1>7 DEF FailSessionError, AbortCreation, storeVars
  <2>2. \/ phase' = phase
        \/ phase = "launch" /\ phase' = "ended"
        \/ phase = "count" /\ phase' = "refused"
    BY <2>1
  <2>3. [Sandbox!Next]_(Sandbox!lifeVars)
    BY <2>1, <2>2 DEF Sandbox!CheckLimit, Sandbox!LaunchEnds, Sandbox!Next, Sandbox!lifeVars
  <2>4. SandboxLifeInv'
    BY <1>0, <2>1 DEF CreationPc
  <2> QED BY <2>3, <2>4
<1> QED BY <1>1, <1>2, <1>3, <1>4, <1>5, <1>6, <1>7 DEF Creation

\* register_sandbox, resume_session and cancel_session, of a session that was let through.
LEMMA RequestLives ==
  ASSUME IInv, SandboxLifeInv, UNCHANGED <<mgr, phase>>, NEW h \in Handler,
         Registration(h) \/ Resumption(h) \/ Cancellation(h) \/ AbortCall(h)
  PROVE  SandboxLifeInv' /\ [Sandbox!Next]_(Sandbox!lifeVars)
<1> USE DEF IInv
<1>0. /\ item \in SessionItem
      /\ call \in [Handler -> [pc : CallPc, arg : Container \cup Nat \cup {None}]]
  BY DEF TypeOK, StoreTypeOK, ServiceTypeOK
<1>1. UNCHANGED <<container, creation, replica>> /\ item'.expectedTaskArn = item.expectedTaskArn
  BY <1>0
  DEF Registration, Resumption, Cancellation, RegisterRead, RegisterWrite, RegisterSandbox, ResumeRead,
      ResumeExpired, ResumeAccepted, ResumeRefused, ResumeExpire, ResumeRun, ResumeExtend, UpdateExpiry,
      UpdateStatus, CancelRead, CancelWrite, AbortCall, storeVars, SessionItem
<1>2. SessionIdKnown => LetThrough
  BY DEF SessionIdKnown, SandboxLifeInv, OnlyLetThroughIsKnown, LetThrough
<1>3. call[h].pc = "idle" /\ call'[h].pc # "idle" => SessionIdKnown
  BY <1>0
  DEF Registration, Resumption, Cancellation, RegisterRead, RegisterWrite, ResumeRead, ResumeExpired,
      ResumeAccepted, ResumeRefused, ResumeExpire, ResumeRun, ResumeExtend, CancelRead, CancelWrite,
      AbortCall, Leave, NoCall, SessionIdKnown
<1>4. \A g \in Handler \ {h} : call'[g] = call[g]
  BY <1>0
  DEF Registration, Resumption, Cancellation, RegisterRead, RegisterWrite, ResumeRead, ResumeExpired,
      ResumeAccepted, ResumeRefused, ResumeExpire, ResumeRun, ResumeExtend, CancelRead, CancelWrite,
      AbortCall, Leave, Enter
<1>5. CallsAreRequested'
  <2>1. /\ call'[h].pc \in {"check", "expire", "run"} => "resume" \in Requests
        /\ call'[h].pc = "cancel" => "cancel" \in Requests
    BY <1>0
    DEF Registration, Resumption, Cancellation, RegisterRead, RegisterWrite, ResumeRead, ResumeExpired,
        ResumeAccepted, ResumeRefused, ResumeExpire, ResumeRun, ResumeExtend, CancelRead, CancelWrite,
        AbortCall, Leave, Enter, NoCall, SandboxLifeInv, CallsAreRequested
  <2> QED BY <1>4, <2>1 DEF SandboxLifeInv, CallsAreRequested
<1>6. SandboxLifeInv'
  <2>1. \A g \in Handler : call'[g].pc # "idle" => LetThrough
    BY <1>2, <1>3, <1>4 DEF SandboxLifeInv, OnlyLetThroughIsKnown
  <2> QED BY <1>1, <1>5, <2>1, KnownStays DEF SandboxLifeInv, OnlyLetThroughIsKnown
<1>7. [Sandbox!Next]_(Sandbox!lifeVars)
  <2>1. CASE item'.status = item.status
    BY <2>1 DEF Sandbox!lifeVars
  <2>2. CASE item'.status # item.status
    <3>1. RegisterWrite(h) \/ ResumeRun(h) \/ CancelWrite(h) \/ ResumeExpire(h)
      BY <1>0, <2>2
      DEF Registration, Resumption, Cancellation, RegisterRead, ResumeRead, ResumeExpired,
          ResumeAccepted, ResumeRefused, ResumeExtend, UpdateExpiry, CancelRead, AbortCall, storeVars,
          SessionItem
    <3>2. LetThrough
      BY <3>1
      DEF RegisterWrite, ResumeRun, CancelWrite, ResumeExpire, SandboxLifeInv, OnlyLetThroughIsKnown
    <3>3. Sandbox!Admitted
      BY <3>2 DEF LetThrough, Sandbox!Admitted
    <3>4. CASE RegisterWrite(h)
      BY <1>0, <2>2, <3>3, <3>4
      DEF RegisterWrite, RegisterSandbox, SessionItem, Sandbox!RegisterSandbox, Sandbox!Becomes, Sandbox!Next
    <3>5. CASE ResumeRun(h) \/ ResumeExpire(h)
      <4>1. item.status # "SANDBOX_PROVISIONING"
        BY <3>5 DEF ResumeRun, ResumeExpire, CallInv, PastProvisioning
      <4>2. item'.status \in {"SESSION_RUNNING", "SESSION_FAILED"}
        BY <1>0, <3>5 DEF ResumeRun, ResumeExpire, UpdateStatus, SessionItem
      <4>3. "resume" \in Requests
        BY <3>5 DEF ResumeRun, ResumeExpire, SandboxLifeInv, CallsAreRequested
      <4> QED BY <1>1, <3>3, <4>1, <4>2, <4>3
              DEF Sandbox!ResumeSession, Sandbox!ExpireSession, Sandbox!Becomes, Sandbox!Next
    <3>6. CASE CancelWrite(h)
      BY <1>0, <3>3, <3>6
      DEF CancelWrite, UpdateStatus, SessionItem, SandboxLifeInv, CallsAreRequested, Sandbox!CancelSession, Sandbox!Becomes, Sandbox!Next
    <3> QED BY <3>1, <3>4, <3>5, <3>6
  <2> QED BY <2>1, <2>2
<1> QED BY <1>6, <1>7

(* A manager fails what waits too long, let through or not, and terminates *)
(* what is up; the ARN it stops came from a launch.                        *)
LEMMA CheckLives ==
  ASSUME IInv, SandboxLifeInv, UNCHANGED <<serviceVars, phase>>, NEW m \in Manager, Check(m) \/ AbortCheck(m)
  PROVE  SandboxLifeInv' /\ [Sandbox!Next]_(Sandbox!lifeVars)
<1> USE DEF IInv
<1>0. /\ item \in SessionItem /\ mgr \in [Manager -> CheckState]
      /\ container \in [Container -> {"none", "running", "stopped"}]
  BY DEF TypeOK, StoreTypeOK, LifecycleTypeOK, LauncherTypeOK
<1>1. item'.expectedTaskArn = item.expectedTaskArn /\ UNCHANGED replica
  BY <1>0
  DEF Check, Scan, Evaluate, FailProvisioning, ClaimMaxDuration, Claim, ConditionalUpdateStatus,
      UpdateStatus, StopAfterMaxDuration, CheckTasks, ClaimIdle, StopAfterIdle, AbortCheck, storeVars,
      SessionItem
<1>2. \A n \in Manager : mgr'[n].arn # None => LetThrough
  <2>1. CASE Scan(m)
    <3>1. PICK read \in Readable : mgr'[m].arn = read.expectedTaskArn
      BY <1>0, <2>1 DEF Scan
    <3>2. mgr'[m].arn # None => LetThrough
      BY <3>1 DEF Readable, SandboxLifeInv
    <3> QED BY <1>0, <2>1, <3>2 DEF Scan, SandboxLifeInv
  <2>2. CASE Evaluate(m)
    <3>1. ASSUME NEW pc \in {"provision", "claimMax", "tasks"},
                 mgr' = [mgr EXCEPT ![m] = [[mgr[m] EXCEPT !.now = clock] EXCEPT !.pc = pc]]
          PROVE  \A n \in Manager : mgr'[n].arn = mgr[n].arn
      BY <1>0, <3>1 DEF CheckState
    <3>2. CASE Sleep(m)
      BY <1>0, <3>2 DEF Sleep, Asleep, SandboxLifeInv
    <3> QED BY <2>2, <3>1, <3>2 DEF Evaluate, SandboxLifeInv
  <2>3. CASE ~Scan(m) /\ ~Evaluate(m)
    <3>1. Sleep(m) \/ \E pc \in LifecyclePc : Goto(m, pc)
      BY <2>3
      DEF Check, FailProvisioning, ClaimMaxDuration, ThenIdleCheck, StopAfterMaxDuration, CheckTasks,
          ClaimIdle, StopAfterIdle, AbortCheck, LifecyclePc
    <3> QED BY <1>0, <3>1 DEF Sleep, Asleep, Goto, CheckState, SandboxLifeInv
  <2> QED BY <2>1, <2>2, <2>3
<1>3. \A c \in Container : container'[c] # "none" => LetThrough
  <2>1. CASE UNCHANGED container
    BY <2>1 DEF SandboxLifeInv, OnlyLetThroughIsKnown
  <2>2. CASE StopSandboxContainer(m)
    BY <1>0, <2>2
    DEF StopSandboxContainer, StopIfKnown, StopTask, SandboxLifeInv, OnlyLetThroughIsKnown
  <2> QED BY <2>1, <2>2
          DEF Check, Scan, Evaluate, FailProvisioning, ClaimMaxDuration, StopAfterMaxDuration,
              CheckTasks, ClaimIdle, StopAfterIdle, AbortCheck
<1>4. SandboxLifeInv'
  <2>1. CallsAreRequested' /\ \A h \in Handler : call'[h].pc # "idle" => LetThrough
    BY DEF SandboxLifeInv, OnlyLetThroughIsKnown, CallsAreRequested, serviceVars
  <2> QED BY <1>1, <1>2, <1>3, <2>1, KnownStays DEF serviceVars
<1>5. [Sandbox!Next]_(Sandbox!lifeVars)
  <2>1. CASE FailProvisioning(m)
    BY <1>0, <2>1
    DEF FailProvisioning, ConditionalUpdateStatus, UpdateStatus, SessionItem,
        Sandbox!CheckProvisioningTimeout, Sandbox!Becomes, Sandbox!Next, Sandbox!lifeVars
  <2>2. CASE ClaimMaxDuration(m) \/ ClaimIdle(m)
    <3>1. mgr[m].status \in SANDBOX_ACTIVE_STATUSES
      BY <2>2 DEF ClaimMaxDuration, ClaimIdle, LifecycleInv, SANDBOX_ACTIVE_STATUSES
    <3>2. \/ UNCHANGED item
          \/ /\ item.status \in SANDBOX_ACTIVE_STATUSES
             /\ item'.status = "SANDBOX_TERMINATED"
      BY <1>0, <2>2, <3>1
      DEF ClaimMaxDuration, ClaimIdle, Claim, ConditionalUpdateStatus, UpdateStatus, SessionItem
    <3> QED BY <3>2 DEF Sandbox!TerminateSession, Sandbox!Becomes, Sandbox!Next, Sandbox!lifeVars,
                        Sandbox!SANDBOX_ACTIVE_STATUSES, Sandbox!WAITING_STATUSES, SANDBOX_ACTIVE_STATUSES,
                        WAITING_STATUSES
  <2>3. CASE ~(FailProvisioning(m) \/ ClaimMaxDuration(m) \/ ClaimIdle(m))
    BY <2>3
    DEF Check, Scan, Evaluate, StopAfterMaxDuration, CheckTasks, StopAfterIdle, AbortCheck, storeVars,
        Sandbox!lifeVars
  <2> QED BY <2>1, <2>2, <2>3
<1> QED BY <1>4, <1>5

\* Everything else leaves the status alone and tells nobody of the session.
LEMMA OthersLive ==
  ASSUME IInv, SandboxLifeInv, UNCHANGED <<container, serviceVars, mgr, phase>>,
         \/ TaskNext \/ ActivityNext \/ CacheNext \/ UploadNext \/ Replicate \/ Tick
         \/ UNCHANGED vars
  PROVE  SandboxLifeInv' /\ [Sandbox!Next]_(Sandbox!lifeVars)
<1>0. item \in SessionItem
  BY DEF IInv, TypeOK, StoreTypeOK
<1>1. \/ UNCHANGED item
      \/ \E at \in Nat : item' = [item EXCEPT !.lastActivityAt = at]
  BY ItemUntouched
  DEF TaskNext, CreateTaskRead, CreateTaskWrite, CompleteTaskRead, CompleteTaskWrite, AbortTaskCall,
      ActivityNext, BeginTouch, WriteActivity, UpdateLastActivity, RecordWrite, TouchFails, EvictEntry,
      Replicate, Tick, storeVars, vars, IInv, TypeOK, ActivityTypeOK
<1>2. item'.status = item.status /\ item'.expectedTaskArn = item.expectedTaskArn
  BY <1>0, <1>1 DEF SessionItem
<1>3. replica' \in {replica, item}
  BY DEF TaskNext, CreateTaskRead, CreateTaskWrite, CompleteTaskRead, CompleteTaskWrite, AbortTaskCall,
         ActivityNext, BeginTouch, WriteActivity, RecordWrite, TouchFails, EvictEntry, CacheNext,
         ResolveFromCache, StartLookup, LookupFinds, LookupRefused, StoreEntry, ForwardEnds,
         ForwardFails, AbortRequest, EvictEndpoint, UploadNext, BeginUpload, PersistFile, PersistFails,
         PullFile, RefuseSync, SyncAnswered, SyncFails, AbortUpload, Replicate, Tick, storeVars, vars
<1> QED BY <1>2, <1>3, KnownStays
        DEF SandboxLifeInv, OnlyLetThroughIsKnown, CallsAreRequested, LetThrough, serviceVars, Sandbox!lifeVars

\* The tasks, the activity, the cache, the uploads and the clock start and stop no container.
LEMMA ContainersStay ==
  ASSUME TaskNext \/ ActivityNext \/ CacheNext \/ UploadNext
  PROVE  UNCHANGED container
BY DEF TaskNext, CreateTaskRead, CreateTaskWrite, CompleteTaskRead, CompleteTaskWrite, AbortTaskCall,
       ActivityNext, BeginTouch, WriteActivity, RecordWrite, TouchFails, EvictEntry, CacheNext,
       ResolveFromCache, StartLookup, LookupFinds, LookupRefused, StoreEntry, ForwardEnds, ForwardFails,
       AbortRequest, EvictEndpoint, UploadNext, BeginUpload, PersistFile, PersistFails, PullFile,
       RefuseSync, SyncAnswered, SyncFails, AbortUpload

LEMMA SandboxLifeStep ==
  ASSUME IInv, isSandbox, SandboxLifeInv, [LifeNext]_lifeVars
  PROVE  SandboxLifeInv' /\ [Sandbox!Next]_(Sandbox!lifeVars)
<1>1. CASE ServiceNext /\ UNCHANGED outsideService /\ phase' = PhaseAfter
  <2>1. CASE Creation
    BY <1>1, <2>1, CreationLives DEF outsideService
  <2>2. ASSUME NEW h \in Handler, Registration(h) \/ Resumption(h) \/ Cancellation(h) \/ AbortCall(h)
        PROVE  SandboxLifeInv' /\ [Sandbox!Next]_(Sandbox!lifeVars)
    <3>1. UNCHANGED creation
      BY <2>2
      DEF Registration, Resumption, Cancellation, RegisterRead, RegisterWrite, ResumeRead,
          ResumeExpired, ResumeAccepted, ResumeRefused, ResumeExpire, ResumeRun, ResumeExtend,
          CancelRead, CancelWrite, AbortCall
    <3> QED BY <1>1, <2>2, <3>1, PhaseStays, RequestLives DEF outsideService
  <2> QED BY <1>1, <2>1, <2>2 DEF ServiceNext
<1>2. CASE LifecycleNext /\ UNCHANGED outsideLifecycle /\ phase' = PhaseAfter
  <2>1. UNCHANGED <<serviceVars, phase>>
    BY <1>2, PhaseStays DEF outsideLifecycle, serviceVars
  <2> QED BY <1>2, <2>1, CheckLives DEF LifecycleNext
<1>3. CASE /\ \/ TaskNext /\ UNCHANGED outsideTasks
              \/ ActivityNext /\ UNCHANGED outsideActivity
              \/ CacheNext /\ UNCHANGED outsideCache
              \/ UploadNext /\ UNCHANGED outsideUpload
              \/ ReplicaStep \/ ClockStep
           /\ phase' = PhaseAfter
  <2>1. UNCHANGED <<container, serviceVars, mgr>>
    BY <1>3, ContainersStay
    DEF outsideTasks, outsideActivity, outsideCache, outsideUpload, outsideStore, ReplicaStep, ClockStep
  <2>2. UNCHANGED phase
    BY <1>3, <2>1, PhaseStays DEF serviceVars
  <2> QED BY <1>3, <2>1, <2>2, OthersLive DEF ReplicaStep, ClockStep
<1>4. CASE UNCHANGED lifeVars
  BY <1>4, OthersLive DEF lifeVars, vars
<1> QED BY <1>1, <1>2, <1>3, <1>4 DEF LifeNext, Next

\* A desktop session passes neither the limit check nor the launch.
LEMMA DesktopStep ==
  ASSUME IInv, ~isSandbox, LifeInv, [LifeNext]_lifeVars
  PROVE  DesktopLifeInv' /\ UNCHANGED phase
<1>0. creation \in [pc : CreationPc, at : Nat, attempts : Nat, arn : Container \cup {None}]
  BY DEF IInv, TypeOK, ServiceTypeOK
<1>1. phase = "new" /\ creation.pc \in {"new", "persist", "returned", "raised"}
  BY DEF LifeInv, DesktopLifeInv
<1>2. CASE UNCHANGED <<creation, phase>>
  BY <1>1, <1>2 DEF DesktopLifeInv
<1>3. CASE Creation /\ phase' = PhaseAfter
  <2>1. BeginCreation \/ PersistSession \/ AbortCreation
    BY <1>1, <1>3
    DEF Creation, CheckLimit, LaunchSandbox, LaunchReplyLost, LaunchFails, StoreTaskArn, FailSession,
        FailSessionError
  <2>2. creation'.pc \in {"persist", "returned", "raised"}
    BY <1>0, <2>1 DEF BeginCreation, PersistSession, AbortCreation
  <2> QED BY <1>1, <1>3, <2>2 DEF PhaseAfter, DesktopLifeInv
<1>4. CASE UNCHANGED creation /\ phase' = PhaseAfter
  BY <1>2, <1>4, PhaseStays
<1>5. \/ (Creation \/ UNCHANGED creation) /\ phase' = PhaseAfter
      \/ UNCHANGED <<creation, phase>>
  <2>1. ASSUME NEW h \in Handler, Registration(h) \/ Resumption(h) \/ Cancellation(h) \/ AbortCall(h)
        PROVE  UNCHANGED creation
    BY <2>1
    DEF Registration, Resumption, Cancellation, RegisterRead, RegisterWrite, ResumeRead,
        ResumeExpired, ResumeAccepted, ResumeRefused, ResumeExpire, ResumeRun, ResumeExtend,
        CancelRead, CancelWrite, AbortCall
  <2> QED BY <2>1
          DEF LifeNext, Next, ServiceNext, ReplicaStep, ClockStep, serviceVars, outsideLifecycle,
              outsideTasks, outsideActivity, outsideCache, outsideUpload, outsideStore, lifeVars, vars
<1> QED BY <1>2, <1>3, <1>4, <1>5

\* The life of a cloud session is its own; that of a desktop session stands still.
LEMMA LifeStep ==
  ASSUME IInv, LifeInv, [LifeNext]_lifeVars
  PROVE  LifeInv' /\ [Life!Next]_(Life!lifeVars)
<1>0. isSandbox' <=> isSandbox
  <2>1. [Next]_vars
    BY DEF LifeNext, lifeVars
  <2> QED BY <2>1, SandboxStays
<1>1. CASE isSandbox
  <2>1. SandboxLifeInv' /\ [Sandbox!Next]_(Sandbox!lifeVars)
    BY <1>1, SandboxLifeStep DEF LifeInv
  <2>2. lifeStatus = item.status /\ lifeStatus' = item'.status
    BY <1>0, <1>1 DEF lifeStatus
  <2>3. [Life!Next]_(Life!lifeVars)
    BY <2>1, <2>2
    DEF Sandbox!Next, Sandbox!PersistSession, Sandbox!CheckLimit, Sandbox!LaunchEnds,
        Sandbox!FailSession, Sandbox!RegisterSandbox, Sandbox!ResumeSession, Sandbox!ExpireSession,
        Sandbox!CancelSession, Sandbox!CheckProvisioningTimeout, Sandbox!TerminateSession,
        Sandbox!Admitted, Sandbox!Becomes, Sandbox!lifeVars, Sandbox!SANDBOX_ACTIVE_STATUSES,
        Sandbox!WAITING_STATUSES,
        Life!Next, Life!PersistSession, Life!CheckLimit, Life!LaunchEnds, Life!FailSession,
        Life!RegisterSandbox, Life!ResumeSession, Life!ExpireSession, Life!CancelSession,
        Life!CheckProvisioningTimeout, Life!TerminateSession, Life!Admitted, Life!Becomes,
        Life!lifeVars, Life!SANDBOX_ACTIVE_STATUSES, Life!WAITING_STATUSES
  <2> QED BY <1>0, <1>1, <2>1, <2>3 DEF LifeInv
<1>2. CASE ~isSandbox
  BY <1>0, <1>2, DesktopStep DEF LifeInv, lifeStatus, Life!lifeVars
<1> QED BY <1>1, <1>2

LEMMA LifeInitially == LifeInit => LifeInv
BY DEF LifeInit, Init, StoreInit, LauncherInit, ServiceInit, LifecycleInit, NoCall, Asleep, LifeInv,
       SandboxLifeInv, DesktopLifeInv, OnlyLetThroughIsKnown, CallsAreRequested

(* A sandbox session's creation is known to nobody until it is let         *)
(* through, whatever fails and however requests and checks interleave.     *)
THEOREM LifeInvariance == LifeSpec => []LifeInv
<1>1. IInv /\ LifeInv /\ [LifeNext]_lifeVars => LifeInv'
  BY LifeStep
<1> QED BY <1>1, LifeInitially, LifeIsSpec, Invariance, PTL DEF LifeSpec

(* The system implements the life of a session SandboxQuota is made of:    *)
(* with every handler, manager and fault at work, the status of a sandbox  *)
(* session changes only as SessionLife says, and a desktop session takes   *)
(* no part in it.                                                          *)
THEOREM LifeTheorem == LifeSpec => ImplementsLife
<1>1. LifeInit => Life!Init
  BY DEF LifeInit, Init, StoreInit, Life!Init, lifeStatus
<1>2. IInv /\ LifeInv /\ [LifeNext]_lifeVars => [Life!Next]_(Life!lifeVars)
  BY LifeStep
<1> QED BY <1>1, <1>2, LifeInvariance, LifeIsSpec, Invariance, PTL
        DEF LifeSpec, ImplementsLife, Life!Spec
==============================================================================
