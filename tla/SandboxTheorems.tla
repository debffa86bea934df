---------------------------- MODULE SandboxTheorems ----------------------------
(***************************************************************************)
(* What follows from the inductive invariant of SandboxProofs: the safety  *)
(* and action properties of SandboxSystem, and that it implements the      *)
(* contract, for every value of the constants.                             *)
(***************************************************************************)
EXTENDS SandboxProofs

(* A sandbox has an endpoint exactly from its registration on, whatever    *)
(* races with register_sandbox.                                            *)
THEOREM EndpointTheorem == Spec => []EndpointMatchesStatus
<1>1. IInv => EndpointMatchesStatus
  BY DEF IInv, RecordInv
<1> QED BY <1>1, Invariance, PTL

\* The compatibility gate of resume_session cannot be got round by any interleaving.
THEOREM GateTheorem == Spec => []OnlyCompatibleRuns
<1>1. IInv => OnlyCompatibleRuns
  BY DEF IInv, RecordInv
<1> QED BY <1>1, Invariance, PTL

\* update_expiry never leaves less than create_session gave.
THEOREM ExpiryTheorem == Spec => []ExpiryNeverCut
<1>1. IInv => ExpiryNeverCut
  BY DEF IInv, RecordInv
<1> QED BY <1>1, Invariance, PTL

\* No task lands in a session that has never been up, however late it is put.
THEOREM TaskTheorem == Spec => []TaskImpliesStarted
<1>1. IInv => TaskImpliesStarted
  BY DEF IInv, TaskInv, TaskImpliesStarted, HasStarted
<1> QED BY <1>1, Invariance, PTL

------------------------------------------------------------------------------
(* Which steps write which status.                                         *)

\* The cache, the requests and the uploads leave the item alone.
LEMMA ItemUntouched ==
  ASSUME CacheNext \/ UploadNext
  PROVE  UNCHANGED <<item, clock>>
BY DEF CacheNext, ResolveFromCache, StartLookup, LookupFinds, LookupRefused, StoreEntry, ForwardEnds,
       ForwardFails, AbortRequest, EvictEndpoint, UploadNext, BeginUpload, PersistFile, PersistFails,
       PullFile, RefuseSync, SyncAnswered, SyncFails, AbortUpload, storeVars

\* The copy that lags behind stays as it is, or catches up while nothing else happens.
LEMMA ReplicaMoves ==
  ASSUME [Next]_vars, replica' # replica
  PROVE  replica' = item /\ UNCHANGED <<item, task, clock>> /\ UNCHANGED outsideStore
<1>1. ~ServiceNext
  BY DEF ServiceNext, Creation, BeginCreation, PersistSession, CheckLimit, LaunchSandbox,
         LaunchReplyLost, LaunchFails, StoreTaskArn, FailSession, FailSessionError, AbortCreation,
         Registration, RegisterRead, RegisterWrite, Resumption, ResumeRead, ResumeExpired,
         ResumeAccepted, ResumeRefused, ResumeExpire, ResumeRun, ResumeExtend, Cancellation,
         CancelRead, CancelWrite, AbortCall, storeVars
<1>2. ~LifecycleNext
  BY DEF LifecycleNext, Check, Scan, Evaluate, FailProvisioning, ClaimMaxDuration,
         StopAfterMaxDuration, CheckTasks, ClaimIdle, StopAfterIdle, AbortCheck, storeVars
<1>3. ~TaskNext /\ ~ActivityNext
  BY DEF TaskNext, CreateTaskRead, CreateTaskWrite, CompleteTaskRead, CompleteTaskWrite, AbortTaskCall,
         ActivityNext, BeginTouch, WriteActivity, RecordWrite, TouchFails, EvictEntry, storeVars
<1>4. ~CacheNext /\ ~UploadNext
  BY ItemUntouched
  DEF CacheNext, ResolveFromCache, StartLookup, LookupFinds, LookupRefused, StoreEntry, ForwardEnds,
      ForwardFails, AbortRequest, EvictEndpoint, UploadNext, BeginUpload, PersistFile, PersistFails,
      PullFile, RefuseSync, SyncAnswered, SyncFails, AbortUpload, storeVars
<1>5. ~ClockStep /\ ~UNCHANGED vars
  BY DEF ClockStep, Tick, vars, storeVars
<1> QED BY <1>1, <1>2, <1>3, <1>4, <1>5 DEF Next, ReplicaStep, Replicate

\* The nine writes that can change the status.
LEMMA StatusWriters ==
  ASSUME TypeOK, [Next]_vars, item'.status # item.status
  PROVE  \/ PersistSession \/ FailSession
         \/ \E h \in Handler : RegisterWrite(h) \/ ResumeRun(h) \/ CancelWrite(h) \/ ResumeExpire(h)
         \/ \E m \in Manager : FailProvisioning(m) \/ ClaimMaxDuration(m) \/ ClaimIdle(m)
<1>0. item \in SessionItem
  BY DEF TypeOK, StoreTypeOK
<1>1. ASSUME Creation
      PROVE  PersistSession \/ FailSession
  BY <1>0, <1>1
  DEF Creation, BeginCreation, CheckLimit, LaunchSandbox, LaunchReplyLost, LaunchFails, StoreTaskArn,
      StoreExpectedTaskArn, FailSessionError, AbortCreation, storeVars, SessionItem
<1>2. ASSUME NEW h \in Handler, Registration(h) \/ Resumption(h) \/ Cancellation(h) \/ AbortCall(h)
      PROVE  RegisterWrite(h) \/ ResumeRun(h) \/ CancelWrite(h) \/ ResumeExpire(h)
  BY <1>0, <1>2
  DEF Registration, Resumption, Cancellation, RegisterRead, ResumeRead, ResumeExpired, ResumeAccepted,
      ResumeRefused, ResumeExtend, UpdateExpiry, CancelRead, AbortCall, storeVars, SessionItem
<1>3. ASSUME NEW m \in Manager, Check(m) \/ AbortCheck(m)
      PROVE  FailProvisioning(m) \/ ClaimMaxDuration(m) \/ ClaimIdle(m)
  BY <1>3 DEF Check, Scan, Evaluate, StopAfterMaxDuration, CheckTasks, StopAfterIdle, AbortCheck,
              storeVars
<1>4. ASSUME \/ TaskNext \/ ActivityNext \/ CacheNext \/ UploadNext
             \/ ReplicaStep \/ ClockStep \/ UNCHANGED vars
      PROVE  FALSE
  <2>1. \/ UNCHANGED item
        \/ \E at \in Nat : item' = [item EXCEPT !.lastActivityAt = at]
    BY <1>4, ItemUntouched
    DEF TaskNext, CreateTaskRead, CreateTaskWrite, CompleteTaskRead, CompleteTaskWrite, AbortTaskCall,
        ActivityNext, BeginTouch, WriteActivity, UpdateLastActivity, RecordWrite, TouchFails, EvictEntry,
        ReplicaStep, Replicate, ClockStep, Tick, storeVars, vars, TypeOK, ActivityTypeOK
  <2> QED BY <1>0, <2>1 DEF SessionItem
<1> QED BY <1>1, <1>2, <1>3, <1>4 DEF Next, ServiceNext, LifecycleNext

\* Every step that changes the status, by the status it writes and what its writer knew.
LEMMA StatusChange ==
  ASSUME IInv, [Next]_vars, item'.status # item.status
  PROVE  \/ /\ item.status = "absent" /\ PersistSession
         \/ /\ item.status = "SANDBOX_PROVISIONING"
            /\ \E c \in Container :
                 item' = [item EXCEPT !.sandboxEndpoint = c, !.status = "SANDBOX_READY"]
         \/ /\ UpdateStatus("SESSION_RUNNING") /\ item.compatible /\ PastProvisioning
            /\ \E h \in Handler : call[h].pc = "run"
         \/ /\ UpdateStatus("SESSION_CANCELLED") /\ Exists
            /\ \E h \in Handler : call[h].pc = "cancel"
         \/ /\ UpdateStatus("SESSION_FAILED") /\ Exists
            /\ \/ creation.pc \in {"fail", "failRetry"}
               \/ PastProvisioning /\ \E h \in Handler : call[h].pc = "expire"
               \/ /\ item.status = "SANDBOX_PROVISIONING"
                  /\ clock - item.createdAt > ProvisionTimeout
         \/ /\ UpdateStatus("SANDBOX_TERMINATED") /\ isSandbox
            /\ item.status \in {"SANDBOX_READY", "SESSION_RUNNING"}
            /\ \/ clock - item.createdAt > MaxDuration
               \/ clock - item.createdAt > IdleTimeout
<1> USE DEF IInv
<1>0. clock \in Nat /\ item \in SessionItem /\ item.createdAt \in Nat
  BY DEF TypeOK, StoreTypeOK, SessionItem
<1>1. CASE PersistSession
  BY <1>1 DEF PersistSession, CreationInv, Exists
<1>2. CASE FailSession
  BY <1>2 DEF FailSession, CreationInv
<1>3. ASSUME NEW h \in Handler
      PROVE  /\ RegisterWrite(h)
                  => /\ item.status = "SANDBOX_PROVISIONING"
                     /\ \E c \in Container :
                          item' = [item EXCEPT !.sandboxEndpoint = c, !.status = "SANDBOX_READY"]
             /\ ResumeRun(h)
                  => /\ UpdateStatus("SESSION_RUNNING") /\ item.compatible /\ PastProvisioning
                     /\ call[h].pc = "run"
             /\ CancelWrite(h)
                  => UpdateStatus("SESSION_CANCELLED") /\ Exists /\ call[h].pc = "cancel"
             /\ ResumeExpire(h)
                  => /\ UpdateStatus("SESSION_FAILED") /\ Exists
                     /\ PastProvisioning /\ call[h].pc = "expire"
  <2>1. CASE RegisterWrite(h)
    BY <2>1 DEF RegisterWrite, RegisterSandbox, TypeOK, ServiceTypeOK, ResumeRun, CancelWrite,
                ResumeExpire
  <2>2. CASE ~RegisterWrite(h)
    BY <2>2 DEF ResumeRun, CancelWrite, ResumeExpire, CallInv
  <2> QED BY <2>1, <2>2
<1>4. ASSUME NEW m \in Manager
      PROVE  /\ FailProvisioning(m)
                  => /\ UpdateStatus("SESSION_FAILED") /\ Exists
                     /\ item.status = "SANDBOX_PROVISIONING"
                     /\ clock - item.createdAt > ProvisionTimeout
             /\ ClaimMaxDuration(m) \/ ClaimIdle(m)
                  => /\ UpdateStatus("SANDBOX_TERMINATED") /\ isSandbox
                     /\ item.status \in {"SANDBOX_READY", "SESSION_RUNNING"}
                     /\ \/ clock - item.createdAt > MaxDuration
                        \/ clock - item.createdAt > IdleTimeout
  <2>0. mgr[m] \in CheckState /\ {ProvisionTimeout, IdleTimeout, MaxDuration} \subseteq Nat
    BY LifecycleAssumption DEF TypeOK, LifecycleTypeOK
  <2>1. ASSUME FailProvisioning(m)
        PROVE  /\ UpdateStatus("SESSION_FAILED") /\ Exists
               /\ item.status = "SANDBOX_PROVISIONING"
               /\ clock - item.createdAt > ProvisionTimeout
    <3>1. mgr[m].now <= clock /\ mgr[m].now - item.createdAt > ProvisionTimeout
      BY <2>1 DEF FailProvisioning, LifecycleInv
    <3>2. clock - item.createdAt > ProvisionTimeout
      BY <1>0, <2>0, <3>1 DEF CheckState
    <3>3. UpdateStatus("SESSION_FAILED") /\ item.status = "SANDBOX_PROVISIONING"
      BY <2>1 DEF FailProvisioning, ConditionalUpdateStatus
    <3> QED BY <3>2, <3>3 DEF Exists
  <2>2. ASSUME Claim(m), mgr[m].pc \in {"claimMax", "claimIdle"}
        PROVE  /\ UpdateStatus("SANDBOX_TERMINATED") /\ isSandbox
               /\ item.status \in {"SANDBOX_READY", "SESSION_RUNNING"}
    BY <2>2 DEF Claim, ConditionalUpdateStatus, LifecycleInv
  <2>3. ASSUME ClaimMaxDuration(m)
        PROVE  clock - item.createdAt > MaxDuration
    <3>1. mgr[m].now <= clock /\ mgr[m].now - item.createdAt > MaxDuration
      BY <2>3 DEF ClaimMaxDuration, LifecycleInv
    <3> QED BY <1>0, <2>0, <3>1 DEF CheckState
  <2>4. ASSUME ClaimIdle(m)
        PROVE  clock - item.createdAt > IdleTimeout
    <3>1. /\ mgr[m].now <= clock /\ mgr[m].now - mgr[m].last > IdleTimeout
          /\ mgr[m].last >= item.createdAt
      BY <2>4 DEF ClaimIdle, LifecycleInv
    <3> QED BY <1>0, <2>0, <3>1 DEF CheckState
  <2> QED BY <2>1, <2>2, <2>3, <2>4 DEF ClaimMaxDuration, ClaimIdle
<1> QED BY <1>1, <1>2, <1>3, <1>4, StatusWriters

\* A step that keeps the status keeps what the contract speaks of.
LEMMA SameStatus ==
  ASSUME IInv, [Next]_vars, item'.status = item.status
  PROVE  UNCHANGED <<item.env, item.compatible, item.sandboxEndpoint>>
<1> USE DEF IInv
<1>0. item \in SessionItem
  BY DEF TypeOK, StoreTypeOK
<1>1. ~PersistSession
  <2> SUFFICES ASSUME PersistSession
               PROVE  FALSE
    OBVIOUS
  <2>1. item.status = "absent" /\ item'.status = initialStatus
    BY <1>0 DEF PersistSession, CreateSession, CreationInv, Exists, SessionItem
  <2> QED BY <2>1 DEF initialStatus
<1>2. CASE Creation
  BY <1>0, <1>1, <1>2
  DEF Creation, BeginCreation, CheckLimit, LaunchSandbox, LaunchReplyLost, LaunchFails, StoreTaskArn,
      StoreExpectedTaskArn, FailSession, UpdateStatus, FailSessionError, AbortCreation, storeVars,
      SessionItem
<1>3. ASSUME NEW h \in Handler, Registration(h) \/ Resumption(h) \/ Cancellation(h) \/ AbortCall(h)
      PROVE  UNCHANGED <<item.env, item.compatible, item.sandboxEndpoint>>
  BY <1>0, <1>3
  DEF Registration, Resumption, Cancellation, RegisterRead, RegisterWrite, RegisterSandbox, ResumeRead,
      ResumeExpired, ResumeAccepted, ResumeRefused, ResumeExpire, ResumeRun, ResumeExtend, UpdateExpiry,
      UpdateStatus, CancelRead, CancelWrite, AbortCall, storeVars, SessionItem
<1>4. ASSUME NEW m \in Manager, Check(m) \/ AbortCheck(m)
      PROVE  UNCHANGED <<item.env, item.compatible, item.sandboxEndpoint>>
  BY <1>0, <1>4
  DEF Check, Scan, Evaluate, FailProvisioning, ClaimMaxDuration, Claim, ConditionalUpdateStatus,
      UpdateStatus, StopAfterMaxDuration, CheckTasks, ClaimIdle, StopAfterIdle, AbortCheck, storeVars,
      SessionItem
<1>5. CASE \/ TaskNext \/ ActivityNext \/ CacheNext \/ UploadNext
           \/ ReplicaStep \/ ClockStep \/ UNCHANGED vars
  BY <1>0, <1>5, ItemUntouched
  DEF TaskNext, CreateTaskRead, CreateTaskWrite, CompleteTaskRead, CompleteTaskWrite, AbortTaskCall,
      ActivityNext, BeginTouch, WriteActivity, UpdateLastActivity, RecordWrite, TouchFails, EvictEntry,
      ReplicaStep, Replicate, ClockStep, Tick, storeVars, vars, SessionItem
<1> QED BY <1>2, <1>3, <1>4, <1>5 DEF Next, ServiceNext, LifecycleNext

(* The grace period holds for every value of the limits: whichever of the  *)
(* two claims goes through, the session was older than one of them.        *)
THEOREM GraceTheorem == Spec => NeverTerminatedYoung
<1>1. ASSUME IInv, [Next]_vars
      PROVE  [item.status # "SANDBOX_TERMINATED" /\ item.status' = "SANDBOX_TERMINATED"
                => \/ clock - item.createdAt > MaxDuration
                   \/ clock - item.createdAt > IdleTimeout]_vars
  <2> SUFFICES ASSUME item.status # "SANDBOX_TERMINATED", item.status' = "SANDBOX_TERMINATED"
               PROVE  \/ clock - item.createdAt > MaxDuration
                      \/ clock - item.createdAt > IdleTimeout
    OBVIOUS
  <2>1. item \in SessionItem
    BY <1>1 DEF IInv, TypeOK, StoreTypeOK
  <2>2. ~PersistSession
    BY <2>1 DEF PersistSession, CreateSession, initialStatus, SessionItem
  <2> QED BY <1>1, <2>1, <2>2, StatusChange DEF UpdateStatus, SessionItem
<1> QED BY <1>1, Invariance, PTL DEF Spec, NeverTerminatedYoung

(* A waiting sandbox is failed by its own launch or by the timeout, and by *)
(* no resumption: nothing that waits can be resumed, and nothing that was  *)
(* resumable waits again.                                                  *)
THEOREM ProvisioningTheorem == Spec => ProvisioningGetsItsTime
<1>1. ASSUME IInv, [Next]_vars
      PROVE  [item.status = "SANDBOX_PROVISIONING" /\ item.status' = "SESSION_FAILED"
                => \/ clock - item.createdAt > ProvisionTimeout
                   \/ creation.pc \in {"fail", "failRetry"}]_vars
  <2> SUFFICES ASSUME item.status = "SANDBOX_PROVISIONING", item.status' = "SESSION_FAILED"
               PROVE  \/ clock - item.createdAt > ProvisionTimeout
                      \/ creation.pc \in {"fail", "failRetry"}
    OBVIOUS
  <2>1. item \in SessionItem
    BY <1>1 DEF IInv, TypeOK, StoreTypeOK
  <2> QED BY <1>1, <2>1, StatusChange DEF UpdateStatus, SessionItem, PastProvisioning
<1> QED BY <1>1, Invariance, PTL DEF Spec, ProvisioningGetsItsTime

\* Two rows of the table that are reached are empty.
LEMMA TerminalRows ==
  /\ \A s \in TERMINAL_STATUSES : s \in {"SESSION_CANCELLED", "SANDBOX_TERMINATED"}
  /\ \A s \in TERMINAL_STATUSES : \A to : ~CanTransitionTo(s, to)
<1>1. \A s \in TERMINAL_STATUSES : s \in SessionState /\ VALID_TRANSITIONS[s] = {}
  BY DEF TERMINAL_STATUSES
<1>2. \A s \in SessionState \ {"SESSION_CANCELLED", "SANDBOX_TERMINATED"} :
        "SESSION_RUNNING" \in VALID_TRANSITIONS[s] \/ "SESSION_FAILED" \in VALID_TRANSITIONS[s]
  BY DEF SessionState, WAITING_STATUSES, VALID_TRANSITIONS
<1> QED BY <1>1, <1>2 DEF CanTransitionTo

(* A terminal status is final once the writes decided before it was        *)
(* reached are done and no read shows an older one: then no operation can  *)
(* decide a new write, and the manager's conditional updates expect        *)
(* another status.                                                         *)
THEOREM TerminalTheorem == Spec => TerminalIsFinalWhenQuiet
<1>1. ASSUME IInv, [Next]_vars
      PROVE  [TerminalAndQuiet => TerminalAndQuiet' /\ item.status' = item.status]_vars
  <2> SUFFICES ASSUME TerminalAndQuiet
               PROVE  TerminalAndQuiet' /\ item.status' = item.status
    OBVIOUS
  <2>0. /\ item \in SessionItem
        /\ call \in [Handler -> [pc : CallPc, arg : Container \cup Nat \cup {None}]]
    BY <1>1 DEF IInv, TypeOK, StoreTypeOK, ServiceTypeOK
  <2>1. \A read \in Readable : /\ read.status \in {"SESSION_CANCELLED", "SANDBOX_TERMINATED"}
                              /\ \A to : ~CanTransitionTo(read.status, to)
    BY TerminalRows DEF TerminalAndQuiet
  <2>a. item \in Readable
    BY DEF Readable
  <2>2. item'.status = item.status
    <3> SUFFICES ASSUME item'.status # item.status
                 PROVE  FALSE
      OBVIOUS
    <3>1. ~(\E h \in Handler : call[h].pc \in {"run", "cancel", "expire"})
      BY DEF TerminalAndQuiet
    <3>2. creation.pc \notin {"fail", "failRetry"}
      BY DEF TerminalAndQuiet
    <3> QED BY <1>1, <2>1, <2>a, <3>1, <3>2, StatusChange
  <2>3. ~Creation
    BY DEF TerminalAndQuiet, Creation, BeginCreation, PersistSession, CheckLimit, LaunchSandbox,
           LaunchReplyLost, LaunchFails, StoreTaskArn, FailSession, FailSessionError, AbortCreation
  <2>4. ASSUME NEW h \in Handler, Registration(h) \/ Resumption(h) \/ Cancellation(h) \/ AbortCall(h)
        PROVE  call' = [call EXCEPT ![h] = NoCall] /\ creation' = creation
    <3>1. /\ \A read \in Readable : ~Resumable(read)
          /\ call[h].pc \notin {"check", "expire", "run", "cancel"}
      BY <2>1 DEF TerminalAndQuiet, Resumable
    <3> QED BY <2>1, <2>4, <3>1
            DEF Registration, Resumption, Cancellation, RegisterRead, RegisterWrite, ResumeRead,
                ResumeExpired, ResumeAccepted, ResumeRefused, ResumeExpire, ResumeRun, ResumeExtend,
                CancelRead, CancelWrite, AbortCall, Leave
  <2>5. \/ UNCHANGED <<creation, call>>
        \/ \E h \in Handler : call' = [call EXCEPT ![h] = NoCall] /\ creation' = creation
    BY <1>1, <2>3, <2>4
    DEF Next, ServiceNext, outsideLifecycle, outsideTasks, outsideActivity, outsideCache, outsideUpload,
        outsideStore, serviceVars, ReplicaStep, ClockStep, vars
  <2>6. /\ creation' = creation
        /\ \A h \in Handler : call'[h].pc \in {"idle", "register", "extend"}
    BY <2>0, <2>5 DEF TerminalAndQuiet, NoCall
  <2>7. \A read \in Readable' : read.status \in TERMINAL_STATUSES
    <3>1. replica' \in {replica, item}
      BY <1>1, ReplicaMoves
    <3>2. /\ item'.status \in TERMINAL_STATUSES
          /\ StaleReads => replica'.status \in TERMINAL_STATUSES
      BY <2>2, <3>1 DEF TerminalAndQuiet, Readable
    <3> QED BY <3>2 DEF Readable
  <2> QED BY <2>2, <2>6, <2>7 DEF TerminalAndQuiet
<1> QED BY <1>1, Invariance, PTL DEF Spec, TerminalIsFinalWhenQuiet

(* The system implements the contract: a step that changes the status is   *)
(* one of the contract's actions, and every other step is a stutter.       *)
THEOREM ContractTheorem == Spec => ImplementsContract
<1>1. Init => Contract!Init
  <2> SUFFICES ASSUME Init
               PROVE  Contract!Init
    OBVIOUS
  <2>1. item \in SessionItem
    BY InitType DEF TypeOK, StoreTypeOK
  <2>2. item.status = "absent" /\ item.sandboxEndpoint = None
    BY DEF Init, StoreInit
  <2> QED BY <2>1, <2>2 DEF SessionItem, Contract!Init
<1>2. ASSUME IInv, [Next]_vars
      PROVE  [Contract!Next]_(Contract!contractVars)
  <2>1. item \in SessionItem
    BY <1>2 DEF IInv, TypeOK, StoreTypeOK
  <2>2. CASE item'.status # item.status
    <3> USE DEF UpdateStatus, SessionItem, isSandbox
    <3>1. CASE item.status = "absent" /\ PersistSession
      BY <2>1, <3>1
      DEF PersistSession, CreateSession, initialStatus, Contract!Create, Contract!Next
    <3>2. CASE /\ item.status = "SANDBOX_PROVISIONING"
               /\ \E c \in Container :
                    item' = [item EXCEPT !.sandboxEndpoint = c, !.status = "SANDBOX_READY"]
      <4>1. item.sandboxEndpoint = None
        BY <1>2, <3>2 DEF IInv, RecordInv, EndpointMatchesStatus
      <4> QED BY <2>1, <3>2, <4>1 DEF Contract!Register, Contract!Next
    <3>3. CASE UpdateStatus("SESSION_RUNNING") /\ item.compatible /\ PastProvisioning
      BY <2>1, <3>3 DEF PastProvisioning, Contract!Run, Contract!Next
    <3>4. CASE UpdateStatus("SESSION_CANCELLED") /\ Exists
      BY <2>1, <3>4 DEF Exists, Contract!Cancel, Contract!Next
    <3>5. CASE UpdateStatus("SESSION_FAILED") /\ Exists
      BY <2>1, <3>5 DEF Exists, Contract!Fail, Contract!Next
    <3>6. CASE /\ UpdateStatus("SANDBOX_TERMINATED") /\ isSandbox
               /\ item.status \in {"SANDBOX_READY", "SESSION_RUNNING"}
      BY <2>1, <3>6 DEF Contract!Terminate, Contract!Next
    <3> HIDE DEF UpdateStatus, SessionItem, isSandbox
    <3> QED BY <1>2, <2>2, <3>1, <3>2, <3>3, <3>4, <3>5, <3>6, StatusChange
  <2>3. CASE item'.status = item.status
    <3>1. UNCHANGED <<item.env, item.compatible, item.sandboxEndpoint>>
      BY <1>2, <2>1, <2>3, SameStatus
    <3> QED BY <2>3, <3>1 DEF Contract!contractVars
  <2> QED BY <2>2, <2>3
<1> QED BY <1>1, <1>2, Invariance, PTL DEF Spec, ImplementsContract, Contract!Spec
==============================================================================
