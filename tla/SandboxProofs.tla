----------------------------- MODULE SandboxProofs -----------------------------
(***************************************************************************)
(* Proofs about SandboxSystem, for every number of requests, managers,     *)
(* tasks, proxies and containers and every value of the timeouts.          *)
(*                                                                         *)
(* TypeOK is inductive by itself.  The argument for the rest is one of     *)
(* rely and guarantee: every step guarantees ItemProgress, and what a      *)
(* component knows in the middle of its work survives any step of the      *)
(* others because it depends on nothing but ItemProgress.                  *)
(***************************************************************************)
EXTENDS SandboxInvariants, TLAPS

------------------------------------------------------------------------------
(* Type correctness.                                                       *)

LEMMA InitType == Init => TypeOK
<1> SUFFICES ASSUME Init
             PROVE  TypeOK
  OBVIOUS
<1>1. \A client \in Client : CheckCompatibility(client) \in BOOLEAN
  BY DEF CheckCompatibility
<1>2. StoreTypeOK
  <2>1. PICK env \in Environment, client \in Client :
          item = [status |-> "absent", env |-> env, compatible |-> CheckCompatibility(client),
                  createdAt |-> 0, expiresAt |-> 0, sandboxEndpoint |-> None,
                  expectedTaskArn |-> None, lastActivityAt |-> None]
    BY DEF Init, StoreInit
  <2>2. item \in SessionItem
    BY <1>1, <2>1 DEF SessionItem
  <2> QED BY <2>2 DEF Init, StoreInit, StoreTypeOK
<1> QED
  BY <1>2, StoreAssumption
  DEF Init, LauncherInit, ServiceInit, LifecycleInit, TaskInit, ActivityInit, CacheInit, UploadInit,
      TypeOK, LauncherTypeOK, ServiceTypeOK, LifecycleTypeOK, TaskTypeOK, ActivityTypeOK, CacheTypeOK,
      UploadTypeOK, CheckState, LifecyclePc, CacheEntry, UploadRecord, UploadPc, NoCall, Asleep, NoTaskCall, NoTouch,
      NoEntry, NoRequest, NewUpload, CreationPc, CallPc

\* Whichever version of the item a read returns, it is well formed.
LEMMA ReadableType ==
  ASSUME StoreTypeOK, NEW read \in Readable
  PROVE  read \in SessionItem
BY DEF StoreTypeOK, Readable

\* The statuses the handlers write are statuses of the table.
LEMMA WrittenStatuses ==
  {"SESSION_CREATED", "SESSION_RUNNING", "SESSION_FAILED", "SESSION_CANCELLED",
   "SANDBOX_PROVISIONING", "SANDBOX_READY", "SANDBOX_TERMINATED"} \subseteq SessionState
BY DEF SessionState

\* What the repository writes keeps the item well formed.
LEMMA CreateSessionType ==
  ASSUME item \in SessionItem, NEW status \in SessionState, NEW now \in Nat,
         CreateSession(status, now)
  PROVE  item' \in SessionItem
<1>1. now + ExpiryPeriod \in Nat
  BY StoreAssumption
<1> QED BY <1>1 DEF SessionItem, CreateSession

LEMMA RegisterSandboxType ==
  ASSUME item \in SessionItem, NEW c \in Container, RegisterSandbox(c)
  PROVE  item' \in SessionItem
BY WrittenStatuses DEF SessionItem, RegisterSandbox

LEMMA StatusWriteType ==
  ASSUME item \in SessionItem, NEW status \in SessionState, UpdateStatus(status)
  PROVE  item' \in SessionItem
BY DEF SessionItem, UpdateStatus

LEMMA AttemptFailedType ==
  ASSUME creation \in [pc : CreationPc, at : Nat, attempts : Nat, arn : Container \cup {None}],
         AttemptFailed
  PROVE  creation' \in [pc : CreationPc, at : Nat, attempts : Nat, arn : Container \cup {None}]
<1>1. creation.attempts + 1 \in Nat
  OBVIOUS
<1>2. PICK pc \in CreationPc :
        creation' = [creation EXCEPT !.attempts = creation.attempts + 1, !.pc = pc]
  BY DEF AttemptFailed, CreationPc
<1> QED BY <1>1, <1>2

LEMMA CreationType ==
  ASSUME TypeOK, Creation
  PROVE  StoreTypeOK' /\ LauncherTypeOK' /\ ServiceTypeOK'
<1> USE StoreAssumption
    DEF TypeOK, StoreTypeOK, LauncherTypeOK, ServiceTypeOK, storeVars, CreationPc
<1>1. CASE BeginCreation
  BY <1>1 DEF BeginCreation
<1>2. CASE PersistSession
  <2>0. initialStatus \in SessionState
    BY WrittenStatuses DEF initialStatus
  <2>1. item' \in SessionItem
    <3>1. creation.at \in Nat /\ CreateSession(initialStatus, creation.at)
      BY <1>2 DEF PersistSession
    <3> QED BY <2>0, <3>1, CreateSessionType
  <2> QED BY <1>2, <2>1 DEF PersistSession
<1>3. CASE CheckLimit
  BY <1>3 DEF CheckLimit
<1>4. ASSUME NEW c \in Container, LaunchSandbox(c)
      PROVE  StoreTypeOK' /\ LauncherTypeOK' /\ ServiceTypeOK'
  BY <1>4 DEF LaunchSandbox, RunTask
<1>5. ASSUME NEW c \in Container, LaunchReplyLost(c)
      PROVE  StoreTypeOK' /\ LauncherTypeOK' /\ ServiceTypeOK'
  BY <1>5, AttemptFailedType DEF LaunchReplyLost, RunTask
<1>6. CASE LaunchFails
  BY <1>6, AttemptFailedType DEF LaunchFails
<1>7. CASE StoreTaskArn
  <2>1. item' \in SessionItem
    BY <1>7 DEF StoreTaskArn, StoreExpectedTaskArn, SessionItem
  <2> QED BY <1>7, <2>1 DEF StoreTaskArn
<1>8. CASE FailSession
  <2>1. item' \in SessionItem
    <3>1. "SESSION_FAILED" \in SessionState /\ UpdateStatus("SESSION_FAILED")
      BY <1>8, WrittenStatuses DEF FailSession
    <3> QED BY <3>1, StatusWriteType
  <2> QED BY <1>8, <2>1 DEF FailSession
<1>9. CASE FailSessionError
  BY <1>9 DEF FailSessionError
<1>10. CASE AbortCreation
  BY <1>10 DEF AbortCreation
<1> QED BY <1>1, <1>2, <1>3, <1>4, <1>5, <1>6, <1>7, <1>8, <1>9, <1>10 DEF Creation

LEMMA RequestType ==
  ASSUME TypeOK, NEW h \in Handler,
         Registration(h) \/ Resumption(h) \/ Cancellation(h) \/ AbortCall(h)
  PROVE  StoreTypeOK' /\ LauncherTypeOK' /\ ServiceTypeOK'
<1> USE StoreAssumption
    DEF TypeOK, StoreTypeOK, LauncherTypeOK, ServiceTypeOK, storeVars, CallPc, Enter, Leave, NoCall
<1>1. ASSUME NEW c \in Container, RegisterRead(h, c)
      PROVE  StoreTypeOK' /\ LauncherTypeOK' /\ ServiceTypeOK'
  BY <1>1 DEF RegisterRead
<1>2. CASE RegisterWrite(h)
  <2>1. item' \in SessionItem
    <3>1. call[h].arg \in Container /\ RegisterSandbox(call[h].arg)
      BY <1>2 DEF RegisterWrite
    <3> QED BY <3>1, RegisterSandboxType
  <2> QED BY <1>2, <2>1 DEF RegisterWrite
<1>3. CASE ResumeRead(h)
  <2>1. PICK read \in Readable : Enter(h, "check", read.expiresAt)
    BY <1>3 DEF ResumeRead
  <2>2. read.expiresAt \in Nat
    BY ReadableType DEF SessionItem
  <2> QED BY <1>3, <2>1, <2>2 DEF ResumeRead
<1>4. CASE ResumeExpired(h)
  BY <1>4 DEF ResumeExpired
<1>5. CASE ResumeAccepted(h)
  BY <1>5 DEF ResumeAccepted
<1>6. CASE ResumeRefused(h)
  BY <1>6 DEF ResumeRefused
<1>7. CASE ResumeExpire(h)
  <2>1. item' \in SessionItem
    BY <1>7, StatusWriteType, WrittenStatuses DEF ResumeExpire
  <2> QED BY <1>7, <2>1 DEF ResumeExpire
<1>8. CASE ResumeRun(h)
  <2>1. item' \in SessionItem
    BY <1>8, StatusWriteType, WrittenStatuses DEF ResumeRun
  <2> QED BY <1>8, <2>1 DEF ResumeRun
<1>9. CASE ResumeExtend(h)
  <2>1. item' \in SessionItem
    BY <1>9 DEF ResumeExtend, UpdateExpiry, SessionItem
  <2> QED BY <1>9, <2>1 DEF ResumeExtend
<1>10. CASE CancelRead(h)
  BY <1>10 DEF CancelRead
<1>11. CASE CancelWrite(h)
  <2>1. item' \in SessionItem
    BY <1>11, StatusWriteType, WrittenStatuses DEF CancelWrite
  <2> QED BY <1>11, <2>1 DEF CancelWrite
<1>12. CASE AbortCall(h)
  BY <1>12 DEF AbortCall
<1> QED
  BY <1>1, <1>2, <1>3, <1>4, <1>5, <1>6, <1>7, <1>8, <1>9, <1>10, <1>11, <1>12
  DEF Registration, Resumption, Cancellation

\* A snapshot is made of attributes of an item.
LEMMA SnapshotType ==
  ASSUME NEW read \in SessionItem, Listed(read, LIFECYCLE_STATUSES)
  PROVE  /\ read.status \in LIFECYCLE_STATUSES
         /\ read.expectedTaskArn \in Container \cup {None}
         /\ lastActive(read) \in Nat
BY DEF Listed, lastActive, SessionItem

LEMMA StopType ==
  ASSUME TypeOK, NEW m \in Manager, StopSandboxContainer(m)
  PROVE  LauncherTypeOK' /\ cache' \in [Proxy -> CacheEntry]
BY DEF TypeOK, LauncherTypeOK, LifecycleTypeOK, CheckState, CacheTypeOK, CacheEntry, NoEntry,
       StopSandboxContainer, StopIfKnown, StopTask, InvalidateCache

LEMMA CheckType ==
  ASSUME TypeOK, NEW m \in Manager, Check(m) \/ AbortCheck(m)
  PROVE  StoreTypeOK' /\ LauncherTypeOK' /\ LifecycleTypeOK'
<1> USE StoreAssumption
    DEF TypeOK, StoreTypeOK, LauncherTypeOK, LifecycleTypeOK, CheckState, LifecyclePc, storeVars,
        Goto, Sleep, Asleep, ThenIdleCheck
<1>1. CASE Scan(m)
  <2>1. PICK read \in Readable :
          /\ Listed(read, LIFECYCLE_STATUSES)
          /\ mgr' = [mgr EXCEPT ![m] = [pc |-> "scanned", status |-> read.status,
                                        arn |-> read.expectedTaskArn, last |-> lastActive(read),
                                        now |-> 0]]
    BY <1>1 DEF Scan
  <2>2. read \in SessionItem
    BY ReadableType
  <2> QED BY <1>1, <2>1, <2>2, SnapshotType DEF Scan
<1>2. CASE Evaluate(m)
  <2>1. ASSUME NEW pc \in {"provision", "claimMax", "tasks"},
               mgr' = [mgr EXCEPT ![m] = [[mgr[m] EXCEPT !.now = clock] EXCEPT !.pc = pc]]
        PROVE  LifecycleTypeOK'
    <3>1. [mgr[m] EXCEPT !.now = clock] \in CheckState
      OBVIOUS
    <3>2. [[mgr[m] EXCEPT !.now = clock] EXCEPT !.pc = pc] \in CheckState
      BY <3>1
    <3> HIDE DEF CheckState
    <3> QED BY <2>1, <3>2
  <2>2. CASE Sleep(m)
    BY <1>2, <2>2 DEF Evaluate
  <2> QED BY <1>2, <2>1, <2>2 DEF Evaluate
<1>3. CASE FailProvisioning(m)
  <2>1. item' \in SessionItem
    <3>1. CASE item.status = "SANDBOX_PROVISIONING"
      BY <1>3, <3>1, StatusWriteType, WrittenStatuses DEF FailProvisioning, ConditionalUpdateStatus
    <3>2. CASE item.status # "SANDBOX_PROVISIONING"
      BY <1>3, <3>2 DEF FailProvisioning, ConditionalUpdateStatus
    <3> QED BY <3>1, <3>2
  <2> QED BY <1>3, <2>1 DEF FailProvisioning
<1>4. ASSUME Claim(m)
      PROVE  item' \in SessionItem
  <2>1. CASE item.status = mgr[m].status
    BY <1>4, <2>1, StatusWriteType, WrittenStatuses DEF Claim, ConditionalUpdateStatus
  <2>2. CASE item.status # mgr[m].status
    BY <1>4, <2>2 DEF Claim, ConditionalUpdateStatus
  <2> QED BY <2>1, <2>2
<1>5. CASE ClaimMaxDuration(m)
  BY <1>4, <1>5 DEF ClaimMaxDuration
<1>6. CASE StopAfterMaxDuration(m)
  BY <1>6, StopType DEF StopAfterMaxDuration
<1>7. CASE CheckTasks(m)
  BY <1>7 DEF CheckTasks
<1>8. CASE ClaimIdle(m)
  BY <1>4, <1>8 DEF ClaimIdle
<1>9. CASE StopAfterIdle(m)
  BY <1>9, StopType DEF StopAfterIdle
<1>10. CASE AbortCheck(m)
  BY <1>10 DEF AbortCheck
<1> QED BY <1>1, <1>2, <1>3, <1>5, <1>6, <1>7, <1>8, <1>9, <1>10 DEF Check

\* Of the cache, a manager touches the entry of its own copy, and only to drop it.
LEMMA CheckCacheType ==
  ASSUME TypeOK, NEW m \in Manager, Check(m) \/ AbortCheck(m)
  PROVE  cache' \in [Proxy -> CacheEntry]
<1>1. CASE StopAfterMaxDuration(m) \/ StopAfterIdle(m)
  BY <1>1, StopType DEF StopAfterMaxDuration, StopAfterIdle
<1>2. CASE UNCHANGED cache
  BY <1>2 DEF TypeOK, CacheTypeOK
<1> QED BY <1>1, <1>2 DEF Check, Scan, Evaluate, FailProvisioning, ClaimMaxDuration, CheckTasks,
                          ClaimIdle, AbortCheck

LEMMA TaskStepType ==
  ASSUME TypeOK, TaskNext
  PROVE  StoreTypeOK' /\ LauncherTypeOK' /\ TaskTypeOK'
<1> USE DEF TypeOK, StoreTypeOK, LauncherTypeOK, TaskTypeOK, storeVars, NoTaskCall, LeaveTaskCall,
            TaskState
<1> PICK w \in TaskCaller :
      \/ \E t \in Task : CreateTaskRead(w, t)
      \/ \E t \in Task, status \in TaskState \ {"running"} : CompleteTaskRead(w, t, status)
      \/ CreateTaskWrite(w) \/ CompleteTaskWrite(w) \/ AbortTaskCall(w)
  BY DEF TaskNext
<1>1. ASSUME NEW t \in Task, CreateTaskRead(w, t)
      PROVE  StoreTypeOK' /\ LauncherTypeOK' /\ TaskTypeOK'
  BY <1>1 DEF CreateTaskRead
<1>2. ASSUME NEW t \in Task, NEW status \in TaskState \ {"running"}, CompleteTaskRead(w, t, status)
      PROVE  StoreTypeOK' /\ LauncherTypeOK' /\ TaskTypeOK'
  BY <1>2 DEF CompleteTaskRead
<1>3. CASE CreateTaskWrite(w)
  BY <1>3 DEF CreateTaskWrite, PutTask
<1>4. CASE CompleteTaskWrite(w)
  BY <1>4 DEF CompleteTaskWrite, UpdateCompletion
<1>5. CASE AbortTaskCall(w)
  BY <1>5 DEF AbortTaskCall
<1> QED BY <1>1, <1>2, <1>3, <1>4, <1>5

LEMMA ActivityStepType ==
  ASSUME TypeOK, ActivityNext
  PROVE  StoreTypeOK' /\ LauncherTypeOK' /\ ActivityTypeOK'
<1> USE ActivityAssumption
    DEF TypeOK, StoreTypeOK, LauncherTypeOK, ActivityTypeOK, storeVars, NoTouch, EndTouch
<1>1. ASSUME NEW u \in Touch, NEW p \in Proxy, BeginTouch(u, p)
      PROVE  StoreTypeOK' /\ LauncherTypeOK' /\ ActivityTypeOK'
  BY <1>1 DEF BeginTouch
<1>2. ASSUME NEW u \in Touch, WriteActivity(u)
      PROVE  StoreTypeOK' /\ LauncherTypeOK' /\ ActivityTypeOK'
  <2>1. item' \in SessionItem
    BY <1>2 DEF WriteActivity, UpdateLastActivity, SessionItem
  <2> QED BY <1>2, <2>1 DEF WriteActivity
<1>3. ASSUME NEW u \in Touch, RecordWrite(u)
      PROVE  StoreTypeOK' /\ LauncherTypeOK' /\ ActivityTypeOK'
  <2>1. touch[u].at + Uptime \in Nat
    OBVIOUS
  <2>2. lastWrite' \in [Proxy -> Nat]
    BY <1>3, <2>1 DEF RecordWrite
  <2>3. touch' \in [Touch -> [pc : {"idle", "write", "record"}, proxy : Proxy \cup {None}, at : Nat]]
    BY <1>3 DEF RecordWrite
  <2> QED BY <1>3, <2>2, <2>3 DEF RecordWrite
<1>4. ASSUME NEW u \in Touch, TouchFails(u)
      PROVE  StoreTypeOK' /\ LauncherTypeOK' /\ ActivityTypeOK'
  BY <1>4 DEF TouchFails
<1>5. ASSUME NEW p \in Proxy, EvictEntry(p)
      PROVE  StoreTypeOK' /\ LauncherTypeOK' /\ ActivityTypeOK'
  BY <1>5 DEF EvictEntry
<1> QED BY <1>1, <1>2, <1>3, <1>4, <1>5 DEF ActivityNext

LEMMA CacheStepType ==
  ASSUME TypeOK, CacheNext
  PROVE  StoreTypeOK' /\ LauncherTypeOK' /\ CacheTypeOK'
<1> USE CacheAssumption
    DEF TypeOK, StoreTypeOK, LauncherTypeOK, CacheTypeOK, CacheEntry, storeVars, NoEntry, NoRequest,
        Proceed, EndRequest, InvalidateCache
<1>1. ASSUME NEW r \in Request, NEW p \in Proxy, NEW user \in User,
             ResolveFromCache(r, p, user) \/ StartLookup(r, p, user)
      PROVE  StoreTypeOK' /\ LauncherTypeOK' /\ CacheTypeOK'
  BY <1>1 DEF ResolveFromCache, StartLookup
<1>2. ASSUME NEW r \in Request, LookupFinds(r) \/ LookupRefused(r)
      PROVE  StoreTypeOK' /\ LauncherTypeOK' /\ CacheTypeOK'
  <2>1. \A read \in Readable : read.sandboxEndpoint \in Container \cup {None}
    BY ReadableType DEF SessionItem
  <2>2. CASE LookupFinds(r)
    <3>1. PICK read \in Readable : Proceed(r, "store", read.sandboxEndpoint)
      BY <2>2 DEF LookupFinds
    <3>2. PICK endpoint \in Container \cup {None} : endpoint = read.sandboxEndpoint
      BY <2>1
    <3>3. /\ request' = [request EXCEPT ![r].pc = "store", ![r].endpoint = endpoint]
          /\ UNCHANGED <<storeVars, container, cache>>
      BY <2>2, <3>1, <3>2 DEF LookupFinds
    <3> DEFINE next == [request[r] EXCEPT !.pc = "store", !.endpoint = endpoint]
    <3>4. next \in [pc       : {"idle", "lookup", "store", "forward"},
                   proxy    : Proxy \cup {None},
                   user     : User \cup {None},
                   endpoint : Container \cup {None},
                   at       : Nat]
      OBVIOUS
    <3>5. request' = [request EXCEPT ![r] = next]
      BY <3>3
    <3>6. request' \in [Request -> [pc       : {"idle", "lookup", "store", "forward"},
                                    proxy    : Proxy \cup {None},
                                    user     : User \cup {None},
                                    endpoint : Container \cup {None},
                                    at       : Nat]]
      <4> HIDE DEF next
      <4> QED BY <3>4, <3>5
    <3>7. UNCHANGED <<item, replica, task, clock, container, cache>>
      BY <3>3
    <3> HIDE DEF next, CacheEntry
    <3> QED BY <3>6, <3>7
  <2>3. CASE LookupRefused(r)
    BY <2>3 DEF LookupRefused
  <2> QED BY <1>2, <2>2, <2>3
<1>3. ASSUME NEW r \in Request, StoreEntry(r)
      PROVE  StoreTypeOK' /\ LauncherTypeOK' /\ CacheTypeOK'
  <2> DEFINE entry == [endpoint |-> request[r].endpoint, user |-> Owner, at |-> request[r].at]
  <2>1. entry \in CacheEntry
    OBVIOUS
  <2>2. cache' = [cache EXCEPT ![request[r].proxy] = entry]
    BY <1>3 DEF StoreEntry
  <2>3. cache' \in [Proxy -> CacheEntry]
    <3> HIDE DEF entry, CacheEntry
    <3> QED BY <2>1, <2>2
  <2>4. UNCHANGED <<item, replica, task, clock, container>>
    BY <1>3 DEF StoreEntry
  <2>5. request' \in [Request -> [pc       : {"idle", "lookup", "store", "forward"},
                                  proxy    : Proxy \cup {None},
                                  user     : User \cup {None},
                                  endpoint : Container \cup {None},
                                  at       : Nat]]
    <3> DEFINE next == [request[r] EXCEPT !.pc = "forward", !.endpoint = request[r].endpoint]
    <3>1. next \in [pc       : {"idle", "lookup", "store", "forward"},
                   proxy    : Proxy \cup {None},
                   user     : User \cup {None},
                   endpoint : Container \cup {None},
                   at       : Nat]
      OBVIOUS
    <3>2. request' = [request EXCEPT ![r] = next]
      BY <1>3 DEF StoreEntry
    <3> HIDE DEF next
    <3> QED BY <3>1, <3>2
  <2> QED BY <2>3, <2>4, <2>5
<1>4. ASSUME NEW r \in Request, ForwardEnds(r) \/ ForwardFails(r) \/ AbortRequest(r)
      PROVE  StoreTypeOK' /\ LauncherTypeOK' /\ CacheTypeOK'
  BY <1>4 DEF ForwardEnds, ForwardFails, AbortRequest
<1>5. ASSUME NEW p \in Proxy, EvictEndpoint(p)
      PROVE  StoreTypeOK' /\ LauncherTypeOK' /\ CacheTypeOK'
  BY <1>5 DEF EvictEndpoint
<1> QED BY <1>1, <1>2, <1>3, <1>4, <1>5 DEF CacheNext

LEMMA UploadStepType ==
  ASSUME TypeOK, UploadNext
  PROVE  StoreTypeOK' /\ LauncherTypeOK' /\ UploadTypeOK'
<1> USE DEF TypeOK, StoreTypeOK, LauncherTypeOK, UploadTypeOK, UploadPc, storeVars
<1>0. ASSUME NEW u \in Upload, NEW next \in UploadRecord, upload' = [upload EXCEPT ![u] = next],
             next.pc \in {"sync", "answer"} => next.endpoint \in Container,
             UNCHANGED <<item, replica, task, clock, container>>, stored' \in Nat,
             pulled' \in [Container -> Nat]
      PROVE  StoreTypeOK' /\ LauncherTypeOK' /\ UploadTypeOK'
  <2>1. upload' \in [Upload -> UploadRecord]
    BY <1>0
  <2>2. \A v \in Upload : upload'[v].pc \in {"sync", "answer"} => upload'[v].endpoint \in Container
    BY <1>0
  <2> QED BY <1>0, <2>1, <2>2
<1> PICK u \in Upload :
      \/ BeginUpload(u) \/ PersistFile(u) \/ PersistFails(u)
      \/ PullFile(u) \/ RefuseSync(u) \/ SyncAnswered(u) \/ SyncFails(u) \/ AbortUpload(u)
  BY DEF UploadNext
<1>1. CASE BeginUpload(u)
  <2>1. \A read \in Readable : read.sandboxEndpoint \in Container \cup {None}
    BY ReadableType DEF SessionItem
  <2>2. PICK endpoint \in Container \cup {None} :
          upload' = [upload EXCEPT ![u].pc = "persist", ![u].endpoint = endpoint]
    BY <1>1, <2>1 DEF BeginUpload
  <2> DEFINE next == [upload[u] EXCEPT !.pc = "persist", !.endpoint = endpoint]
  <2>3. next \in UploadRecord
    BY DEF UploadRecord
  <2>4. upload' = [upload EXCEPT ![u] = next] /\ next.pc = "persist"
    BY <2>2 DEF UploadRecord
  <2> HIDE DEF next
  <2>5. UNCHANGED <<item, replica, task, clock, container, stored, pulled>>
    BY <1>1 DEF BeginUpload
  <2> QED BY <1>0, <2>3, <2>4, <2>5
<1>2. CASE PersistFile(u)
  <2>1. stored + 1 \in Nat
    OBVIOUS
  <2>2. PICK pc \in {"replied", "sync"} :
          /\ upload' = [upload EXCEPT ![u].pc = pc, ![u].version = stored + 1]
          /\ pc = "sync" => upload[u].endpoint # None
    BY <1>2 DEF PersistFile
  <2> DEFINE next == [upload[u] EXCEPT !.pc = pc, !.version = stored + 1]
  <2>3. next \in UploadRecord
    BY <2>1 DEF UploadRecord
  <2>4. upload' = [upload EXCEPT ![u] = next] /\ next.pc = pc /\ next.endpoint = upload[u].endpoint
    BY <2>2 DEF UploadRecord
  <2>5. pc = "sync" => next.endpoint \in Container
    BY <2>2, <2>4 DEF UploadRecord
  <2> HIDE DEF next
  <2>6. UNCHANGED <<item, replica, task, clock, container, pulled>> /\ stored' = stored + 1
    BY <1>2 DEF PersistFile
  <2> QED BY <1>0, <2>1, <2>2, <2>3, <2>4, <2>5, <2>6
<1>3. CASE PersistFails(u)
  <2> DEFINE next == [upload[u] EXCEPT !.pc = "raised"]
  <2>1. next \in UploadRecord /\ next.pc = "raised"
    BY DEF UploadRecord
  <2>2. /\ upload' = [upload EXCEPT ![u] = next] /\ stored' \in Nat
        /\ UNCHANGED <<item, replica, task, clock, container, pulled>>
    BY <1>3 DEF PersistFails
  <2> HIDE DEF next
  <2> QED BY <1>0, <2>1, <2>2
<1>4. CASE PullFile(u)
  <2> DEFINE next == [upload[u] EXCEPT !.pc = "answer", !.answer = "result"]
  <2>1. next \in UploadRecord /\ next.endpoint \in Container
    BY <1>4 DEF PullFile, UploadRecord
  <2>2. /\ upload' = [upload EXCEPT ![u] = next] /\ pulled' \in [Container -> Nat]
        /\ UNCHANGED <<item, replica, task, clock, container, stored>>
    BY <1>4 DEF PullFile
  <2> HIDE DEF next
  <2> QED BY <1>0, <2>1, <2>2
<1>5. CASE RefuseSync(u)
  <2> DEFINE next == [upload[u] EXCEPT !.pc = "answer", !.answer = "error"]
  <2>1. next \in UploadRecord /\ next.endpoint \in Container
    BY <1>5 DEF RefuseSync, UploadRecord
  <2>2. /\ upload' = [upload EXCEPT ![u] = next]
        /\ UNCHANGED <<item, replica, task, clock, container, stored, pulled>>
    BY <1>5 DEF RefuseSync
  <2> HIDE DEF next
  <2> QED BY <1>0, <2>1, <2>2
<1>6. CASE SyncAnswered(u)
  <2> DEFINE next == [upload[u] EXCEPT !.pc = "replied", !.synced = TRUE]
  <2>1. next \in UploadRecord /\ next.pc = "replied"
    BY DEF UploadRecord
  <2>2. /\ upload' = [upload EXCEPT ![u] = next]
        /\ UNCHANGED <<item, replica, task, clock, container, stored, pulled>>
    BY <1>6 DEF SyncAnswered
  <2> HIDE DEF next
  <2> QED BY <1>0, <2>1, <2>2
<1>7. CASE SyncFails(u) \/ AbortUpload(u)
  <2>1. PICK pc \in {"replied", "raised"} : upload' = [upload EXCEPT ![u].pc = pc]
    BY <1>7 DEF SyncFails, AbortUpload
  <2> DEFINE next == [upload[u] EXCEPT !.pc = pc]
  <2>2. next \in UploadRecord /\ next.pc = pc
    BY DEF UploadRecord
  <2>3. /\ upload' = [upload EXCEPT ![u] = next]
        /\ UNCHANGED <<item, replica, task, clock, container, stored, pulled>>
    BY <1>7, <2>1 DEF SyncFails, AbortUpload
  <2> HIDE DEF next
  <2> QED BY <1>0, <2>2, <2>3
<1> QED BY <1>1, <1>2, <1>3, <1>4, <1>5, <1>6, <1>7

LEMMA TypeStep == TypeOK /\ [Next]_vars => TypeOK'
<1> SUFFICES ASSUME TypeOK, [Next]_vars
             PROVE  TypeOK'
  OBVIOUS
<1> USE DEF TypeOK
<1>1. CASE ServiceNext /\ UNCHANGED outsideService
  <2>1. StoreTypeOK' /\ LauncherTypeOK' /\ ServiceTypeOK'
    BY <1>1, CreationType, RequestType DEF ServiceNext
  <2>2. LifecycleTypeOK' /\ TaskTypeOK' /\ ActivityTypeOK' /\ CacheTypeOK' /\ UploadTypeOK'
    BY <1>1 DEF outsideService, activityVars, cacheVars, uploadVars, LifecycleTypeOK, TaskTypeOK,
                ActivityTypeOK, CacheTypeOK, UploadTypeOK
  <2> QED BY <2>1, <2>2
<1>2. CASE LifecycleNext /\ UNCHANGED outsideLifecycle
  <2>1. StoreTypeOK' /\ LauncherTypeOK' /\ LifecycleTypeOK'
    BY <1>2, CheckType DEF LifecycleNext
  <2>2. CacheTypeOK'
    BY <1>2, CheckCacheType DEF LifecycleNext, outsideLifecycle, CacheTypeOK
  <2>3. ServiceTypeOK' /\ TaskTypeOK' /\ ActivityTypeOK' /\ UploadTypeOK'
    BY <1>2 DEF outsideLifecycle, serviceVars, activityVars, uploadVars, ServiceTypeOK, TaskTypeOK,
                ActivityTypeOK, UploadTypeOK
  <2> QED BY <2>1, <2>2, <2>3
<1>3. CASE TaskNext /\ UNCHANGED outsideTasks
  <2>1. StoreTypeOK' /\ LauncherTypeOK' /\ TaskTypeOK'
    BY <1>3, TaskStepType
  <2>2. ServiceTypeOK' /\ LifecycleTypeOK' /\ ActivityTypeOK' /\ CacheTypeOK' /\ UploadTypeOK'
    BY <1>3 DEF outsideTasks, serviceVars, activityVars, cacheVars, uploadVars, ServiceTypeOK,
                LifecycleTypeOK, ActivityTypeOK, CacheTypeOK, UploadTypeOK
  <2> QED BY <2>1, <2>2
<1>4. CASE ActivityNext /\ UNCHANGED outsideActivity
  <2>1. StoreTypeOK' /\ LauncherTypeOK' /\ ActivityTypeOK'
    BY <1>4, ActivityStepType
  <2>2. ServiceTypeOK' /\ LifecycleTypeOK' /\ TaskTypeOK' /\ CacheTypeOK' /\ UploadTypeOK'
    BY <1>4 DEF outsideActivity, serviceVars, cacheVars, uploadVars, ServiceTypeOK, LifecycleTypeOK,
                TaskTypeOK, CacheTypeOK, UploadTypeOK
  <2> QED BY <2>1, <2>2
<1>5. CASE CacheNext /\ UNCHANGED outsideCache
  <2>1. StoreTypeOK' /\ LauncherTypeOK' /\ CacheTypeOK'
    BY <1>5, CacheStepType
  <2>2. ServiceTypeOK' /\ LifecycleTypeOK' /\ TaskTypeOK' /\ ActivityTypeOK' /\ UploadTypeOK'
    BY <1>5 DEF outsideCache, serviceVars, activityVars, uploadVars, ServiceTypeOK, LifecycleTypeOK,
                TaskTypeOK, ActivityTypeOK, UploadTypeOK
  <2> QED BY <2>1, <2>2
<1>6. CASE UploadNext /\ UNCHANGED outsideUpload
  <2>1. StoreTypeOK' /\ LauncherTypeOK' /\ UploadTypeOK'
    BY <1>6, UploadStepType
  <2>2. ServiceTypeOK' /\ LifecycleTypeOK' /\ TaskTypeOK' /\ ActivityTypeOK' /\ CacheTypeOK'
    BY <1>6 DEF outsideUpload, serviceVars, activityVars, cacheVars, ServiceTypeOK, LifecycleTypeOK,
                TaskTypeOK, ActivityTypeOK, CacheTypeOK
  <2> QED BY <2>1, <2>2
<1>7. CASE ClockStep
  BY <1>7 DEF ClockStep, Tick, outsideStore, serviceVars, activityVars, cacheVars, uploadVars,
              StoreTypeOK, LauncherTypeOK, ServiceTypeOK, LifecycleTypeOK, TaskTypeOK, ActivityTypeOK,
              CacheTypeOK, UploadTypeOK
<1>8. CASE UNCHANGED vars
  BY <1>8 DEF vars, storeVars, serviceVars, activityVars, cacheVars, uploadVars, StoreTypeOK,
              LauncherTypeOK, ServiceTypeOK, LifecycleTypeOK, TaskTypeOK, ActivityTypeOK, CacheTypeOK,
              UploadTypeOK
<1>9. CASE ReplicaStep
  BY <1>9 DEF ReplicaStep, Replicate, outsideStore, serviceVars, activityVars, cacheVars, uploadVars,
              StoreTypeOK, LauncherTypeOK, ServiceTypeOK, LifecycleTypeOK, TaskTypeOK, ActivityTypeOK,
              CacheTypeOK, UploadTypeOK
<1> QED BY <1>1, <1>2, <1>3, <1>4, <1>5, <1>6, <1>7, <1>8, <1>9 DEF Next

(* The item, the containers and the state of every component keep their    *)
(* types: no handler stores what another could not read back.              *)
THEOREM TypeCorrect == Spec => []TypeOK
<1>1. Init => TypeOK
  BY InitType
<1>2. TypeOK /\ [Next]_vars => TypeOK'
  BY TypeStep
<1> QED BY <1>1, <1>2, PTL DEF Spec
------------------------------------------------------------------------------
(* Reads: whichever version of the item is returned, the session has not   *)
(* gone back behind it.                                                    *)

LEMMA ItemIsEarlier ==
  ASSUME RecordInv
  PROVE  IsEarlierThanItem(item)
BY DEF RecordInv, StatusIsWritten, TimesAreInOrder, IsEarlierThanItem, Exists, PastProvisioning,
       HasStarted

LEMMA ReadIsEarlier ==
  ASSUME RecordInv, ReplicaInv, NEW read \in Readable
  PROVE  IsEarlierThanItem(read)
BY ItemIsEarlier DEF ReplicaInv, Readable

------------------------------------------------------------------------------
(* Rely: what a component knows survives the steps of the others.          *)

LEMMA ReplicaRely ==
  ASSUME ReplicaInv, ItemProgress, UNCHANGED replica
  PROVE  ReplicaInv'
BY DEF ReplicaInv, IsEarlierThanItem, ItemProgress

LEMMA CreationRely ==
  ASSUME TypeOK, TypeOK', CreationInv, ItemProgress, Exists' => Exists, UNCHANGED creation
  PROVE  CreationInv'
BY DEF TypeOK, StoreTypeOK, ServiceTypeOK, CreationInv, ItemProgress

LEMMA CallRely ==
  ASSUME CallInv, ItemProgress, UNCHANGED call
  PROVE  CallInv'
BY DEF CallInv, ItemProgress

LEMMA LifecycleRely ==
  ASSUME TypeOK, TypeOK', LifecycleInv, ItemProgress, UNCHANGED mgr
  PROVE  LifecycleInv'
<1>1. clock \in Nat /\ clock' \in Nat /\ \A m \in Manager : mgr[m].now \in Nat
  BY DEF TypeOK, StoreTypeOK, LifecycleTypeOK, CheckState
<1> QED BY <1>1 DEF LifecycleInv, ItemProgress, isSandbox

LEMMA TaskRely ==
  ASSUME TaskInv, ItemProgress, UNCHANGED <<task, taskCall>>
  PROVE  TaskInv'
BY DEF TaskInv, ItemProgress

LEMMA ActivityRely ==
  ASSUME ActivityInv, ItemProgress, UNCHANGED touch
  PROVE  ActivityInv'
BY DEF ActivityInv, ItemProgress

------------------------------------------------------------------------------
(* Guarantee: what each kind of write does to the record.                  *)

LEMMA NoWrite ==
  ASSUME TypeOK, RecordInv, UNCHANGED <<item, clock>>
  PROVE  RecordInv' /\ ItemProgress /\ (Exists' => Exists)
BY DEF TypeOK, StoreTypeOK, RecordInv, StatusIsWritten, WrittenStatus, StatusSuitsEnvironment, EndpointMatchesStatus,
       OnlyCompatibleRuns, ExpiryNeverCut, TimesAreInOrder, ItemProgress, Exists, PastProvisioning,
       HasStarted, isSandbox

(* However late a handler writes one of these statuses, the session has    *)
(* started by then and cannot have lost what the status stands for.        *)
LEMMA StatusWrite ==
  ASSUME TypeOK, RecordInv, Exists,
         NEW status \in {"SESSION_RUNNING", "SESSION_FAILED", "SESSION_CANCELLED", "SANDBOX_TERMINATED"},
         status = "SESSION_RUNNING" => item.compatible,
         status = "SANDBOX_TERMINATED" => isSandbox,
         UpdateStatus(status), UNCHANGED clock
  PROVE  RecordInv' /\ ItemProgress /\ (Exists' => Exists)
<1> USE DEF UpdateStatus, Exists, RecordInv, isSandbox
<1>1. item \in SessionItem /\ clock \in Nat
  BY DEF TypeOK, StoreTypeOK
<1>2. item' = [item EXCEPT !.status = status] /\ item'.status = status
  BY <1>1 DEF SessionItem
<1>3. ItemProgress
  BY <1>1, <1>2 DEF ItemProgress, PastProvisioning, HasStarted, SessionItem
<1>4. StatusIsWritten' /\ StatusSuitsEnvironment' /\ OnlyCompatibleRuns'
  BY <1>1, <1>2 DEF StatusIsWritten, WrittenStatus, StatusSuitsEnvironment, OnlyCompatibleRuns, SessionItem
<1>5. EndpointMatchesStatus'
  BY <1>2 DEF EndpointMatchesStatus
<1>6. ExpiryNeverCut' /\ TimesAreInOrder'
  BY <1>1, <1>2 DEF ExpiryNeverCut, TimesAreInOrder, SessionItem
<1> QED BY <1>3, <1>4, <1>5, <1>6

\* A conditional update is one of two things.
LEMMA ConditionalWrite ==
  ASSUME NEW newStatus, NEW expected, ConditionalUpdateStatus(newStatus, expected)
  PROVE  \/ item.status = expected /\ UpdateStatus(newStatus)
         \/ item.status # expected /\ UNCHANGED item
BY DEF ConditionalUpdateStatus
------------------------------------------------------------------------------
(* The steps of each component: they guarantee ItemProgress and keep the   *)
(* record's invariant and the component's own.                             *)

LEMMA CreationStep ==
  ASSUME IInv, TypeOK', Creation
  PROVE  RecordInv' /\ CreationInv' /\ ItemProgress /\ UNCHANGED call
<1> USE DEF IInv
<1>1. UNCHANGED clock /\ UNCHANGED call
  BY DEF Creation, BeginCreation, PersistSession, CheckLimit, LaunchSandbox, LaunchReplyLost,
         LaunchFails, StoreTaskArn, FailSession, FailSessionError, AbortCreation, storeVars
<1>2. clock \in Nat /\ item \in SessionItem /\ creation.at \in Nat /\ ExpiryPeriod \in Nat
  BY StoreAssumption DEF TypeOK, StoreTypeOK, ServiceTypeOK
<1>3. CASE PersistSession
  <2>1. ~Exists /\ creation.at <= clock
    BY <1>3 DEF PersistSession, CreationInv
  <2>2. item' = [item EXCEPT !.status = initialStatus, !.createdAt = creation.at,
                             !.expiresAt = creation.at + ExpiryPeriod]
    BY <1>3 DEF PersistSession, CreateSession
  <2>3. /\ item.sandboxEndpoint = None /\ item.lastActivityAt = None
    BY <2>1 DEF Exists, RecordInv, EndpointMatchesStatus, TimesAreInOrder
  <2>4. /\ item'.status = initialStatus /\ item'.createdAt = creation.at
        /\ item'.expiresAt = creation.at + ExpiryPeriod
        /\ item'.env = item.env /\ item'.compatible = item.compatible
        /\ item'.sandboxEndpoint = None /\ item'.lastActivityAt = None
    BY <1>2, <2>2, <2>3 DEF SessionItem
  <2>5. ItemProgress
    BY <1>1, <1>2, <2>1, <2>4 DEF ItemProgress, Exists, PastProvisioning, HasStarted
  <2>6. RecordInv'
    BY <1>1, <1>2, <2>1, <2>4
    DEF RecordInv, StatusIsWritten, WrittenStatus, StatusSuitsEnvironment, EndpointMatchesStatus, OnlyCompatibleRuns,
        ExpiryNeverCut, TimesAreInOrder, initialStatus, isSandbox, Exists
  <2>7. CreationInv'
    BY <1>1, <1>2, <1>3, <2>1, <2>4 DEF PersistSession, CreationInv, Exists, initialStatus, ServiceTypeOK, TypeOK
  <2> QED BY <1>1, <2>5, <2>6, <2>7
<1>4. CASE StoreTaskArn
  <2>1. item' = [item EXCEPT !.expectedTaskArn = creation.arn]
    BY <1>4 DEF StoreTaskArn, StoreExpectedTaskArn
  <2>2. RecordInv' /\ ItemProgress /\ Exists' = Exists
    BY <1>1, <1>2, <2>1
    DEF RecordInv, StatusIsWritten, WrittenStatus, StatusSuitsEnvironment, EndpointMatchesStatus, OnlyCompatibleRuns,
        ExpiryNeverCut, TimesAreInOrder, ItemProgress, Exists, PastProvisioning, HasStarted, isSandbox,
        SessionItem
  <2>3. CreationInv'
    BY <1>1, <1>4, <2>2 DEF StoreTaskArn, CreationInv, TypeOK, ServiceTypeOK
  <2> QED BY <1>1, <2>2, <2>3
<1>5. CASE FailSession
  <2>1. Exists /\ UpdateStatus("SESSION_FAILED")
    BY <1>5 DEF FailSession, CreationInv
  <2>2. RecordInv' /\ ItemProgress
    BY <1>1, <2>1, StatusWrite
  <2>3. CreationInv'
    BY <1>1, <1>5, <2>1, <2>2 DEF FailSession, CreationInv, TypeOK, ServiceTypeOK
  <2> QED BY <1>1, <2>2, <2>3
<1>6. CASE \/ BeginCreation \/ CheckLimit \/ LaunchFails \/ FailSessionError \/ AbortCreation
           \/ \E c \in Container : LaunchSandbox(c) \/ LaunchReplyLost(c)
  <2>1. UNCHANGED item
    BY <1>6 DEF BeginCreation, CheckLimit, LaunchFails, FailSessionError, AbortCreation,
                LaunchSandbox, LaunchReplyLost, storeVars
  <2>2. RecordInv' /\ ItemProgress
    BY <1>1, <2>1, NoWrite
  <2>3. CreationInv'
    <3> USE <1>1, <1>2, <2>1 DEF CreationInv, Exists, TypeOK, ServiceTypeOK
    <3>1. CASE BeginCreation
      BY <3>1 DEF BeginCreation
    <3>2. CASE CheckLimit \/ FailSessionError \/ AbortCreation
      BY <3>2 DEF CheckLimit, FailSessionError, AbortCreation
    <3>3. ASSUME creation.pc = "launch", AttemptFailed
          PROVE  CreationInv'
      BY <3>3 DEF AttemptFailed
    <3>4. CASE LaunchFails \/ \E c \in Container : LaunchReplyLost(c)
      BY <3>3, <3>4 DEF LaunchFails, LaunchReplyLost
    <3>5. CASE \E c \in Container : LaunchSandbox(c)
      BY <3>5 DEF LaunchSandbox
    <3> QED BY <1>6, <3>1, <3>2, <3>4, <3>5
  <2> QED BY <1>1, <2>2, <2>3
<1> QED BY <1>3, <1>4, <1>5, <1>6 DEF Creation

LEMMA RequestStep ==
  ASSUME IInv, TypeOK', NEW h \in Handler,
         Registration(h) \/ Resumption(h) \/ Cancellation(h) \/ AbortCall(h)
  PROVE  RecordInv' /\ CallInv' /\ ItemProgress /\ (Exists' => Exists) /\ UNCHANGED creation
<1> USE DEF IInv
<1>1. UNCHANGED clock /\ UNCHANGED creation
  BY DEF Registration, Resumption, Cancellation, RegisterRead, RegisterWrite, ResumeRead, ResumeExpired,
         ResumeAccepted, ResumeRefused, ResumeExpire, ResumeRun, ResumeExtend, CancelRead, CancelWrite,
         AbortCall, storeVars
<1>2. /\ clock \in Nat /\ item \in SessionItem /\ ExpiryPeriod \in Nat
      /\ call \in [Handler -> [pc : CallPc, arg : Container \cup Nat \cup {None}]]
  BY StoreAssumption DEF TypeOK, StoreTypeOK, ServiceTypeOK
<1>3. CASE RegisterWrite(h)
  <2>1. ASSUME item.status = "SANDBOX_PROVISIONING"
        PROVE  RecordInv' /\ ItemProgress /\ (Exists' => Exists)
    <3>1. /\ item' = [item EXCEPT !.sandboxEndpoint = call[h].arg, !.status = "SANDBOX_READY"]
          /\ call[h].arg \in Container
      BY <1>3, <2>1 DEF RegisterWrite, RegisterSandbox, TypeOK, ServiceTypeOK
    <3>2. /\ item'.status = "SANDBOX_READY" /\ item'.sandboxEndpoint # None
          /\ item'.env = item.env /\ item'.compatible = item.compatible
          /\ item'.createdAt = item.createdAt /\ item'.expiresAt = item.expiresAt
          /\ item'.lastActivityAt = item.lastActivityAt
      BY <1>2, <3>1, StoreAssumption DEF SessionItem
    <3>3. ItemProgress /\ (Exists' => Exists)
      BY <1>1, <1>2, <2>1, <3>2 DEF ItemProgress, Exists, PastProvisioning, HasStarted
    <3>4. RecordInv'
      BY <1>1, <2>1, <3>2
      DEF RecordInv, StatusIsWritten, WrittenStatus, StatusSuitsEnvironment, EndpointMatchesStatus, OnlyCompatibleRuns,
          ExpiryNeverCut, TimesAreInOrder, Exists, isSandbox
    <3> QED BY <3>3, <3>4
  <2>2. ASSUME item.status # "SANDBOX_PROVISIONING"
        PROVE  RecordInv' /\ ItemProgress /\ (Exists' => Exists)
    BY <1>1, <1>3, <2>2, NoWrite DEF RegisterWrite, RegisterSandbox
  <2>3. RecordInv' /\ ItemProgress /\ (Exists' => Exists)
    BY <2>1, <2>2
  <2>4. CallInv'
    BY <1>2, <1>3, <2>3 DEF RegisterWrite, Leave, NoCall, CallInv, ItemProgress
  <2> QED BY <1>1, <2>3, <2>4
<1>4. CASE ResumeRun(h)
  <2>1. Exists /\ item.compatible /\ UpdateStatus("SESSION_RUNNING")
    BY <1>4 DEF ResumeRun, CallInv
  <2>2. RecordInv' /\ ItemProgress /\ (Exists' => Exists)
    BY <1>1, <2>1, StatusWrite
  <2>3. PastProvisioning /\ item.createdAt <= clock /\ item.createdAt \in Nat
    BY <1>2, <1>4 DEF ResumeRun, CallInv, RecordInv, TimesAreInOrder, SessionItem
  <2>4. CallInv'
    BY <1>1, <1>2, <1>4, <2>1, <2>2, <2>3 DEF ResumeRun, Enter, CallInv, ItemProgress
  <2> QED BY <1>1, <2>2, <2>4
<1>5. CASE ResumeExtend(h)
  <2>1. item' = [item EXCEPT !.expiresAt = call[h].arg] /\ call[h].arg >= item.createdAt + ExpiryPeriod
    BY <1>5 DEF ResumeExtend, UpdateExpiry, CallInv
  <2>2. RecordInv' /\ ItemProgress /\ Exists' = Exists
    BY <1>1, <1>2, <2>1
    DEF RecordInv, StatusIsWritten, WrittenStatus, StatusSuitsEnvironment, EndpointMatchesStatus, OnlyCompatibleRuns,
        ExpiryNeverCut, TimesAreInOrder, ItemProgress, Exists, PastProvisioning, HasStarted, isSandbox,
        SessionItem
  <2>3. CallInv'
    BY <1>2, <1>5, <2>2 DEF ResumeExtend, Leave, NoCall, CallInv, ItemProgress
  <2> QED BY <1>1, <2>2, <2>3
<1>6. CASE ResumeExpire(h) \/ CancelWrite(h)
  <2>1. Exists /\ (UpdateStatus("SESSION_FAILED") \/ UpdateStatus("SESSION_CANCELLED"))
    BY <1>6 DEF ResumeExpire, CancelWrite, CallInv
  <2>2. RecordInv' /\ ItemProgress /\ (Exists' => Exists)
    BY <1>1, <2>1, StatusWrite
  <2>3. CallInv'
    BY <1>2, <1>6, <2>2 DEF ResumeExpire, CancelWrite, Leave, NoCall, CallInv, ItemProgress
  <2> QED BY <1>1, <2>2, <2>3
<1>7. CASE ResumeRead(h)
  <2>0. PICK read \in Readable : Resumable(read) /\ Enter(h, "check", read.expiresAt)
    BY <1>7 DEF ResumeRead
  <2>1. PastProvisioning /\ Exists
    BY <2>0, ReadIsEarlier
    DEF Resumable, CanTransitionTo, VALID_TRANSITIONS, SessionState, WAITING_STATUSES,
        IsEarlierThanItem, PastProvisioning, Exists
  <2>2. UNCHANGED item
    BY <1>7 DEF ResumeRead, storeVars
  <2>3. RecordInv' /\ ItemProgress /\ (Exists' => Exists)
    BY <1>1, <2>2, NoWrite
  <2>4. CallInv'
    BY <1>2, <2>0, <2>1, <2>2 DEF Enter, CallInv, Exists, PastProvisioning
  <2> QED BY <1>1, <2>3, <2>4
<1>8. CASE \/ \E c \in Container : RegisterRead(h, c)
           \/ ResumeExpired(h) \/ ResumeAccepted(h) \/ ResumeRefused(h) \/ CancelRead(h) \/ AbortCall(h)
  <2>1. UNCHANGED item
    BY <1>8 DEF RegisterRead, ResumeExpired, ResumeAccepted, ResumeRefused, CancelRead, AbortCall, storeVars
  <2>2. RecordInv' /\ ItemProgress /\ (Exists' => Exists)
    BY <1>1, <2>1, NoWrite
  <2>3. (\E c \in Container : RegisterRead(h, c)) \/ CancelRead(h) => Exists
    BY ReadIsEarlier
    DEF RegisterRead, CancelRead, CanTransitionTo, SessionState, WAITING_STATUSES, IsEarlierThanItem
  <2>4. CallInv'
    BY <1>2, <1>8, <2>1, <2>3
    DEF RegisterRead, ResumeExpired, ResumeAccepted, ResumeRefused, CancelRead, AbortCall, Enter, Leave,
        NoCall, CallInv, Exists, PastProvisioning
  <2> QED BY <1>1, <2>2, <2>4
<1> QED BY <1>3, <1>4, <1>5, <1>6, <1>7, <1>8 DEF Registration, Resumption, Cancellation

\* A claim, or a provisioning timeout, that goes through found the status of the snapshot.
LEMMA ManagerWrite ==
  ASSUME TypeOK, RecordInv, NEW status \in {"SESSION_FAILED", "SANDBOX_TERMINATED"}, NEW expected,
         isSandbox, Exists, ConditionalUpdateStatus(status, expected), UNCHANGED clock
  PROVE  RecordInv' /\ ItemProgress /\ (Exists' => Exists)
<1>1. CASE UpdateStatus(status)
  BY <1>1, StatusWrite
<1>2. CASE UNCHANGED item
  BY <1>2, NoWrite
<1> QED BY <1>1, <1>2, ConditionalWrite

\* Falling asleep forgets the snapshot.
LEMMA ManagerSleeps ==
  ASSUME TypeOK, TypeOK', LifecycleInv, ItemProgress, NEW m \in Manager, Sleep(m)
  PROVE  LifecycleInv'
<1>1. clock \in Nat /\ clock' \in Nat /\ mgr \in [Manager -> CheckState]
  BY DEF TypeOK, StoreTypeOK, LifecycleTypeOK
<1> QED BY <1>1 DEF LifecycleInv, ItemProgress, isSandbox, Sleep, Asleep, CheckState

\* Going on keeps the snapshot, and the idle check is entered with its verdict.
LEMMA ManagerGoesOn ==
  ASSUME TypeOK, TypeOK', LifecycleInv, ItemProgress, NEW m \in Manager,
         mgr[m].pc \notin {"sleep", "scanned", "provision"},
         NEW pc \in {"stopMax", "stopIdle", "tasks", "claimIdle"},
         pc \in {"tasks", "claimIdle"} => IsIdle(mgr[m]),
         Goto(m, pc)
  PROVE  LifecycleInv'
<1>1. clock \in Nat /\ clock' \in Nat /\ mgr \in [Manager -> CheckState]
  BY DEF TypeOK, StoreTypeOK, LifecycleTypeOK
<1>2. mgr'[m] = [mgr[m] EXCEPT !.pc = pc] /\ \A n \in Manager \ {m} : mgr'[n] = mgr[n]
  BY <1>1 DEF Goto
<1>3. /\ mgr'[m].pc = pc /\ mgr'[m].status = mgr[m].status
      /\ mgr'[m].last = mgr[m].last /\ mgr'[m].now = mgr[m].now
  BY <1>1, <1>2 DEF CheckState
<1> QED BY <1>1, <1>2, <1>3 DEF LifecycleInv, ItemProgress, IsIdle, isSandbox, CheckState

LEMMA CheckStep ==
  ASSUME IInv, TypeOK', NEW m \in Manager, Check(m) \/ AbortCheck(m)
  PROVE  RecordInv' /\ LifecycleInv' /\ ItemProgress /\ (Exists' => Exists)
<1> USE DEF IInv
<1>1. UNCHANGED clock
  BY DEF Check, Scan, Evaluate, FailProvisioning, ClaimMaxDuration, StopAfterMaxDuration, CheckTasks,
         ClaimIdle, StopAfterIdle, AbortCheck, storeVars
<1>2. clock \in Nat /\ item \in SessionItem /\ mgr \in [Manager -> CheckState]
  BY DEF TypeOK, StoreTypeOK, LifecycleTypeOK
<1>3. ASSUME mgr[m].pc # "sleep"
      PROVE  isSandbox /\ Exists
  BY <1>3 DEF LifecycleInv
<1>4. CASE Scan(m)
  <2>1. RecordInv' /\ ItemProgress /\ (Exists' => Exists) /\ UNCHANGED item
    BY <1>1, <1>4, NoWrite DEF Scan, storeVars
  <2>2. PICK read \in Readable :
          /\ Listed(read, LIFECYCLE_STATUSES)
          /\ mgr' = [mgr EXCEPT ![m] = [pc |-> "scanned", status |-> read.status,
                                        arn |-> read.expectedTaskArn, last |-> lastActive(read),
                                        now |-> 0]]
    BY <1>4 DEF Scan
  <2>3. /\ isSandbox /\ Exists
        /\ read.status \in {"SANDBOX_PROVISIONING", "SANDBOX_READY", "SESSION_RUNNING"}
        /\ read.status # "SANDBOX_PROVISIONING" => PastProvisioning
    BY <2>2, ReadIsEarlier
    DEF IsEarlierThanItem, Listed, LIFECYCLE_STATUSES, SANDBOX_ACTIVE_STATUSES, WAITING_STATUSES, isSandbox,
        WrittenStatus
  <2>4. lastActive(read) >= item.createdAt
    <3>1. read \in SessionItem /\ read.createdAt = item.createdAt
      BY <2>3, ReadIsEarlier, ReadableType DEF IsEarlierThanItem, TypeOK
    <3> QED BY <2>3, <3>1, ReadIsEarlier DEF lastActive, IsEarlierThanItem, SessionItem
  <2>5. LifecycleInv'
    BY <1>1, <1>2, <2>1, <2>2, <2>3, <2>4 DEF LifecycleInv, Exists, PastProvisioning, isSandbox
  <2> QED BY <2>1, <2>5
<1>5. CASE Evaluate(m)
  <2>1. RecordInv' /\ ItemProgress /\ (Exists' => Exists) /\ UNCHANGED item
    BY <1>1, <1>5, NoWrite DEF Evaluate, storeVars
  <2>2. CASE Sleep(m)
    BY <2>1, <2>2, ManagerSleeps
  <2>3. ASSUME NEW pc \in {"provision", "claimMax", "tasks"},
               mgr' = [mgr EXCEPT ![m] = [[mgr[m] EXCEPT !.now = clock] EXCEPT !.pc = pc]],
               mgr[m].pc = "scanned",
               pc = "provision" <=> mgr[m].status = "SANDBOX_PROVISIONING",
               pc = "provision" => clock - item.createdAt > ProvisionTimeout,
               pc = "claimMax" => clock - item.createdAt > MaxDuration,
               pc = "tasks" => clock - mgr[m].last > IdleTimeout
        PROVE  LifecycleInv'
    <3>1. \A n \in Manager \ {m} : mgr'[n] = mgr[n]
      BY <1>2, <2>3
    <3>2. mgr'[m] = [[mgr[m] EXCEPT !.now = clock] EXCEPT !.pc = pc]
      BY <1>2, <2>3
    <3>3. /\ mgr'[m].pc = pc /\ mgr'[m].now = clock
          /\ mgr'[m].status = mgr[m].status /\ mgr'[m].last = mgr[m].last
      BY <1>2, <3>2 DEF CheckState
    <3> QED BY <1>1, <1>2, <2>1, <2>3, <3>1, <3>3 DEF LifecycleInv, Exists, PastProvisioning, isSandbox
  <2>4. [mgr[m] EXCEPT !.now = clock].status = mgr[m].status
        /\ [mgr[m] EXCEPT !.now = clock].last = mgr[m].last /\ [mgr[m] EXCEPT !.now = clock].now = clock
    BY <1>2 DEF CheckState
  <2> QED BY <1>5, <2>1, <2>2, <2>3, <2>4 DEF Evaluate, AgeExceeds, IsIdle
<1>6. CASE FailProvisioning(m)
  <2>1. RecordInv' /\ ItemProgress /\ (Exists' => Exists)
    BY <1>1, <1>3, <1>6, ManagerWrite DEF FailProvisioning
  <2> QED BY <1>6, <2>1, ManagerSleeps DEF FailProvisioning
<1>7. CASE ClaimMaxDuration(m)
  <2>1. RecordInv' /\ ItemProgress /\ (Exists' => Exists)
    BY <1>1, <1>3, <1>7, ManagerWrite DEF ClaimMaxDuration, Claim
  <2>2. Goto(m, "stopMax") \/ (IsIdle(mgr[m]) /\ Goto(m, "tasks")) \/ Sleep(m)
    BY <1>7 DEF ClaimMaxDuration, ThenIdleCheck
  <2> QED BY <1>7, <2>1, <2>2, ManagerSleeps, ManagerGoesOn DEF ClaimMaxDuration
<1>8. CASE ClaimIdle(m)
  <2>1. RecordInv' /\ ItemProgress /\ (Exists' => Exists)
    BY <1>1, <1>3, <1>8, ManagerWrite DEF ClaimIdle, Claim
  <2>2. Goto(m, "stopIdle") \/ Sleep(m)
    BY <1>8 DEF ClaimIdle
  <2> QED BY <1>8, <2>1, <2>2, ManagerSleeps, ManagerGoesOn DEF ClaimIdle
<1>9. CASE StopAfterMaxDuration(m) \/ CheckTasks(m) \/ StopAfterIdle(m) \/ AbortCheck(m)
  <2>1. RecordInv' /\ ItemProgress /\ (Exists' => Exists)
    BY <1>1, <1>9, NoWrite DEF StopAfterMaxDuration, CheckTasks, StopAfterIdle, AbortCheck, storeVars
  <2>2. \/ Sleep(m)
        \/ mgr[m].pc = "stopMax" /\ IsIdle(mgr[m]) /\ Goto(m, "tasks")
        \/ mgr[m].pc = "tasks" /\ Goto(m, "claimIdle")
    BY <1>9 DEF StopAfterMaxDuration, CheckTasks, StopAfterIdle, AbortCheck, ThenIdleCheck
  <2>3. mgr[m].pc = "tasks" => IsIdle(mgr[m])
    BY DEF LifecycleInv, IsIdle
  <2> QED BY <2>1, <2>2, <2>3, ManagerSleeps, ManagerGoesOn
<1> QED BY <1>4, <1>5, <1>6, <1>7, <1>8, <1>9 DEF Check

LEMMA TaskStep ==
  ASSUME IInv, TypeOK', TaskNext
  PROVE  RecordInv' /\ TaskInv' /\ ItemProgress /\ (Exists' => Exists)
<1> USE DEF IInv
<1>1. UNCHANGED <<item, clock>>
  BY DEF TaskNext, CreateTaskRead, CreateTaskWrite, CompleteTaskRead, CompleteTaskWrite, AbortTaskCall,
         storeVars
<1>2. RecordInv' /\ ItemProgress /\ (Exists' => Exists)
  BY <1>1, NoWrite
<1>3. CASE HasStarted
  BY <1>1, <1>2, <1>3 DEF TaskInv, ItemProgress
<1>4. CASE \E w \in TaskCaller : AbortTaskCall(w)
  BY <1>1, <1>2, <1>4 DEF AbortTaskCall, LeaveTaskCall, NoTaskCall, TaskInv, ItemProgress, HasStarted,
                          storeVars, TypeOK, TaskTypeOK
<1>5. CASE ~HasStarted /\ ~(\E w \in TaskCaller : AbortTaskCall(w))
  <2>1. (\A t \in Task : task[t] = "absent") /\ (\A w \in TaskCaller : taskCall[w].pc = "idle")
    BY <1>5 DEF TaskInv
  <2>2. ~(\E read \in Readable : read.status \in TASK_STATUSES)
    BY <1>5, ReadIsEarlier DEF IsEarlierThanItem, TASK_STATUSES
  <2>3. FALSE
    BY <1>5, <2>1, <2>2
    DEF TaskNext, CreateTaskRead, CreateTaskWrite, CompleteTaskRead, ShowsRunning, CompleteTaskWrite
  <2> QED BY <2>3
<1> QED BY <1>2, <1>3, <1>4, <1>5

LEMMA ActivityStep ==
  ASSUME IInv, TypeOK', ActivityNext
  PROVE  RecordInv' /\ ActivityInv' /\ ItemProgress /\ (Exists' => Exists)
<1> USE DEF IInv
<1>1. /\ clock \in Nat /\ item \in SessionItem /\ item.createdAt \in Nat
      /\ touch \in [Touch -> [pc : {"idle", "write", "record"}, proxy : Proxy \cup {None}, at : Nat]]
  BY DEF TypeOK, StoreTypeOK, ActivityTypeOK, SessionItem
<1>2. UNCHANGED clock
  BY DEF ActivityNext, BeginTouch, WriteActivity, RecordWrite, TouchFails, EvictEntry, storeVars
<1>3. ASSUME NEW u \in Touch, WriteActivity(u)
      PROVE  RecordInv' /\ ActivityInv' /\ ItemProgress /\ (Exists' => Exists)
  <2>1. Exists /\ touch[u].at >= item.createdAt /\ touch[u].at \in Nat
    BY <1>1, <1>3 DEF WriteActivity, ActivityInv
  <2>2. item' = [item EXCEPT !.lastActivityAt = touch[u].at]
    BY <1>3 DEF WriteActivity, UpdateLastActivity
  <2>3. RecordInv' /\ ItemProgress /\ (Exists' => Exists)
    BY <1>1, <1>2, <2>1, <2>2
    DEF RecordInv, StatusIsWritten, WrittenStatus, StatusSuitsEnvironment, EndpointMatchesStatus, OnlyCompatibleRuns,
        ExpiryNeverCut, TimesAreInOrder, ItemProgress, Exists, PastProvisioning, HasStarted, isSandbox,
        SessionItem
  <2>4. ActivityInv'
    BY <1>1, <1>3, <2>1, <2>3 DEF WriteActivity, ActivityInv, ItemProgress
  <2> QED BY <2>3, <2>4
<1>4. CASE ~(\E u \in Touch : WriteActivity(u))
  <2>1. UNCHANGED item
    BY <1>4 DEF ActivityNext, BeginTouch, RecordWrite, TouchFails, EvictEntry, storeVars
  <2>2. RecordInv' /\ ItemProgress /\ (Exists' => Exists)
    BY <1>2, <2>1, NoWrite
  <2>3. Addressable => Exists /\ clock >= item.createdAt
    BY DEF Addressable, RecordInv, TimesAreInOrder, Exists
  <2>4. ActivityInv'
    BY <1>1, <1>4, <2>1, <2>3
    DEF ActivityNext, BeginTouch, RecordWrite, TouchFails, EvictEntry, EndTouch, NoTouch, ActivityInv, Exists
  <2> QED BY <2>2, <2>4
<1> QED BY <1>3, <1>4

------------------------------------------------------------------------------
(* The invariant.                                                          *)

LEMMA InitIInv == Init => IInv
<1> SUFFICES ASSUME Init
             PROVE  IInv
  OBVIOUS
<1>1. TypeOK
  BY InitType
<1>2. item.status = "absent" /\ item.sandboxEndpoint = None /\ item.lastActivityAt = None
      /\ item.createdAt = 0 /\ clock = 0 /\ task = [t \in Task |-> "absent"]
  BY DEF Init, StoreInit
<1>3. RecordInv
  BY <1>2 DEF RecordInv, StatusIsWritten, WrittenStatus, StatusSuitsEnvironment, EndpointMatchesStatus,
              OnlyCompatibleRuns, ExpiryNeverCut, TimesAreInOrder
<1>7. ReplicaInv
  BY <1>3, ItemIsEarlier DEF Init, StoreInit, ReplicaInv
<1>4. CreationInv /\ CallInv
  BY <1>2 DEF Init, ServiceInit, NoCall, CreationInv, CallInv, Exists
<1>5. LifecycleInv
  BY DEF Init, LifecycleInit, Asleep, LifecycleInv
<1>6. TaskInv /\ ActivityInv
  BY <1>2 DEF Init, TaskInit, NoTaskCall, TaskInv, ActivityInit, NoTouch, ActivityInv
<1> QED BY <1>1, <1>3, <1>4, <1>5, <1>6, <1>7 DEF IInv

LEMMA InvStep == IInv /\ [Next]_vars => IInv'
<1> SUFFICES ASSUME IInv, [Next]_vars
             PROVE  IInv'
  OBVIOUS
<1> USE DEF IInv
<1>0. TypeOK'
  BY TypeStep
<1>1. CASE ServiceNext /\ UNCHANGED outsideService
  <2>1. UNCHANGED <<mgr, taskCall, touch>> /\ UNCHANGED <<task, replica>>
    BY <1>1 DEF outsideService, activityVars, ServiceNext, Creation, BeginCreation, PersistSession,
                CheckLimit, LaunchSandbox, LaunchReplyLost, LaunchFails, StoreTaskArn, FailSession,
                FailSessionError, AbortCreation, Registration, Resumption, Cancellation, RegisterRead,
                RegisterWrite, ResumeRead, ResumeExpired, ResumeAccepted, ResumeRefused, ResumeExpire,
                ResumeRun, ResumeExtend, CancelRead, CancelWrite, AbortCall, storeVars
  <2>2. RecordInv' /\ CreationInv' /\ CallInv' /\ ItemProgress
    BY <1>0, <1>1, CreationStep, RequestStep, CreationRely, CallRely DEF ServiceNext
  <2> QED BY <1>0, <2>1, <2>2, ReplicaRely, LifecycleRely, TaskRely, ActivityRely
<1>2. CASE LifecycleNext /\ UNCHANGED outsideLifecycle
  <2>1. UNCHANGED <<creation, call, taskCall, touch>> /\ UNCHANGED <<task, replica>>
    BY <1>2 DEF outsideLifecycle, serviceVars, activityVars, LifecycleNext, Check, Scan, Evaluate,
                FailProvisioning, ClaimMaxDuration, StopAfterMaxDuration, CheckTasks, ClaimIdle,
                StopAfterIdle, AbortCheck, storeVars
  <2>2. RecordInv' /\ LifecycleInv' /\ ItemProgress /\ (Exists' => Exists)
    BY <1>0, <1>2, CheckStep DEF LifecycleNext
  <2> QED BY <1>0, <2>1, <2>2, ReplicaRely, CreationRely, CallRely, TaskRely, ActivityRely
<1>3. CASE TaskNext /\ UNCHANGED outsideTasks
  <2>1. UNCHANGED <<creation, call, mgr, touch, replica>>
    BY <1>3 DEF outsideTasks, serviceVars, activityVars, TaskNext, CreateTaskRead, CreateTaskWrite,
                CompleteTaskRead, CompleteTaskWrite, AbortTaskCall, storeVars
  <2>2. RecordInv' /\ TaskInv' /\ ItemProgress /\ (Exists' => Exists)
    BY <1>0, <1>3, TaskStep
  <2> QED BY <1>0, <2>1, <2>2, ReplicaRely, CreationRely, CallRely, LifecycleRely, ActivityRely
<1>4. CASE ActivityNext /\ UNCHANGED outsideActivity
  <2>1. UNCHANGED <<creation, call, mgr, task, taskCall, replica>>
    BY <1>4 DEF outsideActivity, serviceVars, ActivityNext, BeginTouch, WriteActivity, RecordWrite,
                TouchFails, EvictEntry, storeVars
  <2>2. RecordInv' /\ ActivityInv' /\ ItemProgress /\ (Exists' => Exists)
    BY <1>0, <1>4, ActivityStep
  <2> QED BY <1>0, <2>1, <2>2, ReplicaRely, CreationRely, CallRely, LifecycleRely, TaskRely
<1>5. CASE (CacheNext /\ UNCHANGED outsideCache) \/ (UploadNext /\ UNCHANGED outsideUpload)
  <2>1. UNCHANGED <<item, clock>> /\ UNCHANGED <<task, creation, call, mgr, taskCall, touch, replica>>
    BY <1>5 DEF outsideCache, outsideUpload, serviceVars, activityVars, CacheNext, ResolveFromCache,
                StartLookup, LookupFinds, LookupRefused, StoreEntry, ForwardEnds, ForwardFails,
                AbortRequest, EvictEndpoint, UploadNext, BeginUpload, PersistFile, PersistFails,
                PullFile, RefuseSync, SyncAnswered, SyncFails, AbortUpload, storeVars
  <2>2. RecordInv' /\ ItemProgress /\ (Exists' => Exists)
    BY <2>1, NoWrite
  <2> QED BY <1>0, <2>1, <2>2, ReplicaRely, CreationRely, CallRely, LifecycleRely, TaskRely, ActivityRely
<1>6. CASE ClockStep
  <2>1. /\ clock \in Nat /\ clock' = clock + 1 /\ item.createdAt \in Nat
        /\ UNCHANGED <<item, replica, task, creation, call, mgr, taskCall, touch>>
    BY <1>6 DEF ClockStep, Tick, outsideStore, serviceVars, activityVars, TypeOK, StoreTypeOK, SessionItem
  <2>2. RecordInv' /\ ItemProgress /\ (Exists' => Exists)
    BY <2>1 DEF RecordInv, StatusIsWritten, WrittenStatus, StatusSuitsEnvironment, EndpointMatchesStatus,
                OnlyCompatibleRuns, ExpiryNeverCut, TimesAreInOrder, ItemProgress, Exists,
                PastProvisioning, HasStarted, isSandbox
  <2> QED BY <1>0, <2>1, <2>2, ReplicaRely, CreationRely, CallRely, LifecycleRely, TaskRely, ActivityRely
<1>7. CASE UNCHANGED vars
  <2>1. UNCHANGED <<item, clock>> /\ UNCHANGED <<task, creation, call, mgr, taskCall, touch, replica>>
    BY <1>7 DEF vars, storeVars, serviceVars, activityVars
  <2>2. RecordInv' /\ ItemProgress /\ (Exists' => Exists)
    BY <2>1, NoWrite
  <2> QED BY <1>0, <2>1, <2>2, ReplicaRely, CreationRely, CallRely, LifecycleRely, TaskRely, ActivityRely
<1>8. CASE ReplicaStep
  <2>1. UNCHANGED <<item, clock>> /\ UNCHANGED <<task, creation, call, mgr, taskCall, touch>>
    BY <1>8 DEF ReplicaStep, Replicate, outsideStore, serviceVars, activityVars
  <2>2. RecordInv' /\ ItemProgress /\ (Exists' => Exists)
    BY <2>1, NoWrite
  <2>3. ReplicaInv'
    <3>1. replica' = item /\ item' = item
      BY <1>8 DEF ReplicaStep, Replicate
    <3> QED BY <3>1, ItemIsEarlier
            DEF ReplicaInv, IsEarlierThanItem, Exists, PastProvisioning, HasStarted
  <2> QED BY <1>0, <2>1, <2>2, <2>3, CreationRely, CallRely, LifecycleRely, TaskRely, ActivityRely
<1> QED BY <1>1, <1>2, <1>3, <1>4, <1>5, <1>6, <1>7, <1>8 DEF Next

(* The inductive invariant holds in every reachable state.                 *)
THEOREM Invariance == Spec => []IInv
<1>1. Init => IInv
  BY InitIInv
<1>2. IInv /\ [Next]_vars => IInv'
  BY InvStep
<1> QED BY <1>1, <1>2, PTL DEF Spec
==============================================================================
