---------------------------- MODULE ActivityProofs ----------------------------
(***************************************************************************)
(* What a skipped activity update leaves on the record, for any number of  *)
(* copies and updates in flight, on hosts that have been up for at least   *)
(* one batch window.                                                       *)
(***************************************************************************)
EXTENDS TimelyActivity, SandboxTheorems

LEMMA TimelyIsSpec == TimelySpec => Spec
<1>1. [Next /\ WritesAreTimely']_vars => [Next]_vars
  OBVIOUS
<1> QED BY <1>1, PTL DEF TimelySpec, Spec

\* The types the arithmetic needs.
LEMMA ActivityTypes ==
  ASSUME TypeOK
  PROVE  /\ clock \in Nat /\ item \in SessionItem /\ item.lastActivityAt \in Nat \cup {None}
         /\ touch \in [Touch -> [pc : {"idle", "write", "record"}, proxy : Proxy \cup {None}, at : Nat]]
         /\ \A u \in Touch : touch[u].at \in Nat
         /\ lastWrite \in [Proxy -> Nat] /\ \A p \in Proxy : lastWrite[p] \in Nat
         /\ MaxWriteDelay \in Nat /\ Uptime \in Nat /\ BatchWindow \in Nat
BY DelayAssumption, ActivityAssumption DEF TypeOK, StoreTypeOK, ActivityTypeOK, SessionItem

\* Only update_last_activity writes the attribute, and no step turns the clock back.
LEMMA OthersKeepActivity ==
  ASSUME TypeOK, TypeOK', [Next]_vars, ~ActivityNext
  PROVE  /\ item'.lastActivityAt = item.lastActivityAt /\ UNCHANGED <<lastWrite, touch>>
         /\ clock <= clock'
<1>0. item \in SessionItem /\ clock \in Nat
  BY DEF TypeOK, StoreTypeOK
<1>1. CASE Creation /\ UNCHANGED outsideService
  <2>1. \/ UNCHANGED item
        \/ CreateSession(initialStatus, creation.at) \/ StoreExpectedTaskArn(creation.arn)
        \/ UpdateStatus("SESSION_FAILED")
    BY <1>1
    DEF Creation, BeginCreation, PersistSession, CheckLimit, LaunchSandbox, LaunchReplyLost, LaunchFails,
        StoreTaskArn, FailSession, FailSessionError, AbortCreation, storeVars
  <2>2. item'.lastActivityAt = item.lastActivityAt
    BY <1>0, <2>1 DEF CreateSession, StoreExpectedTaskArn, UpdateStatus, SessionItem
  <2>3. UNCHANGED clock
    BY <1>1
    DEF Creation, BeginCreation, PersistSession, CheckLimit, LaunchSandbox, LaunchReplyLost, LaunchFails,
        StoreTaskArn, FailSession, FailSessionError, AbortCreation, storeVars
  <2> QED BY <1>0, <1>1, <2>2, <2>3 DEF outsideService, activityVars
<1>2. ASSUME NEW h \in Handler, Registration(h) \/ Resumption(h) \/ Cancellation(h) \/ AbortCall(h),
             UNCHANGED outsideService
      PROVE  /\ item'.lastActivityAt = item.lastActivityAt /\ UNCHANGED <<lastWrite, touch>>
             /\ clock <= clock'
  <2>1. \/ UNCHANGED item
        \/ \E endpoint : RegisterSandbox(endpoint)
        \/ \E status : UpdateStatus(status)
        \/ \E expires : UpdateExpiry(expires)
    BY <1>2
    DEF Registration, Resumption, Cancellation, RegisterRead, RegisterWrite, ResumeRead, ResumeExpired,
        ResumeAccepted, ResumeRefused, ResumeExpire, ResumeRun, ResumeExtend, CancelRead, CancelWrite,
        AbortCall, storeVars
  <2>2. item'.lastActivityAt = item.lastActivityAt
    BY <1>0, <2>1 DEF RegisterSandbox, UpdateStatus, UpdateExpiry, SessionItem
  <2>3. UNCHANGED clock
    BY <1>2
    DEF Registration, Resumption, Cancellation, RegisterRead, RegisterWrite, ResumeRead, ResumeExpired,
        ResumeAccepted, ResumeRefused, ResumeExpire, ResumeRun, ResumeExtend, CancelRead, CancelWrite,
        AbortCall, storeVars
  <2> QED BY <1>0, <1>2, <2>2, <2>3 DEF outsideService, activityVars
<1>3. ASSUME NEW m \in Manager, Check(m) \/ AbortCheck(m), UNCHANGED outsideLifecycle
      PROVE  /\ item'.lastActivityAt = item.lastActivityAt /\ UNCHANGED <<lastWrite, touch>>
             /\ clock <= clock'
  BY <1>0, <1>3
  DEF Check, Scan, Evaluate, FailProvisioning, ClaimMaxDuration, Claim, ConditionalUpdateStatus,
      UpdateStatus, StopAfterMaxDuration, CheckTasks, ClaimIdle, StopAfterIdle, AbortCheck, storeVars,
      SessionItem, outsideLifecycle, activityVars
<1>4. CASE TaskNext /\ UNCHANGED outsideTasks
  BY <1>0, <1>4
  DEF TaskNext, CreateTaskRead, CreateTaskWrite, CompleteTaskRead, CompleteTaskWrite, AbortTaskCall,
      storeVars, outsideTasks, activityVars
<1>5. CASE (CacheNext /\ UNCHANGED outsideCache) \/ (UploadNext /\ UNCHANGED outsideUpload)
  BY <1>0, <1>5, ItemUntouched DEF outsideCache, outsideUpload, activityVars
<1>6. CASE ReplicaStep \/ ClockStep \/ UNCHANGED vars
  BY <1>0, <1>6 DEF ReplicaStep, Replicate, ClockStep, Tick, outsideStore, vars, storeVars, activityVars
<1> QED BY <1>1, <1>2, <1>3, <1>4, <1>5, <1>6 DEF Next, ServiceNext, LifecycleNext

LEMMA TimelyRely ==
  ASSUME TypeOK, TypeOK', TimelyInv, item'.lastActivityAt = item.lastActivityAt,
         UNCHANGED <<lastWrite, touch>>, clock <= clock'
  PROVE  TimelyInv'
<1>1. clock' \in Nat
  BY DEF TypeOK, StoreTypeOK
<1> QED BY <1>1, ActivityTypes DEF TimelyInv, OnRecordSince

\* A write that is applied in time is no older than any earlier one, give or take the delay.
LEMMA TimelyStep ==
  ASSUME TypeOK, TypeOK', TimelyInv, WritesAreTimely, ActivityNext
  PROVE  TimelyInv'
<1> USE ActivityTypes
<1>1. ASSUME NEW u \in Touch, NEW p \in Proxy, BeginTouch(u, p)
      PROVE  TimelyInv'
  BY <1>1 DEF BeginTouch, storeVars, TimelyInv, OnRecordSince
<1>2. ASSUME NEW u \in Touch, WriteActivity(u)
      PROVE  TimelyInv'
  <2>1. /\ item'.lastActivityAt = touch[u].at /\ UNCHANGED <<clock, lastWrite>>
        /\ \A v \in Touch : touch'[v].at = touch[v].at
        /\ touch[u].at \in Nat /\ clock \in Nat
    BY <1>2 DEF WriteActivity, UpdateLastActivity, SessionItem
  <2>2. touch[u].at + MaxWriteDelay >= clock
    BY <1>2, <2>1 DEF WriteActivity, WritesAreTimely
  <2>3. ASSUME NEW at \in Int, at <= clock
        PROVE  OnRecordSince(at)'
    BY <2>1, <2>2, <2>3, StoreAssumption DEF OnRecordSince
  <2>4. ASSUME NEW v \in Touch
        PROVE  /\ touch'[v].at <= clock' /\ OnRecordSince(touch[v].at)'
    BY <2>1, <2>3 DEF TimelyInv
  <2>5. ASSUME NEW p \in Proxy, lastWrite[p] # 0
        PROVE  lastWrite[p] <= clock + Uptime /\ OnRecordSince(lastWrite[p] - Uptime)'
    BY <2>1, <2>3, <2>5 DEF TimelyInv
  <2> QED BY <2>1, <2>4, <2>5 DEF TimelyInv, OnRecordSince
<1>3. ASSUME NEW u \in Touch, RecordWrite(u)
      PROVE  TimelyInv'
  <2>1. /\ UNCHANGED <<item, clock>> /\ touch[u].at <= clock /\ OnRecordSince(touch[u].at)
        /\ \A v \in Touch : touch'[v] \in {touch[v], NoTouch}
        /\ \A p \in Proxy : lastWrite'[p] \in {lastWrite[p], touch[u].at + Uptime}
    BY <1>3 DEF RecordWrite, EndTouch, storeVars, TimelyInv
  <2>2. touch[u].at \in Nat /\ clock \in Nat /\ (touch[u].at + Uptime) - Uptime = touch[u].at
    OBVIOUS
  <2> QED BY <2>1, <2>2 DEF NoTouch, TimelyInv, OnRecordSince
<1>4. ASSUME NEW u \in Touch, TouchFails(u)
      PROVE  TimelyInv'
  BY <1>4 DEF TouchFails, EndTouch, NoTouch, storeVars, TimelyInv, OnRecordSince
<1>5. ASSUME NEW p \in Proxy, EvictEntry(p)
      PROVE  TimelyInv'
  BY <1>5 DEF EvictEntry, storeVars, TimelyInv, OnRecordSince
<1> QED BY <1>1, <1>2, <1>3, <1>4, <1>5 DEF ActivityNext

(* An activity that is not written was written already: what is skipped    *)
(* within the window is on the record, no older than the window and the    *)
(* longest delay together.                                                 *)
THEOREM ActivityTheorem ==
  ASSUME Uptime >= BatchWindow
  PROVE  TimelySpec => []ActivityOnRecord
<1>1. Init => TimelyInv /\ WritesAreTimely
  BY DEF Init, StoreInit, ActivityInit, NoTouch, TimelyInv, WritesAreTimely
<1>2. ASSUME TypeOK, TypeOK', TimelyInv /\ WritesAreTimely, [Next /\ WritesAreTimely']_vars
      PROVE  (TimelyInv /\ WritesAreTimely)'
  <2>1. TimelyInv'
    <3>1. CASE ActivityNext
      BY <1>2, <3>1, TimelyStep
    <3>2. CASE ~ActivityNext
      BY <1>2, <3>2, OthersKeepActivity, TimelyRely
    <3> QED BY <3>1, <3>2
  <2>2. WritesAreTimely'
    BY <1>2 DEF WritesAreTimely, vars, storeVars, activityVars
  <2> QED BY <2>1, <2>2
<1>3. TypeOK /\ TimelyInv => ActivityOnRecord
  <2> SUFFICES ASSUME TypeOK, TimelyInv, NEW p \in Proxy, WithinWindow(p)
               PROVE  /\ item.lastActivityAt # None
                      /\ clock - item.lastActivityAt < BatchWindow + MaxWriteDelay
    BY DEF ActivityOnRecord, SkippedTouchIsOnRecord
  <2>1. /\ clock \in Nat /\ lastWrite[p] \in Nat /\ item.lastActivityAt \in Nat \cup {None}
        /\ MaxWriteDelay \in Nat /\ Uptime \in Nat /\ BatchWindow \in Nat
    BY ActivityTypes
  <2>2. (clock + Uptime) - lastWrite[p] < BatchWindow
    BY DEF WithinWindow, monotonic
  <2>3. lastWrite[p] # 0
    BY <2>1, <2>2
  <2>4. item.lastActivityAt \in Nat /\ item.lastActivityAt # None
        /\ item.lastActivityAt + MaxWriteDelay >= lastWrite[p] - Uptime
    BY <2>1, <2>3 DEF TimelyInv, OnRecordSince
  <2> QED BY <2>1, <2>2, <2>4
<1> QED BY <1>1, <1>2, <1>3, TimelyIsSpec, TypeCorrect, PTL DEF TimelySpec
==============================================================================
