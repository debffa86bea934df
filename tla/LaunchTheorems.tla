---------------------------- MODULE LaunchTheorems ----------------------------
(***************************************************************************)
(* Who ends and who holds a session's container: no two managers stop it   *)
(* as long as nothing is resumed, and a container that a lost reply left   *)
(* behind is kept out once the one that is known shows in every read.      *)
(***************************************************************************)
EXTENDS SandboxTheorems

------------------------------------------------------------------------------
(* Termination, without resumption.                                        *)

\* Nobody is past the read of a resumption, and a session that is being stopped has ended.
ClaimInv ==
  /\ \A h \in Handler : call[h].pc \notin {"check", "expire", "run", "extend"}
  /\ \A m \in Manager : Stopping(m)
       => item.status \in {"SANDBOX_TERMINATED", "SESSION_CANCELLED", "SESSION_FAILED"}
  /\ NoDoubleTermination

\* With nothing resumed, a session that has ended stays ended.
LEMMA EndedStays ==
  ASSUME IInv, ClaimInv, [Next]_vars,
         item.status \in {"SANDBOX_TERMINATED", "SESSION_CANCELLED", "SESSION_FAILED"}
  PROVE  item'.status \in {"SANDBOX_TERMINATED", "SESSION_CANCELLED", "SESSION_FAILED"}
<1>1. item \in SessionItem
  BY DEF IInv, TypeOK, StoreTypeOK
<1>2. ~(\E h \in Handler : call[h].pc = "run")
  BY DEF ClaimInv
<1>3. CASE item'.status = item.status
  BY <1>3
<1>4. CASE item'.status # item.status
  BY <1>1, <1>2, <1>4, StatusChange DEF UpdateStatus, SessionItem
<1> QED BY <1>3, <1>4

\* A handler that is not in a resumption does not get into the middle of one.
LEMMA NoResumption ==
  ASSUME "resume" \notin Requests, TypeOK, [Next]_vars,
         \A h \in Handler : call[h].pc \notin {"check", "expire", "run", "extend"}
  PROVE  \A h \in Handler : call'[h].pc \notin {"check", "expire", "run", "extend"}
<1>1. call \in [Handler -> [pc : CallPc, arg : Container \cup Nat \cup {None}]]
  BY DEF TypeOK, ServiceTypeOK
<1>2. ASSUME NEW h \in Handler, Registration(h) \/ Resumption(h) \/ Cancellation(h) \/ AbortCall(h)
      PROVE  \E pc \in {"idle", "register", "cancel"} : \E arg : Enter(h, pc, arg)
  BY <1>2
  DEF Registration, Resumption, Cancellation, RegisterRead, RegisterWrite, ResumeRead, ResumeExpired,
      ResumeAccepted, ResumeRefused, ResumeExpire, ResumeRun, ResumeExtend, CancelRead, CancelWrite,
      AbortCall, Enter, Leave, NoCall
<1>3. \/ UNCHANGED call
      \/ \E h \in Handler, pc \in {"idle", "register", "cancel"} : \E arg : Enter(h, pc, arg)
  BY <1>2
  DEF Next, ServiceNext, Creation, BeginCreation, PersistSession, CheckLimit, LaunchSandbox,
      LaunchReplyLost, LaunchFails, StoreTaskArn, FailSession, FailSessionError, AbortCreation,
      outsideLifecycle, outsideTasks, outsideActivity, outsideCache, outsideUpload, serviceVars,
      outsideStore, ReplicaStep, ClockStep, vars
<1> QED BY <1>1, <1>3 DEF Enter

\* A manager begins to stop a container only when its claim has gone through.
LEMMA StoppingBegins ==
  ASSUME IInv, TypeOK', [Next]_vars, NEW m \in Manager, Stopping(m)', ~Stopping(m)
  PROVE  /\ item.status \in {"SANDBOX_READY", "SESSION_RUNNING"}
         /\ item'.status = "SANDBOX_TERMINATED"
         /\ \A n \in Manager \ {m} : mgr'[n] = mgr[n]
<1>1. item \in SessionItem /\ mgr \in [Manager -> CheckState]
  BY DEF IInv, TypeOK, StoreTypeOK, LifecycleTypeOK
<1>2. PICK n \in Manager : Check(n) \/ AbortCheck(n)
  BY DEF Stopping, Next, LifecycleNext, outsideService, outsideTasks, outsideActivity, outsideCache,
         outsideUpload, outsideStore, ReplicaStep, ClockStep, vars
<1>3. \A k \in Manager \ {n} : mgr'[k] = mgr[k]
  BY <1>1, <1>2
  DEF Check, Scan, Evaluate, FailProvisioning, ClaimMaxDuration, StopAfterMaxDuration, CheckTasks,
      ClaimIdle, StopAfterIdle, AbortCheck, Goto, Sleep, ThenIdleCheck
<1>4. n = m
  BY <1>3 DEF Stopping
<1>5. ~(Sleep(m) \/ Goto(m, "tasks") \/ Goto(m, "claimIdle"))
  <2>1. CASE Sleep(m)
    BY <1>1, <2>1 DEF Sleep, Asleep, Stopping
  <2>2. ASSUME NEW pc \in {"tasks", "claimIdle"}, Goto(m, pc)
        PROVE  FALSE
    <3>1. mgr'[m] = [mgr[m] EXCEPT !.pc = pc]
      BY <1>1, <2>2 DEF Goto
    <3>2. mgr'[m].pc = pc
      BY <1>1, <3>1 DEF CheckState
    <3> QED BY <3>2 DEF Stopping
  <2> QED BY <2>1, <2>2
<1>6. ~Scan(m)
  BY <1>1 DEF Scan, Stopping
<1>7. ~Evaluate(m)
  <2>1. ASSUME NEW pc \in {"provision", "claimMax", "tasks"}
        PROVE  mgr' # [mgr EXCEPT ![m] = [[mgr[m] EXCEPT !.now = clock] EXCEPT !.pc = pc]]
    BY <1>1 DEF CheckState, Stopping
  <2> QED BY <1>5, <2>1 DEF Evaluate
<1>8. (ClaimMaxDuration(m) \/ ClaimIdle(m)) /\ Claimed(m)
  BY <1>2, <1>4, <1>5, <1>6, <1>7
  DEF Check, FailProvisioning, ClaimMaxDuration, StopAfterMaxDuration, CheckTasks, ClaimIdle,
      StopAfterIdle, AbortCheck, ThenIdleCheck
<1>9. /\ item.status = mgr[m].status /\ mgr[m].pc \in {"claimMax", "claimIdle"}
      /\ UpdateStatus("SANDBOX_TERMINATED")
  BY <1>8 DEF ClaimMaxDuration, ClaimIdle, Claim, Claimed, ConditionalUpdateStatus
<1>10. item.status \in {"SANDBOX_READY", "SESSION_RUNNING"}
  BY <1>9 DEF IInv, LifecycleInv
<1> QED BY <1>1, <1>3, <1>4, <1>9, <1>10 DEF UpdateStatus, SessionItem

(* The claim is exclusive: it needs a session that is up, the session has  *)
(* ended from then on, and nothing but a resumption would undo that.       *)
THEOREM SingleTermination ==
  ASSUME "resume" \notin Requests
  PROVE  Spec => []NoDoubleTermination
<1>1. Init => ClaimInv
  BY DEF Init, ServiceInit, LifecycleInit, NoCall, Asleep, ClaimInv, Stopping, NoDoubleTermination
<1>2. ASSUME IInv, IInv', ClaimInv, [Next]_vars
      PROVE  ClaimInv'
  <2>0. TypeOK /\ TypeOK'
    BY <1>2 DEF IInv
  <2>1. \A h \in Handler : call'[h].pc \notin {"check", "expire", "run", "extend"}
    BY <1>2, <2>0, NoResumption DEF ClaimInv
  <2>2. ASSUME NEW m \in Manager, Stopping(m)'
        PROVE  item'.status \in {"SANDBOX_TERMINATED", "SESSION_CANCELLED", "SESSION_FAILED"}
    <3>1. CASE Stopping(m)
      BY <1>2, <3>1, EndedStays DEF ClaimInv
    <3>2. CASE ~Stopping(m)
      BY <1>2, <2>0, <2>2, <3>2, StoppingBegins
    <3> QED BY <3>1, <3>2
  <2>3. ASSUME NEW m \in Manager, NEW n \in Manager, Stopping(m)', Stopping(n)', m # n
        PROVE  FALSE
    <3>1. ASSUME NEW k \in Manager, NEW l \in Manager, k # l, Stopping(k)', ~Stopping(k), Stopping(l)'
          PROVE  FALSE
      <4>1. /\ item.status \in {"SANDBOX_READY", "SESSION_RUNNING"}
            /\ mgr'[l] = mgr[l]
        BY <1>2, <2>0, <3>1, StoppingBegins
      <4>2. Stopping(l)
        BY <3>1, <4>1 DEF Stopping
      <4> QED BY <1>2, <4>1, <4>2 DEF ClaimInv
    <3>2. CASE Stopping(m) /\ Stopping(n)
      BY <1>2, <2>3, <3>2 DEF ClaimInv, NoDoubleTermination
    <3> QED BY <2>3, <3>1, <3>2
  <2>4. NoDoubleTermination'
    BY <2>3 DEF NoDoubleTermination, Stopping
  <2> QED BY <2>1, <2>2, <2>4 DEF ClaimInv, Stopping
<1>3. ClaimInv => NoDoubleTermination
  BY DEF ClaimInv
<1> QED BY <1>1, <1>2, <1>3, Invariance, PTL DEF Spec

------------------------------------------------------------------------------
(* Strangers.                                                              *)

\* The ARN is stored by the last step of the creation, and a copy that lags shows it or nothing.
ArnInv ==
  /\ item.expectedTaskArn # None => creation.pc = "returned"
  /\ replica.expectedTaskArn \in {None, item.expectedTaskArn}

\* Each of the two attributes has one writer.
LEMMA LaunchWriters ==
  ASSUME TypeOK, [Next]_vars
  PROVE  /\ StoreTaskArn \/ item'.expectedTaskArn = item.expectedTaskArn
         /\ (\E h \in Handler : RegisterWrite(h)) \/ item'.sandboxEndpoint = item.sandboxEndpoint
<1> USE DEF storeVars, SessionItem
<1>0. item \in SessionItem
  BY DEF TypeOK, StoreTypeOK
<1>1. CASE Creation
  BY <1>0, <1>1
  DEF Creation, BeginCreation, PersistSession, CreateSession, CheckLimit, LaunchSandbox,
      LaunchReplyLost, LaunchFails, StoreTaskArn, StoreExpectedTaskArn, FailSession, UpdateStatus,
      FailSessionError, AbortCreation
<1>2. ASSUME NEW h \in Handler, Registration(h) \/ Resumption(h) \/ Cancellation(h) \/ AbortCall(h)
      PROVE  /\ item'.expectedTaskArn = item.expectedTaskArn
             /\ RegisterWrite(h) \/ item'.sandboxEndpoint = item.sandboxEndpoint
  BY <1>0, <1>2
  DEF Registration, Resumption, Cancellation, RegisterRead, RegisterWrite, RegisterSandbox, ResumeRead,
      ResumeExpired, ResumeAccepted, ResumeRefused, ResumeExpire, ResumeRun, ResumeExtend, UpdateExpiry,
      UpdateStatus, CancelRead, CancelWrite, AbortCall
<1>3. ASSUME NEW m \in Manager, Check(m) \/ AbortCheck(m)
      PROVE  UNCHANGED <<item.expectedTaskArn, item.sandboxEndpoint>>
  BY <1>0, <1>3
  DEF Check, Scan, Evaluate, FailProvisioning, ClaimMaxDuration, Claim, ConditionalUpdateStatus,
      UpdateStatus, StopAfterMaxDuration, CheckTasks, ClaimIdle, StopAfterIdle, AbortCheck
<1>4. CASE \/ TaskNext \/ ActivityNext \/ CacheNext \/ UploadNext
           \/ ReplicaStep \/ ClockStep \/ UNCHANGED vars
  BY <1>0, <1>4, ItemUntouched
  DEF TaskNext, CreateTaskRead, CreateTaskWrite, CompleteTaskRead, CompleteTaskWrite, AbortTaskCall,
      ActivityNext, BeginTouch, WriteActivity, UpdateLastActivity, RecordWrite, TouchFails, EvictEntry,
      ReplicaStep, Replicate, ClockStep, Tick, vars
<1> QED BY <1>1, <1>2, <1>3, <1>4 DEF Next, ServiceNext, LifecycleNext

\* Nothing happens to a creation that has returned.
LEMMA ReturnedStays ==
  ASSUME [Next]_vars, creation.pc = "returned"
  PROVE  creation' = creation
BY DEF Next, ServiceNext, Creation, BeginCreation, PersistSession, CheckLimit, LaunchSandbox,
       LaunchReplyLost, LaunchFails, StoreTaskArn, FailSession, FailSessionError, AbortCreation,
       Registration, RegisterRead, RegisterWrite, Resumption, ResumeRead, ResumeExpired,
       ResumeAccepted, ResumeRefused, ResumeExpire, ResumeRun, ResumeExtend, Cancellation, CancelRead,
       CancelWrite, AbortCall, outsideLifecycle, outsideTasks, outsideActivity, outsideCache,
       outsideUpload, outsideStore, serviceVars, ReplicaStep, ClockStep, vars

\* A registration that is under way got past the comparison of ARNs on some read.
LEMMA RegistrationBegins ==
  ASSUME TypeOK, [Next]_vars, NEW h \in Handler, call'[h].pc = "register"
  PROVE  \/ call'[h] = call[h]
         \/ \E read \in Readable : read.expectedTaskArn \in {None, call'[h].arg}
<1>1. call \in [Handler -> [pc : CallPc, arg : Container \cup Nat \cup {None}]]
  BY DEF TypeOK, ServiceTypeOK
<1>2. ASSUME NEW k \in Handler, NEW c \in Container, RegisterRead(k, c)
      PROVE  \/ call'[h] = call[h]
             \/ \E read \in Readable : read.expectedTaskArn \in {None, call'[h].arg}
  BY <1>1, <1>2 DEF RegisterRead, Enter
<1>3. ASSUME NEW k \in Handler, NEW pc \in CallPc \ {"register"}, NEW arg, Enter(k, pc, arg)
      PROVE  call'[h] = call[h]
  BY <1>1, <1>3 DEF Enter
<1>4. \/ UNCHANGED call
      \/ \E k \in Handler, c \in Container : RegisterRead(k, c)
      \/ \E k \in Handler, pc \in CallPc \ {"register"} : \E arg : Enter(k, pc, arg)
  <2>1. ASSUME NEW k \in Handler, \/ RegisterWrite(k) \/ Resumption(k) \/ Cancellation(k) \/ AbortCall(k)
        PROVE  \E pc \in CallPc \ {"register"} : \E arg : Enter(k, pc, arg)
    BY <2>1
    DEF Resumption, Cancellation, RegisterWrite, ResumeRead, ResumeExpired, ResumeAccepted,
        ResumeRefused, ResumeExpire, ResumeRun, ResumeExtend, CancelRead, CancelWrite, AbortCall,
        Enter, Leave, NoCall, CallPc
  <2> QED
    BY <2>1
    DEF Next, ServiceNext, Registration, Creation, BeginCreation, PersistSession, CheckLimit,
        LaunchSandbox, LaunchReplyLost, LaunchFails, StoreTaskArn, FailSession, FailSessionError,
        AbortCreation, outsideLifecycle, outsideTasks, outsideActivity, outsideCache, outsideUpload,
        outsideStore, serviceVars, ReplicaStep, ClockStep, vars
<1> QED BY <1>2, <1>3, <1>4

(* The ARN on record is never replaced, and once every read shows it the   *)
(* comparison in register_sandbox lets only its container through: of the  *)
(* containers a lost reply of RunTask left behind, those that have not got *)
(* past the comparison by then never hold the session.                     *)
THEOREM StrangersTheorem == Spec => StrangersStayOut
<1>1. Init => ArnInv
  BY DEF Init, StoreInit, ArnInv
<1>2. ASSUME TypeOK, ArnInv, [Next]_vars
      PROVE  ArnInv'
  <2>1. item.expectedTaskArn # None => item'.expectedTaskArn = item.expectedTaskArn
    BY <1>2, LaunchWriters DEF ArnInv, StoreTaskArn
  <2>2. item'.expectedTaskArn # None => creation'.pc = "returned"
    <3>1. CASE StoreTaskArn
      BY <1>2, <3>1 DEF StoreTaskArn, TypeOK, ServiceTypeOK
    <3>2. CASE ~StoreTaskArn
      BY <1>2, <3>2, LaunchWriters, ReturnedStays DEF ArnInv
    <3> QED BY <3>1, <3>2
  <2>3. replica' = replica \/ (replica' = item /\ item' = item)
    BY <1>2, ReplicaMoves
  <2>4. CASE replica' = replica
    BY <1>2, <2>1, <2>2, <2>4 DEF ArnInv
  <2>5. CASE replica' = item /\ item' = item
    BY <2>2, <2>5 DEF ArnInv
  <2> QED BY <2>3, <2>4, <2>5
<1>3. ASSUME TypeOK, ArnInv, [Next]_vars
      PROVE  [OnlyExpectedRegisters
                => OnlyExpectedRegisters' /\ item.expectedTaskArn' = item.expectedTaskArn]_vars
  <2> SUFFICES ASSUME OnlyExpectedRegisters
               PROVE  OnlyExpectedRegisters' /\ item'.expectedTaskArn = item.expectedTaskArn
    OBVIOUS
  <2>1. /\ item.expectedTaskArn # None
        /\ \A read \in Readable : read.expectedTaskArn = item.expectedTaskArn
    BY <1>3 DEF OnlyExpectedRegisters, ArnInv, Readable
  <2>2. item'.expectedTaskArn = item.expectedTaskArn
    BY <1>3, <2>1, LaunchWriters DEF ArnInv, StoreTaskArn
  <2>3. \A read \in Readable' : read.expectedTaskArn # None
    <3>1. replica' \in {replica, item}
      BY <1>3, ReplicaMoves
    <3> QED BY <2>1, <2>2, <3>1 DEF Readable
  <2>4. item'.sandboxEndpoint \in {None, item.expectedTaskArn}
    <3>1. ASSUME NEW h \in Handler, RegisterWrite(h)
          PROVE  item'.sandboxEndpoint \in {item.sandboxEndpoint, item.expectedTaskArn}
      BY <1>3, <3>1
      DEF RegisterWrite, RegisterSandbox, OnlyExpectedRegisters, TypeOK, StoreTypeOK, SessionItem
    <3> QED BY <1>3, <3>1, LaunchWriters DEF OnlyExpectedRegisters
  <2>5. ASSUME NEW h \in Handler, call'[h].pc = "register"
        PROVE  call'[h].arg = item.expectedTaskArn
    BY <1>3, <2>1, <2>5, RegistrationBegins DEF OnlyExpectedRegisters
  <2> QED BY <2>2, <2>3, <2>4, <2>5 DEF OnlyExpectedRegisters
<1> QED BY <1>1, <1>2, <1>3, TypeCorrect, PTL DEF Spec, StrangersStayOut
==============================================================================
