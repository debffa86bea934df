---------------------------- MODULE SessionService ----------------------------
(***************************************************************************)
(* SessionService with the provisioning half of SandboxService: the        *)
(* creation of the session, its launch, and the later requests that        *)
(* register its sandbox, resume it and cancel it.                          *)
(*                                                                         *)
(* An async handler can be overtaken at every await.  Its reads are         *)
(* therefore one action, and its next write another; pc says which write   *)
(* a handler is about to make, and what it read is kept beside pc.         *)
(* Handlers that only answer (a guard that fails raises an error and       *)
(* changes nothing; get_session; update_session_name, whose attributes no  *)
(* handler reads) are not steps.                                           *)
(***************************************************************************)
EXTENDS SandboxLauncher

CONSTANTS
  Handler,   \* requests in flight at once, creation aside
  Requests   \* the kinds of request of a run: see RequestKinds

RequestKinds == {"register", "resume", "cancel"}

ASSUME ServiceAssumption == Requests \subseteq RequestKinds

VARIABLES
  creation,   \* the create_session call
  call        \* the call each handler is in
serviceVars == <<creation, call>>

NoCall == [pc |-> "idle", arg |-> None]

ServiceInit ==
  /\ creation = [pc |-> "new", at |-> 0, attempts |-> 0, arn |-> None]
  /\ call = [h \in Handler |-> NoCall]

\* Mutant: the id is known as soon as the session is persisted.
SessionIdOnRecord == item.status # "absent"

(* The session id is drawn by create_session: its caller has it once the   *)
(* reply is out, a container is given it in its environment.               *)
SessionIdKnown ==
  creation.pc = "returned" \/ \E c \in Container : container[c] = "running"

------------------------------------------------------------------------------
(* create_session.  The workspace has been resolved and `now` is read; for *)
(* a compatible desktop client the policy is fetched before put_item.      *)
BeginCreation ==
  /\ creation.pc = "new"
  /\ creation' = [creation EXCEPT !.pc = "persist", !.at = clock]
  /\ UNCHANGED <<storeVars, container, call>>

initialStatus ==
  IF isSandbox THEN "SANDBOX_PROVISIONING"
  ELSE IF item.compatible THEN "SESSION_RUNNING" ELSE "SESSION_CREATED"

PersistSession ==
  /\ creation.pc = "persist"
  /\ CreateSession(initialStatus, creation.at)
  /\ creation' = [creation EXCEPT !.pc = IF isSandbox THEN "count" ELSE "returned"]
  /\ UNCHANGED <<replica, task, clock, container, call>>

(* count_active_sandboxes against the limit: other sessions of the user    *)
(* decide, so both answers are possible.  Over the limit the call raises   *)
(* and the record stays as persisted.                                      *)
CheckLimit ==
  /\ creation.pc = "count"
  /\ \E withinLimit \in BOOLEAN :
       creation' = [creation EXCEPT !.pc = IF withinLimit THEN "launch" ELSE "raised"]
  /\ UNCHANGED <<storeVars, container, call>>

LaunchSandbox(c) ==
  /\ creation.pc = "launch"
  /\ RunTask(c)
  /\ creation' = [creation EXCEPT !.pc = "storeArn", !.arn = c]
  /\ UNCHANGED <<storeVars, call>>

\* Every error of launch is retried until the attempts are used up.
AttemptFailed ==
  LET attempts == creation.attempts + 1
  IN creation' = [creation EXCEPT !.attempts = attempts,
                                  !.pc = IF attempts < MaxAttempts THEN "launch" ELSE "fail"]

LaunchFails ==
  /\ "launchFails" \in Faults
  /\ creation.pc = "launch"
  /\ AttemptFailed
  /\ UNCHANGED <<storeVars, container, call>>

\* RunTask started a task, and the launcher sees an error.
LaunchReplyLost(c) ==
  /\ "replyLost" \in Faults
  /\ creation.pc = "launch"
  /\ RunTask(c)
  /\ AttemptFailed
  /\ UNCHANGED <<storeVars, call>>

StoreTaskArn ==
  /\ creation.pc = "storeArn"
  /\ StoreExpectedTaskArn(creation.arn)
  /\ creation' = [creation EXCEPT !.pc = "returned"]
  /\ UNCHANGED <<replica, task, clock, container, call>>

(* _fail_session writes SESSION_FAILED whatever the status has become,     *)
(* tries once more when the update fails, and then gives up.               *)
FailSession ==
  /\ creation.pc \in {"fail", "failRetry"}
  /\ UpdateStatus("SESSION_FAILED")
  /\ creation' = [creation EXCEPT !.pc = "raised"]
  /\ UNCHANGED <<replica, task, clock, container, call>>

FailSessionError ==
  /\ "storeFails" \in Faults
  /\ creation.pc \in {"fail", "failRetry"}
  /\ creation' = [creation EXCEPT !.pc = IF creation.pc = "fail" THEN "failRetry" ELSE "raised"]
  /\ UNCHANGED <<storeVars, container, call>>

AbortCreation ==
  /\ "crash" \in Faults
  /\ creation.pc \notin {"new", "returned", "raised"}
  /\ creation' = [creation EXCEPT !.pc = "raised"]
  /\ UNCHANGED <<storeVars, container, call>>

Creation ==
  \/ BeginCreation \/ PersistSession \/ CheckLimit
  \/ \E c \in Container : LaunchSandbox(c) \/ LaunchReplyLost(c)
  \/ LaunchFails \/ StoreTaskArn \/ FailSession \/ FailSessionError \/ AbortCreation

------------------------------------------------------------------------------
Enter(h, pc, arg) == call' = [call EXCEPT ![h] = [pc |-> pc, arg |-> arg]]
Leave(h) == call' = [call EXCEPT ![h] = NoCall]

(* register_sandbox, called by container c.  Each container the service    *)
(* starts holds the registration token.  The ARN is compared only when the *)
(* read shows one.  The policy is fetched between the read and the write.  *)

\* Mutant: the ARN is not compared.
RegisterReadAnyContainer(h, c) ==
  /\ "register" \in Requests
  /\ call[h] = NoCall
  /\ container[c] = "running"
  /\ \E read \in Readable : read.status = "SANDBOX_PROVISIONING"
  /\ Enter(h, "register", c)
  /\ UNCHANGED <<storeVars, container, creation>>

RegisterRead(h, c) ==
  /\ "register" \in Requests
  /\ call[h] = NoCall
  /\ container[c] = "running"
  /\ \E read \in Readable :
       /\ read.status = "SANDBOX_PROVISIONING"
       /\ read.expectedTaskArn \in {None, c}
  /\ Enter(h, "register", c)
  /\ UNCHANGED <<storeVars, container, creation>>

RegisterWrite(h) ==
  /\ call[h].pc = "register"
  /\ RegisterSandbox(call[h].arg)
  /\ Leave(h)
  /\ UNCHANGED <<replica, task, clock, container, creation>>

(* resume_session: the read, with the guard on the status; the verdict on  *)
(* the expiry that was read; then either one write or two.                 *)
Resumable(read) ==
  read.status = "SESSION_RUNNING" \/ CanTransitionTo(read.status, "SESSION_RUNNING")

\* Mutant: any session that exists can be resumed.
ResumeReadUnguarded(h) ==
  /\ "resume" \in Requests
  /\ call[h] = NoCall
  /\ SessionIdKnown
  /\ \E read \in Readable : read.status # "absent" /\ Enter(h, "check", read.expiresAt)
  /\ UNCHANGED <<storeVars, container, creation>>

ResumeRead(h) ==
  /\ "resume" \in Requests
  /\ call[h] = NoCall
  /\ SessionIdKnown
  /\ \E read \in Readable : Resumable(read) /\ Enter(h, "check", read.expiresAt)
  /\ UNCHANGED <<storeVars, container, creation>>

ResumeExpired(h) ==
  /\ call[h].pc = "check"
  /\ clock >= call[h].arg
  /\ Enter(h, "expire", None)
  /\ UNCHANGED <<storeVars, container, creation>>

\* Mutant: the compatibility check is not repeated.
ResumeWithoutGate(h) ==
  /\ call[h].pc = "check"
  /\ clock < call[h].arg
  /\ Enter(h, "run", None)
  /\ UNCHANGED <<storeVars, container, creation>>

\* An incompatible client is refused; otherwise the policy is fetched.
ResumeAccepted(h) ==
  /\ call[h].pc = "check"
  /\ clock < call[h].arg
  /\ item.compatible
  /\ Enter(h, "run", None)
  /\ UNCHANGED <<storeVars, container, creation>>

ResumeRefused(h) ==
  /\ call[h].pc = "check"
  /\ clock < call[h].arg
  /\ ~item.compatible
  /\ Leave(h)
  /\ UNCHANGED <<storeVars, container, creation>>

ResumeExpire(h) ==
  /\ call[h].pc = "expire"
  /\ UpdateStatus("SESSION_FAILED")
  /\ Leave(h)
  /\ UNCHANGED <<replica, task, clock, container, creation>>

\* Mutant: the new expiry is the present time.
ResumeRunWithoutPeriod(h) ==
  /\ call[h].pc = "run"
  /\ UpdateStatus("SESSION_RUNNING")
  /\ Enter(h, "extend", clock)
  /\ UNCHANGED <<replica, task, clock, container, creation>>

\* new_expires is computed just before the first of the two updates is sent.
ResumeRun(h) ==
  /\ call[h].pc = "run"
  /\ UpdateStatus("SESSION_RUNNING")
  /\ Enter(h, "extend", clock + ExpiryPeriod)
  /\ UNCHANGED <<replica, task, clock, container, creation>>

ResumeExtend(h) ==
  /\ call[h].pc = "extend"
  /\ UpdateExpiry(call[h].arg)
  /\ Leave(h)
  /\ UNCHANGED <<replica, task, clock, container, creation>>

CancelRead(h) ==
  /\ "cancel" \in Requests
  /\ call[h] = NoCall
  /\ SessionIdKnown
  /\ \E read \in Readable : CanTransitionTo(read.status, "SESSION_CANCELLED")
  /\ Enter(h, "cancel", None)
  /\ UNCHANGED <<storeVars, container, creation>>

CancelWrite(h) ==
  /\ call[h].pc = "cancel"
  /\ UpdateStatus("SESSION_CANCELLED")
  /\ Leave(h)
  /\ UNCHANGED <<replica, task, clock, container, creation>>

AbortCall(h) ==
  /\ "crash" \in Faults
  /\ call[h] # NoCall
  /\ Leave(h)
  /\ UNCHANGED <<storeVars, container, creation>>

Registration(h) == (\E c \in Container : RegisterRead(h, c)) \/ RegisterWrite(h)

Resumption(h) ==
  \/ ResumeRead(h) \/ ResumeExpired(h) \/ ResumeAccepted(h) \/ ResumeRefused(h)
  \/ ResumeExpire(h) \/ ResumeRun(h) \/ ResumeExtend(h)

Cancellation(h) == CancelRead(h) \/ CancelWrite(h)

ServiceNext ==
  \/ Creation
  \/ \E h \in Handler : Registration(h) \/ Resumption(h) \/ Cancellation(h) \/ AbortCall(h)

------------------------------------------------------------------------------
CreationPc == {"new", "persist", "count", "launch", "storeArn", "fail", "failRetry",
               "returned", "raised"}

CallPc == {"idle", "register", "check", "expire", "run", "extend", "cancel"}

\* Beside its pc a call keeps the container that registers, or an expiry.
ServiceTypeOK ==
  /\ creation \in [pc : CreationPc, at : Nat, attempts : Nat, arn : Container \cup {None}]
  /\ call \in [Handler -> [pc : CallPc, arg : Container \cup Nat \cup {None}]]
  /\ \A h \in Handler :
       /\ call[h].pc = "register" => call[h].arg \in Container
       /\ call[h].pc \in {"check", "extend"} => call[h].arg \in Nat
==============================================================================
