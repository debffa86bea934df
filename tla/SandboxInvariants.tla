--------------------------- MODULE SandboxInvariants ---------------------------
(***************************************************************************)
(* The inductive invariant of SandboxSystem, and the progress of the item  *)
(* every component relies on.  A handler in the middle of its work does    *)
(* not know that the status is still what it read; it does know that the   *)
(* session has not gone back behind the point where it was read.           *)
(***************************************************************************)
EXTENDS SandboxSystem

Exists == item.status # "absent"

\* The session has left the wait for its sandbox, or never had one.
PastProvisioning == item.status \notin {"absent", "SANDBOX_PROVISIONING"}

\* The session has been up, so it can have tasks.
HasStarted == item.status \notin {"absent", "SESSION_CREATED", "SANDBOX_PROVISIONING"}

------------------------------------------------------------------------------
(* What is true of the record alone.                                       *)

\* The other five statuses of SessionState are written by no handler of the service.
WrittenStatus ==
  {"absent", "SESSION_CREATED", "SESSION_RUNNING", "SESSION_FAILED", "SESSION_CANCELLED",
   "SANDBOX_PROVISIONING", "SANDBOX_READY", "SANDBOX_TERMINATED"}

StatusIsWritten == item.status \in WrittenStatus

StatusSuitsEnvironment ==
  item.status \in {"SANDBOX_PROVISIONING", "SANDBOX_READY", "SANDBOX_TERMINATED"} => isSandbox

TimesAreInOrder ==
  /\ item.createdAt <= clock
  /\ item.lastActivityAt # None => Exists /\ item.lastActivityAt >= item.createdAt

RecordInv ==
  /\ StatusIsWritten
  /\ StatusSuitsEnvironment
  /\ EndpointMatchesStatus
  /\ OnlyCompatibleRuns
  /\ ExpiryNeverCut
  /\ TimesAreInOrder

(* What a copy that lags behind still says of the record: nothing of the   *)
(* status but that the session has not gone back behind it.                *)
IsEarlierThanItem(read) ==
  /\ read.env = item.env
  /\ read.status \in WrittenStatus
  /\ read.status # "absent" => Exists /\ read.createdAt = item.createdAt
  /\ read.status \notin {"absent", "SANDBOX_PROVISIONING"} => PastProvisioning
  /\ read.status \notin {"absent", "SESSION_CREATED", "SANDBOX_PROVISIONING"} => HasStarted
  /\ read.lastActivityAt # None
       => read.status # "absent" /\ read.lastActivityAt >= read.createdAt

ReplicaInv == IsEarlierThanItem(replica)

------------------------------------------------------------------------------
(* What each component knows in the middle of its work.                    *)

\* The item is there exactly from put_item on.
CreationInv ==
  /\ creation.pc \in {"new", "persist"} => ~Exists
  /\ creation.pc \notin {"new", "persist", "raised"} => Exists
  /\ creation.at <= clock

\* What a pending request may rely on when it writes.
CallInv ==
  \A h \in Handler :
    /\ call[h].pc # "idle" => Exists
    /\ call[h].pc \in {"check", "expire", "run", "extend"} => PastProvisioning
    /\ call[h].pc \in {"run", "extend"} => item.compatible
    /\ call[h].pc = "extend" => call[h].arg >= item.createdAt + ExpiryPeriod

\* What a manager's snapshot and its verdict still say about the session.
LifecycleInv ==
  \A m \in Manager : mgr[m].pc # "sleep" =>
    /\ isSandbox
    /\ Exists
    /\ mgr[m].status \in {"SANDBOX_PROVISIONING", "SANDBOX_READY", "SESSION_RUNNING"}
    /\ mgr[m].status # "SANDBOX_PROVISIONING" => PastProvisioning
    /\ mgr[m].last >= item.createdAt
    /\ mgr[m].now <= clock
    /\ mgr[m].pc = "provision" => mgr[m].now - item.createdAt > ProvisionTimeout
    /\ mgr[m].pc \notin {"scanned", "provision"} => mgr[m].status # "SANDBOX_PROVISIONING"
    /\ mgr[m].pc = "claimMax" => mgr[m].now - item.createdAt > MaxDuration
    /\ mgr[m].pc \in {"tasks", "claimIdle"} => mgr[m].now - mgr[m].last > IdleTimeout

TaskInv ==
  (\/ \E t \in Task : task[t] # "absent"
   \/ \E w \in TaskCaller : taskCall[w].pc # "idle") => HasStarted

\* No activity is on its way from before the creation.
ActivityInv ==
  \A u \in Touch : touch[u].pc # "idle" => Exists /\ touch[u].at >= item.createdAt

IInv ==
  /\ TypeOK
  /\ RecordInv
  /\ ReplicaInv
  /\ CreationInv
  /\ CallInv
  /\ LifecycleInv
  /\ TaskInv
  /\ ActivityInv

------------------------------------------------------------------------------
(* The cache, the requests and the uploads: the record, and with it IInv,  *)
(* does not depend on them, so their invariant stands on top of it.        *)

\* Ownership travels with what is cached and with what is about to be.
CacheInv ==
  /\ \A p \in Proxy : cache[p] # NoEntry => cache[p].user = Owner
  /\ \A r \in Request : request[r].pc \in {"store", "forward"} => request[r].user = Owner

\* An upload keeps the endpoint it read, and its version only grows old.
UploadInv ==
  /\ \A u \in Upload :
       /\ upload[u].pc = "persist" => upload[u].endpoint \in {None, item.sandboxEndpoint}
       /\ upload[u].pc \in {"sync", "answer"} => 0 < upload[u].version
       /\ upload[u].pc = "answer" => upload[u].answer = "error" \/ HasFetched(u)
       /\ upload[u].synced => upload[u].pc = "replied" /\ upload[u].endpoint \in Container
       /\ upload[u].version <= stored
  /\ \A c \in Container : pulled[c] <= stored

ProxyInv ==
  /\ EndpointIsOnRecord
  /\ replica.sandboxEndpoint \in {None, item.sandboxEndpoint}
  /\ CacheInv
  /\ UploadInv
  /\ SyncedMeansAnswered

------------------------------------------------------------------------------
(* What every step guarantees and every component relies on: time goes on, *)
(* the request's attributes and the creation time stay, and the session    *)
(* neither disappears nor goes back to waiting.                            *)
ItemProgress ==
  /\ clock' >= clock
  /\ item'.env = item.env
  /\ item'.compatible = item.compatible
  /\ Exists => Exists' /\ item'.createdAt = item.createdAt
  /\ PastProvisioning => PastProvisioning'
  /\ HasStarted => HasStarted'
==============================================================================
