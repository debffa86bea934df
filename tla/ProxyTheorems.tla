---------------------------- MODULE ProxyTheorems ----------------------------
(***************************************************************************)
(* What the endpoint cache and the uploads promise, for any number of      *)
(* copies, requests and uploads.  Everything rests on one fact about the   *)
(* record: an endpoint, once registered, is never replaced.                *)
(*                                                                         *)
(* And how long an ended session can still be forwarded to: less than      *)
(* CacheTtl and the lag of a read together.  An entry is dated before the  *)
(* session is read, so it is no younger than the last time that read could *)
(* show the session up, however late it is stored.                         *)
(***************************************************************************)
EXTENDS CacheFreshness, SandboxTheorems

LEMMA EndpointKept ==
  ASSUME IInv, [Next]_vars, item.sandboxEndpoint # None
  PROVE  item'.sandboxEndpoint = item.sandboxEndpoint
<1>1. item \in SessionItem /\ item.status \notin {"absent", "SANDBOX_PROVISIONING"}
  BY DEF IInv, TypeOK, StoreTypeOK, RecordInv, EndpointMatchesStatus
<1>2. CASE item'.status = item.status
  BY <1>2, SameStatus
<1>3. CASE item'.status # item.status
  <2>1. \E status : UpdateStatus(status)
    BY <1>1, <1>3, StatusChange
  <2> QED BY <1>1, <2>1 DEF UpdateStatus, SessionItem
<1> QED BY <1>2, <1>3

\* The uploads' part of EndpointIsOnRecord.
SyncOnRecord ==
  \A u \in Upload : upload[u].pc \in {"sync", "answer"}
                      => upload[u].endpoint # None /\ upload[u].endpoint = item.sandboxEndpoint

\* The requests' part, for what is cached and what is about to be.
CacheOnRecord ==
  /\ \A p \in Proxy : cache[p] # NoEntry
       => cache[p].endpoint # None /\ cache[p].endpoint = item.sandboxEndpoint
  /\ \A r \in Request : request[r].pc \in {"store", "forward"}
       => request[r].endpoint # None /\ request[r].endpoint = item.sandboxEndpoint

LEMMA OnRecordParts == EndpointIsOnRecord <=> CacheOnRecord /\ SyncOnRecord
BY DEF EndpointIsOnRecord, CacheOnRecord, SyncOnRecord

\* What a step changes of the cache, of a request and of the entry it was made from.
LEMMA CacheStep ==
  ASSUME TypeOK, CacheOnRecord, CacheInv, CacheNext,
         replica.sandboxEndpoint \in {None, item.sandboxEndpoint}
  PROVE  CacheOnRecord' /\ CacheInv'
<1> USE DEF CacheOnRecord, CacheInv
<1>1. UNCHANGED item
  BY ItemUntouched
<1>2. /\ cache \in [Proxy -> CacheEntry]
      /\ request \in [Request -> [pc       : {"idle", "lookup", "store", "forward"},
                                  proxy    : Proxy \cup {None},
                                  user     : User \cup {None},
                                  endpoint : Container \cup {None},
                                  at       : Nat]]
  BY DEF TypeOK, CacheTypeOK
<1>3. ASSUME NEW r \in Request, NEW p \in Proxy, NEW user \in User, ResolveFromCache(r, p, user)
      PROVE  CacheOnRecord' /\ CacheInv'
  BY <1>1, <1>2, <1>3 DEF ResolveFromCache, Fresh
<1>4. ASSUME NEW r \in Request, NEW p \in Proxy, NEW user \in User, StartLookup(r, p, user)
      PROVE  CacheOnRecord' /\ CacheInv'
  BY <1>1, <1>2, <1>4 DEF StartLookup
<1>5. ASSUME NEW r \in Request, LookupFinds(r)
      PROVE  CacheOnRecord' /\ CacheInv'
  <2>1. PICK read \in Readable : Forwardable(read) /\ Proceed(r, "store", read.sandboxEndpoint)
    BY <1>5 DEF LookupFinds
  <2>2. read.sandboxEndpoint # None /\ read.sandboxEndpoint = item.sandboxEndpoint
    BY <2>1 DEF Readable, Forwardable
  <2> QED BY <1>1, <1>2, <1>5, <2>1, <2>2 DEF LookupFinds, Proceed
<1>6. ASSUME NEW r \in Request, StoreEntry(r)
      PROVE  CacheOnRecord' /\ CacheInv'
  BY <1>1, <1>2, <1>6 DEF StoreEntry, Proceed
<1>7. ASSUME NEW r \in Request,
             LookupRefused(r) \/ ForwardEnds(r) \/ ForwardFails(r) \/ AbortRequest(r)
      PROVE  CacheOnRecord' /\ CacheInv'
  BY <1>1, <1>2, <1>7
  DEF LookupRefused, ForwardEnds, ForwardFails, AbortRequest, EndRequest, NoRequest, InvalidateCache
<1>8. ASSUME NEW p \in Proxy, EvictEndpoint(p)
      PROVE  CacheOnRecord' /\ CacheInv'
  BY <1>1, <1>2, <1>8 DEF EvictEndpoint, InvalidateCache
<1> QED BY <1>3, <1>4, <1>5, <1>6, <1>7, <1>8 DEF CacheNext

\* Steps of the others, the managers' invalidations among them, add nothing to the cache.
LEMMA CacheRely ==
  ASSUME CacheOnRecord, CacheInv, UNCHANGED request,
         item.sandboxEndpoint # None => item'.sandboxEndpoint = item.sandboxEndpoint,
         \A p \in Proxy : cache'[p] \in {cache[p], NoEntry}
  PROVE  CacheOnRecord' /\ CacheInv'
BY DEF CacheOnRecord, CacheInv

\* Only a manager that stops a container touches the cache from outside.
LEMMA CacheOutside ==
  ASSUME TypeOK, NEW m \in Manager, Check(m) \/ AbortCheck(m)
  PROVE  \A p \in Proxy : cache'[p] \in {cache[p], NoEntry}
<1>1. CASE StopAfterMaxDuration(m) \/ StopAfterIdle(m)
  BY <1>1 DEF StopAfterMaxDuration, StopAfterIdle, StopSandboxContainer, InvalidateCache
<1>2. CASE UNCHANGED cache
  BY <1>2
<1> QED BY <1>1, <1>2 DEF Check, Scan, Evaluate, FailProvisioning, ClaimMaxDuration, CheckTasks,
                          ClaimIdle, AbortCheck

\* The phases of an upload: the version is drawn before the sandbox fetches, and versions grow.
LEMMA UploadStep ==
  ASSUME TypeOK, SyncOnRecord, UploadInv, SyncedMeansAnswered, UploadNext,
         replica.sandboxEndpoint \in {None, item.sandboxEndpoint}
  PROVE  SyncOnRecord' /\ UploadInv' /\ SyncedMeansAnswered'
<1> USE DEF SyncOnRecord, UploadInv, SyncedMeansAnswered, HasFetched
<1>1. UNCHANGED item
  BY ItemUntouched
<1>2. /\ upload \in [Upload -> [pc : UploadPc, endpoint : Container \cup {None}, version : Nat,
                                answer : {None, "result", "error"}, synced : BOOLEAN]]
      /\ \A u \in Upload : upload[u].pc \in {"sync", "answer"} => upload[u].endpoint \in Container
      /\ stored \in Nat /\ pulled \in [Container -> Nat]
  BY DEF TypeOK, UploadTypeOK, UploadRecord
<1> PICK u \in Upload :
      \/ BeginUpload(u) \/ PersistFile(u) \/ PersistFails(u)
      \/ PullFile(u) \/ RefuseSync(u) \/ SyncAnswered(u) \/ SyncFails(u) \/ AbortUpload(u)
  BY DEF UploadNext
<1>3. CASE BeginUpload(u)
  <2>1. \A read \in Readable : read.sandboxEndpoint \in {None, item.sandboxEndpoint}
    BY DEF Readable
  <2>2. PICK endpoint \in {None, item.sandboxEndpoint} :
          upload' = [upload EXCEPT ![u].pc = "persist", ![u].endpoint = endpoint]
    BY <1>3, <2>1 DEF BeginUpload
  <2>3. upload[u].pc = "new" /\ UNCHANGED <<stored, pulled>>
    BY <1>3 DEF BeginUpload
  <2>4. /\ upload'[u].pc = "persist" /\ upload'[u].endpoint = endpoint
        /\ upload'[u].version = upload[u].version /\ upload'[u].synced = upload[u].synced
        /\ \A v \in Upload \ {u} : upload'[v] = upload[v]
    BY <1>2, <2>2
  <2> QED BY <1>1, <1>2, <2>3, <2>4
<1>4. CASE PersistFile(u)
  BY <1>1, <1>2, <1>4 DEF PersistFile
<1>5. CASE PersistFails(u)
  BY <1>1, <1>2, <1>5 DEF PersistFails
<1>6. CASE PullFile(u)
  BY <1>1, <1>2, <1>6 DEF PullFile
<1>7. CASE RefuseSync(u) \/ SyncAnswered(u)
  BY <1>1, <1>2, <1>7 DEF RefuseSync, SyncAnswered
<1>8. CASE SyncFails(u) \/ AbortUpload(u)
  BY <1>1, <1>2, <1>8 DEF SyncFails, AbortUpload
<1> QED BY <1>3, <1>4, <1>5, <1>6, <1>7, <1>8

LEMMA UploadRely ==
  ASSUME SyncOnRecord, UploadInv, SyncedMeansAnswered, UNCHANGED uploadVars,
         item.sandboxEndpoint # None => item'.sandboxEndpoint = item.sandboxEndpoint
  PROVE  SyncOnRecord' /\ UploadInv' /\ SyncedMeansAnswered'
BY DEF SyncOnRecord, UploadInv, SyncedMeansAnswered, HasFetched, uploadVars

(* EndpointIsOnRecord, the ownership of what is cached and the versions of *)
(* the uploads hold together.                                              *)
THEOREM ProxyInvariance == Spec => []ProxyInv
<1>1. Init => ProxyInv
  BY StoreAssumption
  DEF Init, StoreInit, CacheInit, UploadInit, NoRequest, NewUpload, ProxyInv, EndpointIsOnRecord,
      CacheInv, UploadInv, SyncedMeansAnswered
<1>2. ASSUME IInv, ProxyInv, [Next]_vars
      PROVE  ProxyInv'
  <2>1. /\ CacheOnRecord /\ SyncOnRecord /\ CacheInv /\ UploadInv /\ SyncedMeansAnswered
        /\ replica.sandboxEndpoint \in {None, item.sandboxEndpoint}
    BY <1>2, OnRecordParts DEF ProxyInv
  <2>2. TypeOK /\ (item.sandboxEndpoint # None => item'.sandboxEndpoint = item.sandboxEndpoint)
    BY <1>2, EndpointKept DEF IInv
  <2>3. CacheOnRecord' /\ CacheInv'
    <3>1. CASE CacheNext
      BY <2>1, <2>2, <3>1, CacheStep
    <3>2. CASE ~CacheNext
      <4>1. UNCHANGED request /\ \A p \in Proxy : cache'[p] \in {cache[p], NoEntry}
        BY <1>2, <2>2, <3>2, CacheOutside
        DEF Next, LifecycleNext, outsideService, outsideLifecycle, outsideTasks, outsideActivity,
            outsideUpload, outsideStore, ReplicaStep, ClockStep, cacheVars, vars
      <4> QED BY <2>1, <2>2, <4>1, CacheRely
    <3> QED BY <3>1, <3>2
  <2>4. SyncOnRecord' /\ UploadInv' /\ SyncedMeansAnswered'
    <3>1. CASE UploadNext
      BY <2>1, <2>2, <3>1, UploadStep
    <3>2. CASE ~UploadNext
      <4>1. UNCHANGED uploadVars
        BY <1>2, <3>2
        DEF Next, outsideService, outsideLifecycle, outsideTasks, outsideActivity, outsideCache,
            outsideStore, ReplicaStep, ClockStep, uploadVars, vars
      <4> QED BY <2>1, <2>2, <4>1, UploadRely
    <3> QED BY <3>1, <3>2
  <2>5. EndpointIsOnRecord'
    <3>1. CacheOnRecord' /\ SyncOnRecord' => EndpointIsOnRecord'
      BY DEF EndpointIsOnRecord, CacheOnRecord, SyncOnRecord
    <3> QED BY <2>3, <2>4, <3>1
  <2>6. replica'.sandboxEndpoint \in {None, item'.sandboxEndpoint}
    <3>1. replica' = replica \/ (replica' = item /\ item' = item)
      BY <1>2, ReplicaMoves
    <3>2. CASE replica' = replica
      BY <2>1, <2>2, <3>2
    <3>3. CASE replica' = item /\ item' = item
      BY <3>3
    <3> QED BY <3>1, <3>2, <3>3
  <2> QED BY <2>3, <2>4, <2>5, <2>6 DEF ProxyInv
<1> QED BY <1>1, <1>2, Invariance, PTL DEF Spec

\* However stale a cached or read endpoint is, it is the session's own, not another sandbox's.
THEOREM EndpointRecordTheorem == Spec => []EndpointIsOnRecord
<1>1. ProxyInv => EndpointIsOnRecord
  BY DEF ProxyInv
<1> QED BY <1>1, ProxyInvariance, PTL

\* Nobody but the user of the session gets past resolve_sandbox, cached or not.
THEOREM OwnerTheorem == Spec => []OnlyOwnerIsForwarded
<1>1. ProxyInv => OnlyOwnerIsForwarded
  BY DEF ProxyInv, CacheInv, OnlyOwnerIsForwarded
<1> QED BY <1>1, ProxyInvariance, PTL

\* "synced" is said of a stored file whose sandbox was asked for it and answered: it has that
\* version or a later one, or answered with an RPC error.
THEOREM SyncedTheorem == Spec => []SyncedMeansAnswered
<1>1. ProxyInv => SyncedMeansAnswered
  BY DEF ProxyInv
<1> QED BY <1>1, ProxyInvariance, PTL

------------------------------------------------------------------------------
\* The history variable observes the system and does not change what it does.
LEMMA HistoryIsSpec == HistorySpec => Spec
<1>1. HistoryInit => Init
  BY DEF HistoryInit
<1>2. [HistoryNext /\ ReadsAreTimely']_<<vars, forwardableAt>> => [Next]_vars
  BY DEF HistoryNext
<1> QED BY <1>1, <1>2, PTL DEF HistorySpec, Spec

\* What the history variable says after any step.
LEMMA HistoryStep ==
  ASSUME TypeOK, TypeOK', FreshInv, [HistoryNext /\ ReadsAreTimely']_<<vars, forwardableAt>>
  PROVE  /\ clock \in Nat /\ clock' \in Nat /\ clock <= clock'
         /\ forwardableAt' \in Nat \cup {None}
         /\ forwardableAt' # None => forwardableAt' <= clock'
         /\ Forwardable(item)' => forwardableAt' = clock'
         /\ ReadsAreTimely'
         /\ forwardableAt # None => forwardableAt' # None /\ forwardableAt <= forwardableAt'
<1>1. clock \in Nat /\ clock' \in Nat
  BY DEF TypeOK, StoreTypeOK
<1>2. clock <= clock'
  <2>1. clock' = clock \/ ClockStep
    BY ItemUntouched
    DEF HistoryNext, Next, ServiceNext, Creation, BeginCreation, PersistSession, CheckLimit,
        LaunchSandbox, LaunchReplyLost, LaunchFails, StoreTaskArn, FailSession, FailSessionError,
        AbortCreation, Registration, Resumption, Cancellation, RegisterRead, RegisterWrite, ResumeRead,
        ResumeExpired, ResumeAccepted, ResumeRefused, ResumeExpire, ResumeRun, ResumeExtend, CancelRead,
        CancelWrite, AbortCall, LifecycleNext, Check, Scan, Evaluate, FailProvisioning,
        ClaimMaxDuration, StopAfterMaxDuration, CheckTasks, ClaimIdle, StopAfterIdle, AbortCheck,
        TaskNext, CreateTaskRead, CreateTaskWrite, CompleteTaskRead, CompleteTaskWrite, AbortTaskCall,
        ActivityNext, BeginTouch, WriteActivity, RecordWrite, TouchFails, EvictEntry, ReplicaStep,
        Replicate, storeVars, vars
  <2> QED BY <1>1, <2>1 DEF ClockStep, Tick
<1>3. CASE HistoryNext /\ ReadsAreTimely'
  BY <1>1, <1>2, <1>3, StoreAssumption DEF HistoryNext, FreshInv
<1>4. CASE UNCHANGED <<vars, forwardableAt>>
  <2>1. UNCHANGED <<item, replica, clock, forwardableAt>>
    BY <1>4 DEF vars, storeVars
  <2> QED BY <1>1, <2>1 DEF FreshInv, ReadsAreTimely, Since, Forwardable
<1> QED BY <1>3, <1>4

\* Whoever does nothing to the cache but drop entries ages it, and time is on its side.
LEMMA FreshRely ==
  ASSUME TypeOK, TypeOK', FreshInv, [HistoryNext /\ ReadsAreTimely']_<<vars, forwardableAt>>,
         UNCHANGED request, \A p \in Proxy : cache'[p] \in {cache[p], NoEntry}
  PROVE  FreshInv'
<1>1. /\ \A p \in Proxy : cache[p].at \in Nat
      /\ \A r \in Request : request[r].at \in Nat
      /\ CacheTtl \in Nat /\ MaxReadLag \in Nat
  BY CacheAssumption, LagAssumption DEF TypeOK, CacheTypeOK, CacheEntry
<1> QED BY <1>1, HistoryStep DEF FreshInv, EndedSessionsFade, Since

\* Since, after the step.
SinceNext(at) == forwardableAt' # None /\ at <= forwardableAt' + MaxReadLag

\* A step of one request keeps the invariant when what it leaves behind is fresh.
LEMMA FreshRequest ==
  ASSUME TypeOK, TypeOK', FreshInv, HistoryNext, ReadsAreTimely', UNCHANGED clock,
         NEW r \in Request, \A s \in Request \ {r} : request'[s] = request[s],
         request'[r].at <= clock,
         request'[r].pc = "store" => SinceNext(request'[r].at),
         request'[r].pc = "forward"
           => forwardableAt' # None /\ request'[r].at - forwardableAt' < CacheTtl + MaxReadLag,
         \A p \in Proxy : cache'[p] \in {cache[p], NoEntry} \/ SinceNext(cache'[p].at)
  PROVE  FreshInv'
<1>1. /\ \A p \in Proxy : cache[p].at \in Nat
      /\ \A s \in Request : request[s].at \in Nat
      /\ CacheTtl \in Nat /\ MaxReadLag \in Nat
  BY CacheAssumption, LagAssumption DEF TypeOK, CacheTypeOK, CacheEntry
<1>2. \A p \in Proxy : cache'[p] # NoEntry => SinceNext(cache'[p].at)
  BY <1>1, HistoryStep DEF FreshInv, Since, SinceNext
<1>3. ASSUME NEW s \in Request \ {r}
      PROVE  /\ request'[s].at <= clock
             /\ request'[s].pc = "store" => SinceNext(request'[s].at)
             /\ request'[s].pc = "forward"
                  => forwardableAt' # None /\ request'[s].at - forwardableAt' < CacheTtl + MaxReadLag
  BY <1>1, HistoryStep DEF FreshInv, EndedSessionsFade, Since, SinceNext
<1> QED BY <1>2, <1>3, HistoryStep DEF FreshInv, EndedSessionsFade, Since, SinceNext

LEMMA LaterIsNearer ==
  \A now, limit, lag, a, b, c \in Nat :
    a <= b + lag /\ b <= c /\ now - a < limit => now - c < limit + lag
OBVIOUS

LEMMA NotLaterIsNear ==
  \A a, b, lag \in Nat, limit \in Nat \ {0} : a <= b + lag => a - b < limit + lag
OBVIOUS

LEMMA FreshCacheStep ==
  ASSUME TypeOK, TypeOK', FreshInv, HistoryNext, ReadsAreTimely', CacheNext
  PROVE  FreshInv'
<1> DEFINE RequestState == [pc       : {"idle", "lookup", "store", "forward"},
                            proxy    : Proxy \cup {None},
                            user     : User \cup {None},
                            endpoint : Container \cup {None},
                            at       : Nat]
<1>0. /\ cache \in [Proxy -> CacheEntry] /\ request \in [Request -> RequestState]
      /\ \A p \in Proxy : cache[p].at \in Nat
      /\ \A s \in Request : request[s].at \in Nat /\ request[s].at <= clock
      /\ CacheTtl \in Nat \ {0} /\ MaxReadLag \in Nat
  BY CacheAssumption, LagAssumption DEF TypeOK, CacheTypeOK, CacheEntry, FreshInv
<1>1. /\ clock \in Nat /\ clock' = clock
      /\ forwardableAt' \in Nat \cup {None}
      /\ forwardableAt \in Nat \cup {None}
      /\ forwardableAt # None => forwardableAt' # None /\ forwardableAt <= forwardableAt'
  BY HistoryStep, ItemUntouched DEF FreshInv
<1>3. ASSUME NEW r \in Request, NEW p \in Proxy, NEW user \in User, ResolveFromCache(r, p, user)
      PROVE  FreshInv'
  <2>1. /\ request'[r].pc = "forward" /\ request'[r].at = clock /\ UNCHANGED cache
        /\ \A s \in Request \ {r} : request'[s] = request[s]
    BY <1>0, <1>3 DEF ResolveFromCache
  <2>2. clock - cache[p].at < CacheTtl /\ Since(cache[p].at)
    BY <1>3 DEF ResolveFromCache, Fresh, FreshInv
  <2>3. forwardableAt' # None /\ clock - forwardableAt' < CacheTtl + MaxReadLag
    <3>1. /\ cache[p].at \in Nat /\ forwardableAt \in Nat /\ forwardableAt' \in Nat
          /\ cache[p].at <= forwardableAt + MaxReadLag
          /\ forwardableAt <= forwardableAt' /\ forwardableAt' # None
      BY <1>0, <1>1, <2>2 DEF Since
    <3>2. /\ clock \in Nat /\ CacheTtl \in Nat /\ MaxReadLag \in Nat
          /\ clock - cache[p].at < CacheTtl
      BY <1>0, <1>1, <2>2
    <3> QED BY <3>1, <3>2, LaterIsNearer
  <2> QED BY <1>1, <2>1, <2>3, FreshRequest
<1>4. ASSUME NEW r \in Request, NEW p \in Proxy, NEW user \in User, StartLookup(r, p, user)
      PROVE  FreshInv'
  <2>1. /\ request'[r].pc = "lookup" /\ request'[r].at = clock /\ UNCHANGED cache
        /\ \A s \in Request \ {r} : request'[s] = request[s]
    BY <1>0, <1>4 DEF StartLookup
  <2> QED BY <1>1, <2>1, FreshRequest
<1>5. ASSUME NEW r \in Request, LookupFinds(r)
      PROVE  FreshInv'
  <2>1. /\ request'[r].pc = "store" /\ request'[r].at = request[r].at /\ UNCHANGED cache
        /\ \A s \in Request \ {r} : request'[s] = request[s]
    BY <1>0, <1>5 DEF LookupFinds, Proceed
  <2>2. Since(clock)
    <3>1. Forwardable(item) => forwardableAt = clock
      BY DEF FreshInv
    <3>2. Forwardable(replica) => Since(clock)
      BY DEF FreshInv, ReadsAreTimely
    <3>3. Forwardable(item) \/ Forwardable(replica)
      BY <1>5 DEF LookupFinds, Readable
    <3> QED BY <1>0, <1>1, <3>1, <3>2, <3>3, StoreAssumption DEF Since
  <2>3. SinceNext(request'[r].at)
    BY <1>0, <1>1, <2>1, <2>2, StoreAssumption DEF Since, SinceNext
  <2> QED BY <1>0, <1>1, <2>1, <2>3, FreshRequest
<1>6. ASSUME NEW r \in Request, StoreEntry(r)
      PROVE  FreshInv'
  <2>1. /\ request'[r].pc = "forward" /\ request'[r].at = request[r].at
        /\ \A s \in Request \ {r} : request'[s] = request[s]
    BY <1>0, <1>6 DEF StoreEntry, Proceed
  <2>2. Since(request[r].at)
    BY <1>6 DEF StoreEntry, FreshInv
  <2>3. forwardableAt' # None /\ request[r].at <= forwardableAt' + MaxReadLag
    BY <1>0, <1>1, <2>2 DEF Since, SinceNext
  <2>4. \A p \in Proxy : cache'[p] = cache[p] \/ cache'[p].at = request[r].at
    BY <1>0, <1>6 DEF StoreEntry
  <2>5. \A p \in Proxy : cache'[p] \in {cache[p], NoEntry} \/ SinceNext(cache'[p].at)
    BY <2>3, <2>4 DEF Since, SinceNext
  <2>6. request'[r].at - forwardableAt' < CacheTtl + MaxReadLag
    <3>1. /\ request[r].at \in Nat /\ forwardableAt' \in Nat /\ MaxReadLag \in Nat
          /\ CacheTtl \in Nat \ {0}
      BY <1>0, <1>1, <2>3
    <3>2. request[r].at - forwardableAt' < CacheTtl + MaxReadLag
      BY <2>3, <3>1, NotLaterIsNear
    <3> QED BY <2>1, <3>2
  <2> QED BY <1>0, <1>1, <2>1, <2>3, <2>5, <2>6, FreshRequest
<1>7. ASSUME NEW r \in Request,
             LookupRefused(r) \/ ForwardEnds(r) \/ ForwardFails(r) \/ AbortRequest(r)
      PROVE  FreshInv'
  <2>1. /\ request'[r].pc = "idle" /\ request'[r].at = 0
        /\ \A s \in Request \ {r} : request'[s] = request[s]
    BY <1>0, <1>7
    DEF LookupRefused, ForwardEnds, ForwardFails, AbortRequest, EndRequest, NoRequest
  <2>2. \A p \in Proxy : cache'[p] \in {cache[p], NoEntry}
    BY <1>7 DEF LookupRefused, ForwardEnds, ForwardFails, AbortRequest, InvalidateCache
  <2> QED BY <1>1, <2>1, <2>2, FreshRequest
<1>8. ASSUME NEW p \in Proxy, EvictEndpoint(p)
      PROVE  FreshInv'
  BY <1>8, FreshRely DEF EvictEndpoint, InvalidateCache
<1> QED BY <1>3, <1>4, <1>5, <1>6, <1>7, <1>8 DEF CacheNext

(* The history of the session bounds the age of everything that is cached  *)
(* or about to be.                                                         *)
THEOREM FreshInvariance == HistorySpec => []FreshInv
<1>1. HistoryInit => FreshInv
  BY StoreAssumption
  DEF HistoryInit, Init, StoreInit, CacheInit, NoRequest, FreshInv, EndedSessionsFade, ReadsAreTimely,
      Forwardable, SANDBOX_ACTIVE_STATUSES
<1>2. ASSUME TypeOK, TypeOK', FreshInv, [HistoryNext /\ ReadsAreTimely']_<<vars, forwardableAt>>
      PROVE  FreshInv'
  <2>1. CASE HistoryNext /\ ReadsAreTimely' /\ CacheNext
    BY <1>2, <2>1, FreshCacheStep
  <2>2. CASE ~(HistoryNext /\ ReadsAreTimely' /\ CacheNext)
    <3>1. UNCHANGED request /\ \A p \in Proxy : cache'[p] \in {cache[p], NoEntry}
      BY <1>2, <2>2, CacheOutside
      DEF HistoryNext, Next, LifecycleNext, outsideService, outsideLifecycle, outsideTasks,
          outsideActivity, outsideUpload, outsideStore, ReplicaStep, ClockStep, cacheVars, vars
    <3> QED BY <1>2, <3>1, FreshRely
  <2> QED BY <2>1, <2>2
<1> QED BY <1>1, <1>2, HistoryIsSpec, TypeCorrect, PTL DEF HistorySpec

\* No copy forwards a request CacheTtl and the lag of a read, or more, after the session was last up.
THEOREM FadeTheorem == HistorySpec => []EndedSessionsFade
<1>1. FreshInv => EndedSessionsFade
  BY DEF FreshInv
<1> QED BY <1>1, FreshInvariance, PTL
==============================================================================
