# A verification of the session service

TLA+ modules, TLC configurations and TLAPS proofs for `cowork-session-service`, the
service that creates, resumes and cancels sessions, launches and registers the
sandbox containers of cloud sessions, proxies requests to them and ends them when
they are idle or too old. Paths below are relative to `src/session_service/` of the
repository.

The service is one asyncio process per copy, and several copies run at once. They share
two DynamoDB tables and nothing else; each has its own endpoint cache and activity batch.
What is hard about it is therefore not any single handler but what happens *between* the
awaits of one: every handler reads an item, decides, calls other services, and writes, and
most of the writes are
unconditional. The project models every such point as a point of interleaving.

## Inventory

| Component | State | Operations | Hard because |
|---|---|---|---|
| States (`models/domain.py`) | none | transition table, terminal and active sets | the table is consulted by two handlers and ignored by the others |
| Repositories (`repositories/dynamo*.py`) | sessions table, tasks table | `create`, `update_status`, `update_expiry`, `register_sandbox`, `conditional_update_status`, `store_expected_task_arn`, `update_last_activity`, scans and counts; task `create`, `update_completion` | two writes are conditional, the others are not; no read is a consistent one; TTL deletes items |
| Session service (`services/session_service.py`) | none of its own | `create_session`, `register_sandbox`, `resume_session`, `cancel_session`, `get_session`, `update_session_name` | read, await, write; resumption writes twice |
| Provisioning (`services/sandbox_service.py`) | none of its own | `provision_sandbox`, `_fail_session`, `stop_sandbox_container` | the container may be up before its ARN is stored; retries; partial failure |
| Launchers (`clients/*_launcher.py`) | containers, outside | `launch` (three attempts on ECS), `stop` | a lost reply starts a second container |
| Lifecycle manager (`services/sandbox_lifecycle.py`) | a snapshot and a clock reading per check | provisioning timeout, maximum duration, idle timeout, claim, stop | several managers; works on stale snapshots; must act in spite of failures |
| Tasks (`services/task_service.py`) | none of its own | `create_task`, `complete_task` | the session or the task may change between read and write |
| Activity (`services/proxy_service.py`) | last write per session and copy | `update_activity`, fire-and-forget | delayed writes, batching without a lock, eviction |
| Endpoint cache and forwarding (`services/proxy_service.py`, `routes/proxy.py`) | LRU cache with a TTL | `resolve_sandbox`, `invalidate_cache`, `_forward_request` | staleness; invalidation against a pending lookup; a cache per copy |
| Concurrent limit (`sandbox_service.py:45`) | a count from an index | `count_active_sandboxes` | counts after persisting; the index lags; one page is read |
| File upload (`services/file_upload_service.py`) | none of its own | persist, then sync | session changes between the phases; other uploads in between |
| Routes, clients, configuration, `main.py` | none | I/O and wiring | - |

What makes each of them correct:

- the record: endpoint and status agree; a refused client's session never runs; expiry
  is never cut short; nothing is undone behind the back of a terminal status, except by
  writes that were decided on an older status;
- provisioning: a sandbox gets its whole time, and not for ever; once the service knows its
  container, and every read shows it, no other one registers;
- lifecycle: nothing is terminated young or twice at a time; everything ends at last;
- tasks: none in a session that has never been up;
- activity: an update that is skipped is on the record already;
- proxy: requests go to the endpoint on record, for the session's user only, and no longer
  than the cache's TTL, and the lag of a read, after the session has ended;
- uploads: a reply that says "synced" is due to an answer of the sandbox, which has the file
  unless the answer was an RPC error;
- limit: the active sandboxes of a user stay within it, nothing below it is refused, and a
  refused creation gives its place back.

## Modules

    SessionStates      statuses and transition table
      SessionStore     the item, the tasks, time; one operator per repository method
        SandboxLauncher    containers; the faults of a run
          SessionService     create (with provisioning), register, resume, cancel
          EndpointCache      proxied requests and the cache of each copy
            SandboxLifecycle   the managers, each beside the cache of its copy
          TaskService        create and complete a task
          ActivityTracker    update_activity
          FileUpload         persist and sync
            SandboxSystem      all of them together; properties; fairness
              SandboxInvariants  the inductive invariant
                TimelyActivity     with a bound on the delay of activity updates
                CacheFreshness     with a history variable: when the session was last up
                SandboxLife        with a history variable: how far its creation came
                MCSandboxSystem, MCActivity, MCProxy, MCLife   instances for TLC
                SandboxProofs      the invariant is inductive
                  SandboxTheorems, LaunchTheorems             what follows from it
                  ProxyTheorems, ActivityProofs, LifeProofs
                                     about the cache, the uploads and the extensions
      SandboxQuota     several sessions of one user against the limit
        QuotaProofs
    SessionContract    abstract specification, implemented by SandboxSystem
    SessionLife        abstract specification, implemented by SandboxSystem (SandboxLife)
                       and by each session of SandboxQuota

**One session.** Every handler touches the item of one session, so the model has one
session: `item` is its row (`status = "absent"` before `put_item`), `task` the statuses
of its tasks. The one handler that looks at other sessions, the limit check, is a free
choice there, and the subject of `SandboxQuota`. The attributes kept are those some handler decides on: status, environment,
creation and expiry time, endpoint, expected ARN, last activity; the versions and
capabilities of a client are reduced to `compatible`, the verdict of
`check_compatibility` (`CheckCompatibility`, on versions told apart by how they compare with
the minimum), which create and resume both compute from the stored fields.

**Steps.** An operation of the table is atomic and is one action, together with the local
computation up to the next await. A handler that reads and then writes has a `pc`
(`creation.pc`, `call[h].pc`, `mgr[m].pc`, `taskCall[w].pc`, `touch[u].pc`) naming the
write it is about to make, beside what it still remembers of its read. Calls to the policy
and workspace services do not change state here; they are the time that passes between
two actions, and their failure is an abort. A handler whose guard fails answers with an
error and changes nothing, so it is no step.

**Reads.** The table applies writes, and the conditions of the two conditional ones, to the newest
item. Its reads are the default ones, which may return an older item (`repositories/dynamo.py:26`,
`dynamo_task.py:26`, the scan and the queries), also to an operation that begins after the write.
`replica` is such an older version: every handler takes *some* member of `Readable`, the item or the
replica, and the replica catches up by `ReplicaStep` at any time or not at all. One lagging copy stands
for DynamoDB's replicas: that at one moment two reads return two different items, neither of them the
current one, is left out. The proofs use of the copy only what is true of it by itself. A task that has
finished may be read as running (`ShowsRunning`), and the look at the tasks may miss any that runs
(`RunningTasksListed`: one page of an index that lags). `StaleReads` says whether a run has
all this. The runs managers, liveness and proxy do; requests, activity and uploads
read the current item, which keeps their state spaces within reach. The theorems cover both cases.
What ends with a session's last write is therefore not over before the copies have caught up:
`TerminalIsFinalWhenQuiet` and `StrangersStayOut` speak of what *every* read shows, and
`EndedSessionsFade` of a table whose reads are at most `MaxReadLag` behind (`CacheFreshness`;
DynamoDB gives no bound, so the result says how the answer depends on it).

**Failures** are members of `Faults`, so that a run says which it has: a launch that
fails, a launch whose reply is lost, a stop that fails, a store update that fails, and a
handler or check cut short at any await (`crash`: an exception there, a client that
disconnects, a restart), a sandbox that is up and does not answer, and a workspace service
that fails before or after storing a file. `StopSandboxContainer` and `_fail_session` swallow
errors as the code does. A launch is retried `MaxAttempts` times: 3 on ECS, 1 locally.

**Managers.** A check is scan, one reading of the clock, and then for each session the
tests in the code's order: a session that waits for its sandbox is tested for the
provisioning timeout only; any other for the maximum duration and then, *whatever came of
that*, for idleness on the same snapshot. The claim is conditional on the status of the
snapshot; the stop uses the snapshot's ARN.

**Activity.** Besides proxied requests, uploads refresh the activity time, and an upload
needs only a session that has not ended: no sandbox, not even a cloud session. `Addressable`
says when a caller may hold the session's id. `Uptime` is the lead of the monotonic clock.

**Cache.** `cache[p]` is the entry of copy `p` for the session. `resolve_sandbox` has one
await, so a lookup is three actions: the clock reading (`StartLookup`), the table's answer,
possibly an old one (`LookupFinds`), and the insertion (`StoreEntry`), which uses the clock reading of the first and
looks at nothing again. A hit is one action. An entry goes by age, by a connect error of any request of
that copy, by the manager of that copy after it has stopped a container, and by the other
10 000 sessions of the LRU list (`EvictEndpoint`, at any time: their traffic is not part of
the model). Managers and copies are named by the same values, so that a manager
invalidates the one cache it can reach. `request[r].at` is when the request came in.

**Uploads** are of one path, since uploads of different paths do not touch. The workspace
service numbers what it stores; a container that syncs fetches what the workspace holds at that
moment, which is one action: a sandbox is taken to fetch a file in one go. A sync whose
answer is late fails after the file has been fetched. A sandbox may also answer with an RPC error
(`RefuseSync`), which arrives with a good HTTP status, the one thing `_sync_to_sandbox` looks at.

**Limit.** `SandboxQuota` has several sessions, and of each only its status, its status in
`tenantId-userId-index`, and where its creation is. `createdAt` is the index's sort key, so
sessions are numbered by it and `FirstPage` is the oldest records; the rest of the tenant
shrinks `PageSize`. A write reaches the index at once or later, and no more than `MaxBehind`
records lag at a time: DynamoDB gives no bound, so the results say how the limit depends on
it.

**Life.** What happens to each session of `SandboxQuota` is described by `SessionLife`: any late
write, at any time, of the statuses a handler or manager can write. Two refinements show
that this is right. `SandboxLife` is the whole system with a history variable `phase`
(whether a creation that raised had been let through does not show in its state); its property
`ImplementsLife` is that status and phase change as in `SessionLife` (a desktop session takes
no place, and is mapped to a life that never begins). The interesting part is
`OnlyLetThroughIsKnown`: the id of a session leaves the service with its container or its reply, so
nobody can register, resume or cancel a refused one. On the other side each session of `SandboxQuota`
lives such a life (`EachSessionLives`), and whatever sessions with such lives do together is a
behaviour of `SandboxQuota` (`CompositionTheorem`), so nothing is lost by counting lives instead of
systems.

**Contract.** `SessionContract` says which status changes can happen at all, under any
interleaving, and what comes with them: the endpoint is written once, together with
`SANDBOX_READY`; only a compatible client's session runs; only a sandbox that is up is
terminated. It is weaker than `VALID_TRANSITIONS`, because the code is.

## Runs

| Run | Asks | Bounds | Distinct states |
|---|---|---|---|
| requests | record invariants, contract, grace, provisioning time, finality; the session lives the life of `SessionLife`, and nobody knows it before it is let through | 2 requests, 1 manager, 2 containers, 2 attempts, every fault of the handlers, both environments, clock 0..3 | 760 000 |
| managers | one stop at a time; tasks only after start | old reads, 2 managers, a registration, a task, an activity update, no resumption, clock 0..1 | 1 400 000 |
| activity | types and the inductive invariant with late activity and a manager; what a skipped update leaves on record | 2 copies, 2 updates in flight, writes at most 1 late, window 2, a manager, clock 0..3 | 700 000 |
| liveness | waiting and active sessions end; finality and the inductive invariant on old reads | fairness, old reads, checks that fail any number of times, registration and resumption, clock 0..2 | 120 000 |
| proxy | what is cached and forwarded to, for whom, and for how long; who registers | old reads at most 1 late, 2 copies one of which has the manager, a request of either of 2 users, 2 containers, lost replies, TTL 1, clock 0..2 | 880 000 |
| uploads | what is synced, and what a reply that says so means | 2 uploads and a request, 2 containers that both register, lost replies, failing and refusing sandboxes and a failing workspace service, clock 0..1 | 1 500 000 |
| quota | the limit is kept, refusals are due, places come back for good, each session lives as `SessionLife` says | 3 sessions, limit 1, 1 record behind, resumption, cancellation, fairness | 230 000 |
| terminal_left | `TerminalIsFinal`, refuted | 2 requests | - |
| no_endpoint | `ActiveHasEndpoint`, refuted | 1 request, 1 manager | - |
| double_termination | `NoDoubleTermination`, refuted with resumption | 2 managers, 1 request | - |
| beyond_page | `AdmittedWithinLimit`, refuted when one page does not show all records | 2 sessions, limit 1, page of 1 | - |
| busy_terminated | `BusyIsNeverIdle`, refuted with a task call in between | 1 manager, 1 task call | - |

The bounds are small because the hazards are: each needs one writer with a stale read
and one that overtakes it, two managers, two containers, two uploads, or two caches one of which is told
of the end. Three sessions are one more than a limit of 1 and a lag of 1 let in. The limits of a run are
chosen so that the clock passes those the run is about
(`ProvisionTimeout` 0, `IdleTimeout` 0 or 1, `MaxDuration` 0 to 2, `ExpiryPeriod` 1 to 3,
`MaxTime` 1 to 3); in the proxy and uploads runs sandboxes end by the
maximum duration alone. In the proxy run the clock reaches the first time at which a lookup of an old copy
has aged out of a cache: an entry stored at most `MaxReadLag` after the end is gone `CacheTtl` later.
Each run has the components that touch the same state, and the theorems have them all, without
bounds. The sets of identities are symmetric in the safety runs, but for the copies of the proxy run, of
which only one has a manager (`MCProxy`); the liveness run uses no symmetry. Deadlock is not
checked: the clock of a run is bounded, and a service that has answered all its requests has nothing to do.

**Fairness** (`Fairness` of `SandboxSystem`, used by the liveness run only). Time passes, and
the copies of the table catch up (`ReplicaStep`, which is what eventual consistency promises). A
manager's check is weakly fair: `_run_loop` catches every exception and goes round again, for as long as
the process lives. A check may be cut short by a failing call, at any await and any number
of times; the evaluation, the provisioning claim and the maximum-duration claim are
strongly fair, which says that a call which is tried for ever does not fail for ever.
Nothing is assumed of clients, containers, requests in flight, or of the idle check, whose
outcome other actors can influence for ever.
The quota run has a `Fairness` of its own: the managers fail what
waits (the outcome of the first, taken as one step), and the index catches up.
`ProvisioningEnds` and `ActiveEnds` speak of sessions that reach the limit before the
clock of the run stops (`ReachesAge`).

## What the code's own statements come to

Five statements of the sources do not hold, and each has a run with the counterexample:

- *Terminal states are final* (`models/domain.py:76`). `update_status` is unconditional, so
  a resumption, a cancellation or a launch failure that was decided before the session
  ended, or on a read that did not show the end yet, overwrites its terminal status. What does
  hold, and is proved: once those writes are through and every read shows a terminal status, it is
  final (`TerminalIsFinalWhenQuiet`).
- *An active session without an endpoint should not happen* (`tests/test_proxy.py:126`).
  The table lets `SESSION_FAILED` resume, also for a sandbox that failed to provision.
- *Conditional updates prevent double termination* (`sandbox_lifecycle.py:40`). They do
  as long as nothing revives the session, which is proved. In the run a manager claims a
  session it scanned as `SANDBOX_READY`; a resumption that was already under way writes
  `SESSION_RUNNING`; a second manager scans that and claims it from there, while the first is still
  stopping the container.
- *Max active sandboxes per user* (`README.md:66` of the repository). `count_active_sandboxes` reads
  one page of the whole tenant's sessions, oldest first: records that are not on it are not counted.
  What does hold, and is proved: the limit, give or take the lag of the index, when they all are.
- *A busy sandbox is never idle* (`sandbox_lifecycle.py:141`). A task created between the look at the
  tasks and the claim is terminated with its session. A task the index does not list yet, or beyond its
  first page, is overlooked even without that.

Observations that have no run of their own, most of them met as counterexamples of a property in
an earlier, stronger form:

- *the Nth session is correctly allowed* (`sandbox_service.py:50`), but creations that race each other
  count each other's records, and all of them may be refused below the limit; what does hold, and is
  proved: a refusal is due to that many other *records* (`RefusedOnlyAtLimit`);
- *the task ARN is validated* (`session_service.py:206`) only once it is stored: when RunTask
  starts a task and its reply is lost, two containers hold the token, and the one that registers
  need not be the one on record. What does hold, and is proved: when every read shows the ARN, and no
  stranger has registered or passed the check, none ever does (`StrangersStayOut`);
- *returns False on failure* (`file_upload_service.py:169`): of the sandbox's reply only the HTTP status
  is looked at, so an RPC error in the body of a good reply is reported as synced, and the
  reply to the client says so (`SyncedMeansAnswered` excepts it);
- two completions of one task that both read `running`, or of which the second reads an old copy, both
  write, although `tests/test_task_service.py:98` expects a second one to be refused;
- resuming an expired session writes `SESSION_FAILED` from any status the table lets resume
  (`session_service.py:247`), `SESSION_COMPLETED` included, from which the table does not allow it
  (`models/domain.py:62`); the case cannot occur, since nothing writes `SESSION_COMPLETED`;
- a resumption does not count: a user at the limit can bring failed sessions back (the
  sessions `revived` in `AdmittedWithinLimit`);
- an upload that begins while the sandbox is provisioning is not synced, even if the sandbox is
  ready by the time the file is stored: the reply says so, and the sandbox has to fetch it itself;
- a stream of events does not refresh the activity time, so a session whose client only listens
  is idle;
- within the TTL an endpoint's address may be given to another session's sandbox (a port of the
  local launcher above all), and the cache would forward to it; addresses are never reused here;
- the local launcher takes a process off its table before it has ended, so a second `stop`
  meanwhile reports success at once;
- the in-memory repositories hand out the stored objects themselves and lack the condition of
  `register_sandbox`, so tests with them cannot show most of the interleavings above.

Further: on a host that has been up for less than a batch window
the first activity updates are skipped, since a missing entry counts as a write at
monotonic time 0 (`proxy_service.py:85`; the activity run takes `Uptime` no less than
`BatchWindow`, and `ActivityOnRecord` is false below that); "at most once per batch
window" (`proxy_service.py:83`) fails for two updates in flight together; a container is
not stopped when its session is cancelled or times out in provisioning, nor when the
launch's ARN could not be stored; a sandbox session whose client fails the compatibility
check can be created but never resumed, since only create skips the check; the WAITING,
PAUSED and COMPLETED statuses are written by nothing in this service (`StatusIsWritten`).

## Proofs

`SandboxProofs` shows that `IInv` is inductive; the other modules draw the rest from it.
All hold for any sets of handlers, managers, containers, tasks, callers, requests, users,
uploads and copies, any limits, current or old reads, and any faults unless the table says otherwise, from these
assumptions only: `StoreAssumption` (`None` is no container and no time; environments are the
two that exist; the periods are numbers), `LauncherAssumption`, `ServiceAssumption`,
`LifecycleAssumption`, `TaskAssumption`, `ActivityAssumption`, `CacheAssumption`,
`DelayAssumption`, `LagAssumption` and `QuotaAssumption`, all named beside the constants they are about.

| Theorem | Establishes | Assuming |
|---|---|---|
| `TypeCorrect`, `Invariance` | `TypeOK`, `IInv` | |
| `EndpointTheorem`, `GateTheorem`, `ExpiryTheorem`, `TaskTheorem` | the record invariants | |
| `GraceTheorem`, `ProvisioningTheorem`, `TerminalTheorem` | the action properties | |
| `ContractTheorem` | `SandboxSystem` implements `SessionContract` | |
| `EndpointRecordTheorem`, `OwnerTheorem`, `SyncedTheorem` | what is forwarded to and synced | |
| `FreshInvariance`, `FadeTheorem` | how long an ended session is forwarded to | reads at most `MaxReadLag` behind |
| `SingleTermination` | `NoDoubleTermination` | no resumption |
| `StrangersTheorem` | `StrangersStayOut` | |
| `ActivityTheorem` | `ActivityOnRecord`, for `TimelySpec` | `Uptime >= BatchWindow` |
| `LimitTheorem`, `RefusalTheorem` | `AdmittedWithinLimit`, `RefusedOnlyAtLimit` | one page, for the first |
| `StrictLimitTheorem` | all active sandboxes stay within limit and lag | one page, no resumption |
| `FreedTheorem` | `FreedPlaceStaysFree` | |
| `LifeInvariance`, `LifeTheorem` | `LifeInv`; the whole system implements `SessionLife` | |
| `EachLifeTheorem`, `CompositionTheorem` | each session of `SandboxQuota` implements it, and no behaviour of such sessions is missing | |

The argument. A pending write does not know the status it will find, so an invariant that
says "the status is what the handler read" is false; and the properties alone are not
inductive: nothing in `EndpointMatchesStatus` keeps a resumption from writing
`SESSION_RUNNING`, or an expiry from writing `SESSION_FAILED`, over a session that still
waits. What is true is that a session never goes *back*: it does not disappear, does not
wait again once it has stopped waiting, does not become un-started (`ItemProgress`).
So each component's part of `IInv` remembers only such facts: a resumption past its read
knows that the session is past provisioning (`CallInv`), a manager that its snapshot is of
a sandbox, at least as old as its verdict says (`LifecycleInv`), a task call that the
session has been up (`TaskInv`), an activity update that it began after the creation
(`ActivityInv`). `ItemProgress` is guaranteed by every step and relied upon by every
component: the proof has one lemma per component that a step of it keeps the record and
its own part and guarantees progress, and one per component that its part survives any
step of the others that makes progress. Type correctness is inductive by itself and is
proved first.

Of the copy that lags the same is true: it does not know the status, but the session has not gone back
behind it (`ReplicaInv`). What a handler remembers of its read is therefore the same for either.

The action properties rest on one lemma, `StatusChange`: which steps change the status,
what each writes, and what its writer knew. The refinement is the same case
split, with `SameStatus` for the steps that are stutters of the contract.

The other theorems have strengthenings of their own, each beside its proof or its
specification:

- `ProxyInv` (`SandboxInvariants`): the endpoint is written once (the conditional
  registration), so an endpoint that was ever read is the one on record for good; an entry
  belongs to `Owner`, because the lookup that filled it was the owner's; a version that was
  fetched is never replaced by an older one, since both numbers only grow.
- `FreshInv` (`CacheFreshness`): a lookup is dated by a clock reading *before* the table
  answered, and the copy that answered showed the session up no longer than `MaxReadLag` after it last
  was, so at every later time the date is no later than that; the history variable
  `forwardableAt` remembers when the session was last up. An entry of age below `CacheTtl`
  then vouches for a session that was up that recently, whoever invalidated what meanwhile.
- `LaunchTheorems`: without resumption a terminated session stays terminated or becomes failed
  or cancelled, so while one manager stops the container no snapshot can match again. The ARN is stored
  by the last step of the creation, so it is never replaced; a registration that begins when
  every read shows it is of that container, and the endpoint is only written by one that has begun
  (`RegistrationBegins`).
- `TimelyInv` (`TimelyActivity`): from its application to the end of the window it opens,
  a write is on the record, give or take the delay of an older one that lands on top of it.
- `QuotaProofs`: at an admission, everything active is counted or behind; from one admission
  to the next the active sessions can only become fewer, but for those a resumption brings
  back. The proof counts with the library's theorems on finite sets.

- `LifeInv` (`SandboxLife`): whoever acts on the session from outside got its id from a container or
  a reply, both of which come after the limit check; a pending call and a manager's ARN remember
  that. The step that is then a step of the life is found as for the contract, by what each writer
  knows (`CallInv`, `LifecycleInv`). A desktop session never enters a phase.
- `CompositionTheorem`: a step of one life, with the count's verdict and a lagging index, is one of
  the actions of `SandboxQuota`, which needs its type invariant and the bound on the lag.

Model-checked only: liveness, that is `ProvisioningEnds`, `ActiveEnds` and `RefusedFreesItsPlace`
(it needs fairness and ENABLED, and the prover has neither); the safety half of the last is
`FreedTheorem`. Every other property of the passing runs is the statement of a theorem.

## Not modelled, and the plan

Not modelled: bodies, headers and streams of forwarded requests, downstream clients, wiring,
configuration, middleware (I/O); the in-memory repositories (test doubles; what distinguishes
their `register_sandbox` is a mutant here); `update_session_name` (its attributes are read by
no decision); `terminate_sandbox`, `is_healthy`, `delete` and `list_by_tenant_user` (no caller);
the order of version strings (a version is what it compares as); the process table of the
local launcher.

Deletion of expired items by the table's TTL is not modelled. An `update_item` that lands
after it creates an item with the updated attributes only, which `_from_item` cannot read and
which has no expiry of its own. With the default settings an item lives for 24 hours from its
creation or last resumption and its sandbox for 4, so it takes a resumption, a cancellation or a
cached endpoint at the very end to get there; with a longer maximum duration the manager
would lose sight of a container that still runs.

To come, in this order:

1. Deletion by TTL as a further action of the store, with the fragments; it changes every
   component's guards (`item.status # "absent"`) and with them the proofs.
2. Proofs about that: which writes can land after the deletion, and what they leave.
