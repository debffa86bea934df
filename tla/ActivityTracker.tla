---------------------------- MODULE ActivityTracker ----------------------------
(***************************************************************************)
(* ProxyService.update_activity: requests and uploads refresh the activity *)
(* time, at most once per batch window and copy of the service.  Each call *)
(* runs in a task of its own, detached from the request it was made for.   *)
(*                                                                         *)
(* The monotonic clock of a process runs Uptime ahead of `clock`: it       *)
(* counts from the start of the host, not of the service.                  *)
(***************************************************************************)
EXTENDS EndpointCache

CONSTANTS
  Touch,        \* update_activity calls in flight at once
  BatchWindow,  \* activity_batch_seconds
  Uptime        \* monotonic() at time 0

ASSUME ActivityAssumption == {BatchWindow, Uptime} \subseteq Nat

VARIABLES
  lastWrite,   \* _last_activity_write of this session, 0 when it has no entry
  touch
activityVars == <<lastWrite, touch>>

NoTouch == [pc |-> "idle", proxy |-> None, at |-> 0]

ActivityInit ==
  /\ lastWrite = [p \in Proxy |-> 0]
  /\ touch = [u \in Touch |-> NoTouch]

monotonic == clock + Uptime

\* Inside the window the call returns without a write.
WithinWindow(p) == monotonic - lastWrite[p] < BatchWindow

EndTouch(u) == touch' = [touch EXCEPT ![u] = NoTouch]

(* Made for a request that was proxied to the sandbox or for a file upload *)
(* that was stored, by someone who has the session id.  An upload needs no *)
(* sandbox, on the desktop or in the cloud, only a session that had not    *)
(* ended when the upload began; requests of both kinds outlast a session.  *)
Addressable == item.status # "absent" /\ (isSandbox => \E c \in Container : container[c] # "none")

\* Both clocks are read here.
BeginTouch(u, p) ==
  /\ touch[u] = NoTouch
  /\ Addressable
  /\ ~WithinWindow(p)
  /\ touch' = [touch EXCEPT ![u] = [pc |-> "write", proxy |-> p, at |-> clock]]
  /\ UNCHANGED <<storeVars, container, lastWrite>>

\* The table applies the update; the caller has yet to hear of it.
WriteActivity(u) ==
  /\ touch[u].pc = "write"
  /\ UpdateLastActivity(touch[u].at)
  /\ touch' = [touch EXCEPT ![u].pc = "record"]
  /\ UNCHANGED <<replica, task, clock, container, lastWrite>>

\* Mutant: the window is opened when the call begins, not when it has written.
RecordEarly(u) ==
  /\ touch[u].pc \in {"write", "record"}
  /\ lastWrite' = [lastWrite EXCEPT ![touch[u].proxy] = touch[u].at + Uptime]
  /\ IF touch[u].pc = "record" THEN EndTouch(u) ELSE UNCHANGED touch
  /\ UNCHANGED <<storeVars, container>>

RecordWrite(u) ==
  /\ touch[u].pc = "record"
  /\ lastWrite' = [lastWrite EXCEPT ![touch[u].proxy] = touch[u].at + Uptime]
  /\ EndTouch(u)
  /\ UNCHANGED <<storeVars, container>>

\* An error is logged and the window stays as it was, whether or not the update was applied.
TouchFails(u) ==
  /\ "storeFails" \in Faults
  /\ touch[u] # NoTouch
  /\ EndTouch(u)
  /\ UNCHANGED <<storeVars, container, lastWrite>>

\* 10 000 sessions written since: the oldest entry is dropped.
EvictEntry(p) ==
  /\ lastWrite[p] # 0
  /\ lastWrite' = [lastWrite EXCEPT ![p] = 0]
  /\ UNCHANGED <<storeVars, container, touch>>

ActivityNext ==
  \/ \E u \in Touch : (\E p \in Proxy : BeginTouch(u, p))
                      \/ WriteActivity(u) \/ RecordWrite(u) \/ TouchFails(u)
  \/ \E p \in Proxy : EvictEntry(p)

ActivityTypeOK ==
  /\ lastWrite \in [Proxy -> Nat]
  /\ touch \in [Touch -> [pc : {"idle", "write", "record"}, proxy : Proxy \cup {None}, at : Nat]]
==============================================================================
