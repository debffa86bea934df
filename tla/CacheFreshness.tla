---------------------------- MODULE CacheFreshness ----------------------------
(***************************************************************************)
(* SandboxSystem observed by a history variable: the latest time at which  *)
(* the session could be forwarded to.  It says how stale the answers of    *)
(* resolve_sandbox may be, for a table whose copies lag behind no longer   *)
(* than MaxReadLag.                                                        *)
(***************************************************************************)
EXTENDS SandboxInvariants

CONSTANT MaxReadLag

ASSUME LagAssumption == MaxReadLag \in Nat

VARIABLE forwardableAt   \* None as long as the session never was

HistoryInit == Init /\ forwardableAt = None

HistoryNext == Next /\ forwardableAt' = IF Forwardable(item)' THEN clock' ELSE forwardableAt

\* The session was up at most MaxReadLag before `at`.
Since(at) == forwardableAt # None /\ at <= forwardableAt + MaxReadLag

\* A copy that still shows the session up is not further behind than that.
ReadsAreTimely == Forwardable(replica) => Since(clock)

HistorySpec == HistoryInit /\ [][HistoryNext /\ ReadsAreTimely']_<<vars, forwardableAt>>

(* A session that has ended fades from every cache: a request is forwarded *)
(* only if its session was up less than CacheTtl and the lag of a read     *)
(* before the request came in, although a lookup may be overtaken by the   *)
(* session's end, by an invalidation and by other lookups, and no other    *)
(* copy of the service is told of the end (resolve_sandbox,                *)
(* invalidate_cache).                                                      *)
EndedSessionsFade ==
  \A r \in Request :
    request[r].pc = "forward"
      => forwardableAt # None /\ request[r].at - forwardableAt < CacheTtl + MaxReadLag

(* The strengthening: an entry, and a reply on its way to become one, is   *)
(* dated no later than a read could have shown the session up.             *)
FreshInv ==
  /\ forwardableAt \in Nat \cup {None}
  /\ forwardableAt # None => forwardableAt <= clock
  /\ Forwardable(item) => forwardableAt = clock
  /\ ReadsAreTimely
  /\ \A p \in Proxy : cache[p] # NoEntry => Since(cache[p].at)
  /\ \A r \in Request :
       /\ request[r].at <= clock
       /\ request[r].pc = "store" => Since(request[r].at)
  /\ EndedSessionsFade
==============================================================================
