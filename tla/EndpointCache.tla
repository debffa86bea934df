----------------------------- MODULE EndpointCache -----------------------------
(***************************************************************************)
(* ProxyService.resolve_sandbox and the requests it is called for: each    *)
(* copy of the service remembers a session's endpoint and owner for        *)
(* CacheTtl, and forgets them when a sandbox cannot be reached, when its   *)
(* own manager stops the sandbox, and when other sessions push them out.   *)
(*                                                                         *)
(* Ages are differences of two readings of one process's monotonic clock,  *)
(* so `clock` serves for it here.                                          *)
(***************************************************************************)
EXTENDS SandboxLauncher

CONSTANTS
  Proxy,      \* the copies of the service, each with its own memory
  Request,    \* proxied requests in flight at once
  User,       \* who may send one
  Owner,      \* the user of the session
  CacheTtl    \* endpoint_cache_ttl

ASSUME CacheAssumption ==
  /\ Owner \in User
  /\ None \notin User
  /\ CacheTtl \in Nat \ {0}

VARIABLES
  cache,     \* _endpoint_cache of each copy, its entry for this session
  request
cacheVars == <<cache, request>>

NoEntry == [endpoint |-> None, user |-> None, at |-> 0]
NoRequest == [pc |-> "idle", proxy |-> None, user |-> None, endpoint |-> None, at |-> 0]

CacheInit ==
  /\ cache = [p \in Proxy |-> NoEntry]
  /\ request = [r \in Request |-> NoRequest]

InvalidateCache(p) == cache' = [q \in Proxy |-> IF q = p THEN NoEntry ELSE cache[q]]

Fresh(p) == cache[p] # NoEntry /\ clock - cache[p].at < CacheTtl

Proceed(r, pc, endpoint) ==
  request' = [request EXCEPT ![r].pc = pc, ![r].endpoint = endpoint]
EndRequest(r) == request' = [request EXCEPT ![r] = NoRequest]

\* Mutant: the owner is checked only when the session is read.
ResolveFromAnyonesEntry(r, p, user) ==
  /\ request[r] = NoRequest
  /\ Fresh(p)
  /\ request' = [request EXCEPT ![r] = [pc |-> "forward", proxy |-> p, user |-> user,
                                        endpoint |-> cache[p].endpoint, at |-> clock]]
  /\ UNCHANGED <<storeVars, container, cache>>

(* A fresh entry answers at once; the entry's age is not renewed.  Anyone  *)
(* but the user of the entry is refused.                                   *)
ResolveFromCache(r, p, user) ==
  /\ request[r] = NoRequest
  /\ Fresh(p)
  /\ cache[p].user = user
  /\ request' = [request EXCEPT ![r] = [pc |-> "forward", proxy |-> p, user |-> user,
                                        endpoint |-> cache[p].endpoint, at |-> clock]]
  /\ UNCHANGED <<storeVars, container, cache>>

\* The clock was read before the cache was looked at, and is not read again.
StartLookup(r, p, user) ==
  /\ request[r] = NoRequest
  /\ item.status # "absent"
  /\ ~Fresh(p)
  /\ request' = [request EXCEPT ![r] = [pc |-> "lookup", proxy |-> p, user |-> user,
                                        endpoint |-> None, at |-> clock]]
  /\ UNCHANGED <<storeVars, container, cache>>

\* The session can be forwarded to, as read.
Forwardable(read) == read.status \in SANDBOX_ACTIVE_STATUSES /\ read.sandboxEndpoint # None

\* The table answers, from a copy that may lag behind; the reply is on its way.
LookupFinds(r) ==
  /\ request[r].pc = "lookup"
  /\ request[r].user = Owner
  /\ \E read \in Readable : Forwardable(read) /\ Proceed(r, "store", read.sandboxEndpoint)
  /\ UNCHANGED <<storeVars, container, cache>>

LookupRefused(r) ==
  /\ request[r].pc = "lookup"
  /\ request[r].user # Owner \/ \E read \in Readable : ~Forwardable(read)
  /\ EndRequest(r)
  /\ UNCHANGED <<storeVars, container, cache>>

\* Mutant: the entry is dated by the clock when the reply is in.
StoreEntryDatedNow(r) ==
  /\ request[r].pc = "store"
  /\ cache' = [cache EXCEPT ![request[r].proxy] =
                 [endpoint |-> request[r].endpoint, user |-> Owner, at |-> clock]]
  /\ Proceed(r, "forward", request[r].endpoint)
  /\ UNCHANGED <<storeVars, container>>

\* What was found goes into the cache, whatever has become of the session or the cache since.
StoreEntry(r) ==
  /\ request[r].pc = "store"
  /\ cache' = [cache EXCEPT ![request[r].proxy] =
                 [endpoint |-> request[r].endpoint, user |-> Owner, at |-> request[r].at]]
  /\ Proceed(r, "forward", request[r].endpoint)
  /\ UNCHANGED <<storeVars, container>>

\* The sandbox answers, answers with a server error, or does not answer in time.
ForwardEnds(r) ==
  /\ request[r].pc = "forward"
  /\ container[request[r].endpoint] = "running" \/ "sandboxFails" \in Faults
  /\ EndRequest(r)
  /\ UNCHANGED <<storeVars, container, cache>>

\* No connection: the entry is dropped, and the next request looks the session up.
ForwardFails(r) ==
  /\ request[r].pc = "forward"
  /\ container[request[r].endpoint] # "running" \/ "sandboxFails" \in Faults
  /\ InvalidateCache(request[r].proxy)
  /\ EndRequest(r)
  /\ UNCHANGED <<storeVars, container>>

AbortRequest(r) ==
  /\ "crash" \in Faults
  /\ request[r] # NoRequest
  /\ EndRequest(r)
  /\ UNCHANGED <<storeVars, container, cache>>

\* 10 000 sessions were used since, or the copy was restarted.
EvictEndpoint(p) ==
  /\ cache[p] # NoEntry
  /\ InvalidateCache(p)
  /\ UNCHANGED <<storeVars, container, request>>

CacheNext ==
  \/ \E r \in Request :
       \/ \E p \in Proxy, user \in User : ResolveFromCache(r, p, user) \/ StartLookup(r, p, user)
       \/ LookupFinds(r) \/ LookupRefused(r) \/ StoreEntry(r)
       \/ ForwardEnds(r) \/ ForwardFails(r) \/ AbortRequest(r)
  \/ \E p \in Proxy : EvictEndpoint(p)

CacheEntry == [endpoint : Container \cup {None}, user : User \cup {None}, at : Nat]

CacheTypeOK ==
  /\ cache \in [Proxy -> CacheEntry]
  /\ request \in [Request -> [pc       : {"idle", "lookup", "store", "forward"},
                              proxy    : Proxy \cup {None},
                              user     : User \cup {None},
                              endpoint : Container \cup {None},
                              at       : Nat]]
==============================================================================
