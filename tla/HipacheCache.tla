---------------------------- MODULE HipacheCache ----------------------------
(***************************************************************************)
(* The request path of go-hipache (hipache.go): the backends of a port are *)
(* read from Redis and kept for a fixed time in the memory of the process. *)
(* Requests run in goroutines of their own and meet only in the cache.     *)
(* One port is modelled: ports have separate keys in Redis and the cache.  *)
(* A request whose Host header has no port ends before it gets here.       *)
(***************************************************************************)
EXTENDS Naturals

CONSTANTS
    Backends,   \* the URLs a frontend list may hold
    Requests,   \* slots for requests in flight
    TTL,        \* ticks an entry of the cache lives (five minutes)
    MaxFill,    \* ticks a reply of Redis takes at most: the client's timeouts
    MaxEdits,   \* bound: edits of the frontend
    None        \* no entry

ASSUME TicksAreNaturals == TTL \in Nat /\ MaxFill \in Nat

ASSUME EditsAreNatural == MaxEdits \in Nat

Lists == SUBSET Backends

VARIABLES
    frontend,   \* the list frontend:<port> in Redis
    cache,      \* backend_cache: [list, left], left being the ticks to live, or None
    req,        \* req[r]: the request in slot r
    edits,
    since       \* since[l]: ticks since the frontend was last l, as far as Far

vars == <<frontend, cache, req, edits, since>>

(* The age after which a list is merely old. *)
Far == TTL + MaxFill + 1

Entries == [list : Lists, left : 0 .. TTL]

ASSUME NoneIsNoEntry == None \notin Entries

(* list and waited are those of the reply that is on its way *)
Idle == [pc |-> "idle", skip |-> FALSE, list |-> {}, waited |-> 0]

TypeOK ==
    /\ frontend \in Lists
    /\ cache \in Entries \cup {None}
    /\ req \in [Requests -> [pc : {"idle", "cache", "redis", "reply"}, skip : BOOLEAN,
                             list : Lists, waited : 0 .. MaxFill]]
    /\ edits \in 0 .. MaxEdits
    /\ since \in [Lists -> 0 .. Far]

Init ==
    /\ frontend \in Lists
    /\ cache = None
    /\ req = [r \in Requests |-> Idle]
    /\ edits = 0
    /\ since = [l \in Lists |-> IF l = frontend THEN 0 ELSE Far]

Finish(r) == req' = [req EXCEPT ![r] = Idle]

(* request_handler: a request with X-Backend-Skip-Cache goes to Redis.     *)
Arrive(r, skip) ==
    /\ req[r].pc = "idle"
    /\ req' = [req EXCEPT ![r] = [pc |-> IF skip THEN "redis" ELSE "cache", skip |-> skip,
                                  list |-> {}, waited |-> 0]]
    /\ UNCHANGED <<frontend, cache, edits, since>>

(* A mutant of AfterHit: a hit renews the entry. *)
AfterHitRenewed == [cache EXCEPT !.left = TTL]

AfterHit == cache

(* get_backends_cached: the entry is there, and the request picks from it. *)
CacheHit(r) ==
    /\ req[r].pc = "cache"
    /\ cache # None
    /\ cache' = AfterHit
    /\ Finish(r)
    /\ UNCHANGED <<frontend, edits, since>>

CacheMiss(r) ==
    /\ req[r].pc = "cache"
    /\ cache = None
    /\ req' = [req EXCEPT ![r].pc = "redis"]
    /\ UNCHANGED <<frontend, cache, edits, since>>

(* get_backends: Redis evaluates LRANGE.  A key that is gone is an empty   *)
(* list, not an error.                                                     *)
LRange(r) ==
    /\ req[r].pc = "redis"
    /\ req' = [req EXCEPT ![r] = [pc |-> "reply", skip |-> @.skip, list |-> frontend, waited |-> 0]]
    /\ UNCHANGED <<frontend, cache, edits, since>>

(* The connection fails or the reply is late: the answer is a 400.         *)
RedisError(r) ==
    /\ req[r].pc \in {"redis", "reply"}
    /\ Finish(r)
    /\ UNCHANGED <<frontend, cache, edits, since>>

(* A mutant of Lifetime: the entry lives a tick longer. *)
LifetimeLonger == TTL + 1

Lifetime == TTL

(* backend_cache.Set replaces whatever another request stored meanwhile.   *)
Store(r) ==
    /\ req[r].pc = "reply"
    /\ ~req[r].skip
    /\ cache' = [list |-> req[r].list, left |-> Lifetime]
    /\ Finish(r)
    /\ UNCHANGED <<frontend, edits, since>>

Bypass(r) ==
    /\ req[r].pc = "reply"
    /\ req[r].skip
    /\ Finish(r)
    /\ UNCHANGED <<frontend, cache, edits, since>>

(* Get does not find an entry that has outlived its time.                  *)
Aged == IF cache = None \/ cache.left = 0 THEN None ELSE [cache EXCEPT !.left = @ - 1]

(* Time passes, but no reply is on its way for more than MaxFill.          *)
Tick ==
    /\ \A r \in Requests : req[r].pc = "reply" => req[r].waited < MaxFill
    /\ cache' = Aged
    /\ req' = [r \in Requests |-> IF req[r].pc = "reply" THEN [req[r] EXCEPT !.waited = @ + 1]
                                  ELSE req[r]]
    /\ since' = [l \in Lists |-> IF l = frontend THEN 0
                                 ELSE IF since[l] < Far THEN since[l] + 1 ELSE Far]
    /\ UNCHANGED <<frontend, edits>>

(* Another program edits the list in Redis. *)
EditFrontend(l) ==
    /\ edits < MaxEdits
    /\ edits' = edits + 1
    /\ l # frontend
    /\ frontend' = l
    /\ since' = [since EXCEPT ![l] = 0]
    /\ UNCHANGED <<cache, req>>

Handle(r) == CacheHit(r) \/ CacheMiss(r) \/ LRange(r) \/ Store(r) \/ Bypass(r)

Next ==
    \/ \E r \in Requests : Handle(r) \/ RedisError(r) \/ \E skip \in BOOLEAN : Arrive(r, skip)
    \/ Tick
    \/ \E l \in Lists : EditFrontend(l)

Spec == Init /\ [][Next]_vars

(* Time passes and goroutines run; requests and edits need not come.       *)
Fairness == WF_vars(Tick) /\ \A r \in Requests : WF_vars(Handle(r))

FairSpec == Spec /\ Fairness

-----------------------------------------------------------------------------
(* The lists a request would pick a backend from now. *)
OnOffer ==
    {req[r].list : r \in {q \in Requests : req[q].pc = "reply"}}
        \cup (IF cache = None THEN {} ELSE {cache.list})

(* No request is sent by a list that ceased to be the frontend longer ago  *)
(* than the life of an entry and the way of a reply, whatever older reply  *)
(* overwrote a newer one.  For the empty list, on which rand.Intn panics   *)
(* (hipache.go:117), it bounds how long requests are still aborted after   *)
(* the frontend got its backends.                                          *)
BoundedStaleness == \A l \in OnOffer : since[l] <= TTL + MaxFill

(* When the frontend is left alone, the cache ends up with it or empty,    *)
(* though hits keep coming.                                                *)
CacheCatchesUp ==
    \A l \in Lists : <>[](frontend = l) => <>[](cache # None => cache.list = l)
=============================================================================
