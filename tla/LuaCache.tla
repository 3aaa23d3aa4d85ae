------------------------------ MODULE LuaCache ------------------------------
(***************************************************************************)
(* nginx-hipache (hipache.lua): every nginx worker keeps the backends of   *)
(* the ports in an LRU cache of its own.  A request yields to the others   *)
(* of its worker while it talks to Redis, and only then.                   *)
(***************************************************************************)
EXTENDS Naturals, SequencesExt

CONSTANTS
    Workers,    \* the nginx worker processes
    Requests,   \* slots for requests in flight, per worker
    Ports, Backends,
    Capacity,   \* the size of a worker's cache (200 for some 9000 ports)
    MaxEdits,   \* bound: edits of Redis
    None        \* no port

ASSUME CapacityIsPositive == Capacity \in Nat \ {0}

ASSUME EditsAreNatural == MaxEdits \in Nat

VARIABLES
    frontend, dead,     \* the list frontend:<port> and the set dead:<port> in Redis
    cache,              \* cache[w]: the entries of worker w, the last used one first
    req,                \* req[w][q]: the request of worker w in slot q
    edits

vars == <<frontend, dead, cache, req, edits>>

Lists == SUBSET Backends

Idle == [pc |-> "idle", port |-> None, list |-> {}]

TypeOK ==
    /\ frontend \in [Ports -> Lists] /\ dead \in [Ports -> Lists]
    /\ cache \in [Workers -> Seq([port : Ports, list : Lists])]
    /\ \A w \in Workers :
          /\ Len(cache[w]) <= Capacity
          /\ \A i, j \in DOMAIN cache[w] : cache[w][i].port = cache[w][j].port => i = j
    /\ req \in [Workers -> [Requests ->
                  [pc : {"idle", "redis", "reply"}, port : Ports \cup {None}, list : Lists]]]
    /\ edits \in 0 .. MaxEdits

Init ==
    /\ frontend = [p \in Ports |-> {}] /\ dead = [p \in Ports |-> {}]
    /\ cache = [w \in Workers |-> <<>>]
    /\ req = [w \in Workers |-> [q \in Requests |-> Idle]]
    /\ edits = 0

-----------------------------------------------------------------------------
(* lua-resty-lrucache: get moves the entry to the front, set puts it there *)
(* and drops the last one when the cache is full.  Entries do not expire.  *)
Places(s, p) == {i \in DOMAIN s : s[i].port = p}

Cached(w, p) == {cache[w][i].list : i \in Places(cache[w], p)}

Others(s, p) ==
    IF Places(s, p) = {} THEN s ELSE RemoveAt(s, CHOOSE i \in Places(s, p) : TRUE)

InFront(s, p, l) ==
    LET rest == Others(s, p) IN
    <<[port |-> p, list |-> l]>> \o SubSeq(rest, 1, IF Len(rest) < Capacity THEN Len(rest) ELSE Capacity - 1)

Use(w, p, l) == cache' = [cache EXCEPT ![w] = InFront(@, p, l)]

Move(w, q, to) == req' = [req EXCEPT ![w][q] = to]

(* go(): from the start of the request to the connection to Redis.         *)
Hit(w, q, p) ==
    /\ req[w][q].pc = "idle"
    /\ \E l \in Cached(w, p) : Use(w, p, l)
    /\ UNCHANGED <<frontend, dead, req, edits>>

Miss(w, q, p) ==
    /\ req[w][q].pc = "idle"
    /\ Cached(w, p) = {}
    /\ Move(w, q, [pc |-> "redis", port |-> p, list |-> {}])
    /\ UNCHANGED <<frontend, dead, cache, edits>>

(* A mutant of Reply: an empty list is taken for a list of one null.       *)
ReplyNil(p) == IF frontend[p] # {} THEN frontend[p] ELSE {None}

(* MULTI, LRANGE, SMEMBERS, EXEC: both keys at once.  The members of       *)
(* dead:<port> serve when the list is empty.  The keys hold a list and a   *)
(* set, or nothing: for a key of another type EXEC returns {false, error}, *)
(* which has the length 2 and would be cached like a list of two.          *)
Reply(p) == IF frontend[p] # {} THEN frontend[p] ELSE dead[p]

Exec(w, q) ==
    /\ req[w][q].pc = "redis"
    /\ Move(w, q, [req[w][q] EXCEPT !.pc = "reply", !.list = Reply(req[w][q].port)])
    /\ UNCHANGED <<frontend, dead, cache, edits>>

(* A mutant of Found: the reply is not looked at. *)
FoundAnything(l) == TRUE

Found(l) == l # {}

Save(w, q) ==
    /\ req[w][q].pc = "reply"
    /\ Found(req[w][q].list)
    /\ Use(w, req[w][q].port, req[w][q].list)
    /\ Move(w, q, Idle)
    /\ UNCHANGED <<frontend, dead, edits>>

(* "Backend not found" *)
NotFound(w, q) ==
    /\ req[w][q].pc = "reply"
    /\ ~Found(req[w][q].list)
    /\ Move(w, q, Idle)
    /\ UNCHANGED <<frontend, dead, cache, edits>>

(* "Failed to connect to Redis", "Lookup failed" *)
Fail(w, q) ==
    /\ req[w][q].pc \in {"redis", "reply"}
    /\ Move(w, q, Idle)
    /\ UNCHANGED <<frontend, dead, cache, edits>>

(* A worker that died is replaced by one with an empty cache.              *)
Respawn(w) ==
    /\ cache' = [cache EXCEPT ![w] = <<>>]
    /\ req' = [req EXCEPT ![w] = [q \in Requests |-> Idle]]
    /\ UNCHANGED <<frontend, dead, edits>>

(* Other programs edit Redis. *)
EditRedis(p, l, d) ==
    /\ edits < MaxEdits
    /\ edits' = edits + 1
    /\ frontend' = [frontend EXCEPT ![p] = l]
    /\ dead' = [dead EXCEPT ![p] = d]
    /\ UNCHANGED <<cache, req>>

Answer(w, q) == Exec(w, q) \/ Save(w, q) \/ NotFound(w, q)

Next ==
    \/ \E w \in Workers :
          \/ Respawn(w)
          \/ \E q \in Requests :
                Answer(w, q) \/ Fail(w, q) \/ \E p \in Ports : Hit(w, q, p) \/ Miss(w, q, p)
    \/ \E p \in Ports, l, d \in Lists : EditRedis(p, l, d)

Spec == Init /\ [][Next]_vars

(* Redis answers, or the client library gives up.  Requests need not come. *)
Fairness == \A w \in Workers, q \in Requests : WF_vars(Answer(w, q) \/ Fail(w, q))

FairSpec == Spec /\ Fairness

-----------------------------------------------------------------------------
(* What a worker may pick a backend of port p from: what it has cached,    *)
(* and what its requests were told by Redis.                               *)
OnOffer(w, p) ==
    Cached(w, p) \cup {req[w][q].list : q \in {q \in Requests : req[w][q].pc = "reply" /\ req[w][q].port = p}}

(* A port that was unknown when it was first asked for is served once it   *)
(* has got backends: math.random(1, 0) raises an error (hipache.lua:85),   *)
(* and an empty list in the cache, which nothing expires, would make it do *)
(* so for ever.                                                            *)
BackendsAreFound ==
    \A w \in Workers, p \in Ports :
        <>[](Reply(p) # {}) => <>[]({} \notin OnOffer(w, p))
=============================================================================
