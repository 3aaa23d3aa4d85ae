---------------------------- MODULE CustomBackend ----------------------------
(***************************************************************************)
(* nginx-custom (ngx_http_custom_module.c): the variable $custom_backend.  *)
(* nginx evaluates it for proxy_pass and again for add_header, and its     *)
(* handler asks Redis over a connection that blocks the worker, and with   *)
(* it every other request of the worker.  The replies were to be cached in *)
(* shared memory; storing them is switched off.                            *)
(***************************************************************************)
EXTENDS Integers, SequencesExt

CONSTANTS
    Workers,    \* the nginx worker processes
    Requests,   \* slots for requests in flight, per worker
    Ports,      \* ports a Host header may name
    Error500,   \* the port NGX_HTTP_INTERNAL_SERVER_ERROR
    Backends,
    Blocks,     \* the configuration blocks in the order nginx reads them
    Root,       \* the one whose location evaluates the variable
    CacheTTL,   \* the setting CACHE_TTL
    MaxEvents,  \* bound: edits and failures of Redis, dead workers, reloads
    None        \* no port, backend, request or queue

ASSUME RootIsABlock == Blocks \in Seq(STRING) /\ Root \in ToSet(Blocks)
ASSUME CacheTTLIsAnInteger == CacheTTL \in Int
ASSUME EventsAreNatural == MaxEvents \in Nat

ASSUME NoneIsNoValue ==
    /\ None \notin Ports \cup {Error500} \cup Backends \cup Requests
    /\ None # "queue"

VARIABLES
    frontend,   \* the list frontend:<port> in Redis
    redis,      \* "up", "loading" (answers errors), "down" (refuses), "hung" (is silent)
    locs,       \* locs[b]: the configuration of block b, as the master process last read it
    queue,      \* the queue of cached replies in shared memory
    conf,       \* conf[w]: the configuration of Root the worker w was started with
    handler,    \* handler[w]: the variable handler of worker w
    link,       \* link[w]: its connection to Redis
    req,        \* req[w][q]: the request in slot q of worker w
    told,       \* told[w][q]: what Redis could have told its lookup so far
    events

vars == <<frontend, redis, locs, queue, conf, handler, link, req, told, events>>

AllPorts == Ports \cup {Error500}
Lists == SUBSET Backends

Free == [pc |-> "free", req |-> None, attempts |-> 0, list |-> {}]
Idle == [pc |-> "idle", port |-> None, backend |-> None, header |-> None]
Untold == [offered |-> {}, cause |-> FALSE]

LocConf == [cycle : 0 .. MaxEvents, shpool : BOOLEAN, cache : {None, "queue"}]

HandlerStates ==
    [pc : {"free", "connect", "query", "choose"}, req : Requests \cup {None}, attempts : 0 .. 4, list : Lists]

RequestStates ==
    [pc : {"idle", "proxy", "upstream", "header", "answered", "failed"}, port : AllPorts \cup {None},
     backend : Backends \cup {None}, header : Backends \cup {None}]

TypeOK ==
    /\ frontend \in [AllPorts -> Lists]
    /\ redis \in {"up", "loading", "down", "hung"}
    /\ locs \in [ToSet(Blocks) -> LocConf] /\ conf \in [Workers -> LocConf]
    /\ queue \subseteq [port : AllPorts, list : Lists \ {{}}]
    /\ handler \in [Workers -> HandlerStates]
    /\ link \in [Workers -> {"none", "ok", "broken"}]
    /\ req \in [Workers -> [Requests -> RequestStates]]
    /\ told \in [Workers -> [Requests -> [offered : Lists, cause : BOOLEAN]]]
    /\ events \in 0 .. MaxEvents

-----------------------------------------------------------------------------
(* The configuration.  Every block gets its own; the zone custom_cache is  *)
(* one, and its data are those of the block that was created last.         *)
create_loc_conf(n) == [b \in ToSet(Blocks) |-> [cycle |-> n, shpool |-> FALSE, cache |-> None]]

ZoneData == Last(Blocks)

(* At the first start the zone gets its queue; on a reload the block takes *)
(* over what the data of the zone had before, if that was set.             *)
init_zone(cf, cache) ==
    [cf EXCEPT ![ZoneData].shpool = TRUE,
               ![ZoneData].cache = IF cache # None THEN cache ELSE @]

Init ==
    /\ frontend \in [AllPorts -> Lists] /\ frontend[Error500] = {}
    /\ redis = "up"
    /\ locs = init_zone(create_loc_conf(0), "queue")
    /\ queue = {}
    /\ conf = [w \in Workers |-> locs[Root]]
    /\ handler = [w \in Workers |-> Free]
    /\ link = [w \in Workers |-> "none"]
    /\ req = [w \in Workers |-> [q \in Requests |-> Idle]]
    /\ told = [w \in Workers |-> [q \in Requests |-> Untold]]
    /\ events = 0

-----------------------------------------------------------------------------
(* The port in the Host header; a header without one gives the status 500. *)
get_port(host) == IF host = None THEN Error500 ELSE host

Unblocked(w) == handler[w].pc = "free"

(* The lookup of a request of worker w that its handler is at.             *)
Asking(w, q) == handler[w].pc # "free" /\ handler[w].req = q

Hear(t, list, answers) == [offered |-> t.offered \cup list, cause |-> t.cause \/ list = {} \/ ~answers]

(* nginx accepts a request: proxy_pass evaluates the variable first.       *)
Arrive(w, q, host) ==
    /\ Unblocked(w)
    /\ conf[w] = locs[Root]
    /\ req[w][q].pc = "idle"
    /\ req' = [req EXCEPT ![w][q] = [Idle EXCEPT !.pc = "proxy", !.port = get_port(host)]]
    /\ UNCHANGED <<frontend, redis, locs, queue, conf, handler, link, told, events>>

(* The value goes to whoever evaluated the variable.                       *)
Valued(r, b) ==
    IF r.pc = "proxy" THEN [r EXCEPT !.pc = "upstream", !.backend = b]
    ELSE [r EXCEPT !.pc = "answered", !.header = b]

(* A mutant of HasBackend: the context is not looked at. *)
HasBackendNever(r) == FALSE

HasBackend(r) == r.backend # None

(* An earlier evaluation for this request left its backend in the context. *)
Again(w, q) ==
    /\ Unblocked(w)
    /\ req[w][q].pc \in {"proxy", "header"}
    /\ HasBackend(req[w][q])
    /\ req' = [req EXCEPT ![w][q] = Valued(@, @.backend)]
    /\ UNCHANGED <<frontend, redis, locs, queue, conf, handler, link, told, events>>

(* The active entries of the port with a list that is not empty.           *)
find_cache_entry(w, p) ==
    IF CacheTTL > 0 /\ conf[w].shpool /\ conf[w].cache # None
    THEN {e \in queue : e.port = p} ELSE {}

Asks(q) == [Free EXCEPT !.pc = "connect", !.req = q]

(* Otherwise the handler takes a cached reply, or goes on to Redis if      *)
(* there is none, or one that has expired, which leaves the queue.         *)
Enter(w, q) ==
    /\ Unblocked(w)
    /\ req[w][q].pc \in {"proxy", "header"}
    /\ ~HasBackend(req[w][q])
    /\ LET found == find_cache_entry(w, req[w][q].port) IN
       IF found = {}
       THEN handler' = [handler EXCEPT ![w] = Asks(q)] /\ UNCHANGED queue
       ELSE \E e \in found, expired \in BOOLEAN :
              IF expired
              THEN handler' = [handler EXCEPT ![w] = Asks(q)] /\ queue' = queue \ {e}
              ELSE /\ handler' = [handler EXCEPT ![w] = [Asks(q) EXCEPT !.pc = "choose", !.list = e.list]]
                   /\ UNCHANGED queue
    /\ told' = [told EXCEPT ![w][q] = Hear(Untold, frontend[req[w][q].port], redis = "up")]
    /\ UNCHANGED <<frontend, redis, locs, conf, link, req, events>>

(* The handler returns: with a value, or with an error for a status, which *)
(* leaves the variable without one: proxy_pass has no URL then, or the     *)
(* header is not added.                                                    *)
Return(w, r) ==
    /\ handler' = [handler EXCEPT ![w] = Free]
    /\ req' = [req EXCEPT ![w][handler[w].req] = r]

Failed(r) == [r EXCEPT !.pc = IF @ = "proxy" THEN "failed" ELSE "answered"]

Handled(w) == req[w][handler[w].req]

(* redisConnect: blocks, without a timeout.  redisFree after an error.     *)
Connect(w) ==
    /\ handler[w].pc = "connect"
    /\ redis \in {"up", "loading"}
    /\ link' = [link EXCEPT ![w] = "ok"]
    /\ handler' = [handler EXCEPT ![w].pc = "query"]
    /\ UNCHANGED <<frontend, redis, locs, queue, conf, req, told, events>>

ConnectFails(w) ==
    /\ handler[w].pc = "connect"
    /\ redis = "down"
    /\ Return(w, Failed(Handled(w)))
    /\ UNCHANGED <<frontend, redis, locs, queue, conf, link, told, events>>

(* A mutant of NextAttempt: attempts are not counted. *)
SameAttempt(attempts) == attempts

NextAttempt(attempts) == attempts + 1

(* A mutant of GivesUp: once more. *)
GivesUpLate(attempts) == attempts > 4

GivesUp(attempts) == attempts > 3

(* A mutant of Closed: the connection is forgotten where the loop ends. *)
ClosedNot(l) == l

Closed(l) == "none"

(* LRANGE.  A connection that has met an error refuses every further       *)
(* command at once; an answer that is no list, or an empty one, is asked   *)
(* for again.                                                              *)
Usable(w) == link[w] = "ok" /\ redis = "up" /\ frontend[Handled(w).port] # {}

Query(w) ==
    /\ handler[w].pc = "query"
    /\ link[w] = "broken" \/ redis # "hung"
    /\ LET n == NextAttempt(handler[w].attempts) IN
       IF Usable(w)
       THEN /\ handler' = [handler EXCEPT ![w] =
                              [@ EXCEPT !.pc = "choose", !.attempts = n, !.list = frontend[Handled(w).port]]]
            /\ UNCHANGED <<link, req>>
       ELSE IF GivesUp(n)
       THEN /\ Return(w, Failed(Handled(w)))
            /\ link' = [link EXCEPT ![w] = Closed(@)]
       ELSE /\ handler' = [handler EXCEPT ![w].attempts = n]
            /\ UNCHANGED <<link, req>>
    /\ UNCHANGED <<frontend, redis, locs, queue, conf, told, events>>

(* A mutant of Stores: the reply is stored, as the comment has it. *)
StoresReply == TRUE

Stores == FALSE

FromRedis(w) == link[w] # "none" /\ CacheTTL # -1

(* Of the reply one backend is picked, and remembered for the request.     *)
(* Saving needs the zone, though nothing is saved.                         *)
Choose(w) ==
    /\ handler[w].pc = "choose"
    /\ link' = [link EXCEPT ![w] = Closed(@)]
    /\ IF FromRedis(w) /\ (~conf[w].shpool \/ conf[w].cache = None)
       THEN /\ Return(w, Failed(Handled(w)))
            /\ UNCHANGED queue
       ELSE /\ \E b \in handler[w].list : Return(w, Valued([Handled(w) EXCEPT !.backend = b], b))
            /\ queue' = IF Stores /\ FromRedis(w)
                        THEN queue \cup {[port |-> Handled(w).port, list |-> handler[w].list]} ELSE queue
    /\ UNCHANGED <<frontend, redis, locs, conf, told, events>>

(* The backend answers, so that the headers are added, or it does not.     *)
Upstream(w, q) ==
    /\ Unblocked(w)
    /\ req[w][q].pc = "upstream"
    /\ \E next \in {"header", "failed"} : req' = [req EXCEPT ![w][q].pc = next]
    /\ UNCHANGED <<frontend, redis, locs, queue, conf, handler, link, told, events>>

Finish(w, q) ==
    /\ Unblocked(w)
    /\ req[w][q].pc \in {"answered", "failed"}
    /\ req' = [req EXCEPT ![w][q] = Idle]
    /\ told' = [told EXCEPT ![w][q] = Untold]
    /\ UNCHANGED <<frontend, redis, locs, queue, conf, handler, link, events>>

-----------------------------------------------------------------------------
(* Outside the worker.                                                     *)
Event == events < MaxEvents /\ events' = events + 1

(* What Redis could tell the lookups that are under way from now on.       *)
Tell(f, answers) ==
    told' = [w \in Workers |-> [q \in Requests |->
                IF Asking(w, q) THEN Hear(told[w][q], f[req[w][q].port], answers) ELSE told[w][q]]]

EditFrontend(p, l) ==
    /\ Event
    /\ frontend' = [frontend EXCEPT ![p] = l]
    /\ Tell(frontend', redis = "up")
    /\ UNCHANGED <<redis, locs, queue, conf, handler, link, req>>

(* Redis stops, starts or hangs; when it stops its connections break.      *)
RedisBecomes(s) ==
    /\ Event
    /\ redis' = s
    /\ link' = [w \in Workers |-> IF s = "down" /\ link[w] = "ok" THEN "broken" ELSE link[w]]
    /\ Tell(frontend, s = "up")
    /\ UNCHANGED <<frontend, locs, queue, conf, handler, req>>

(* The configuration is read anew.                                         *)
Reload ==
    /\ Event
    /\ locs' = init_zone(create_loc_conf(events'), locs[ZoneData].cache)
    /\ UNCHANGED <<frontend, redis, queue, conf, handler, link, req, told>>

Spawn(w) ==
    /\ conf' = [conf EXCEPT ![w] = locs[Root]]
    /\ handler' = [handler EXCEPT ![w] = Free]
    /\ link' = [link EXCEPT ![w] = "none"]
    /\ req' = [req EXCEPT ![w] = [q \in Requests |-> Idle]]
    /\ told' = [told EXCEPT ![w] = [q \in Requests |-> Untold]]

(* A worker of the old configuration ends when its requests have ended.    *)
Replace(w) ==
    /\ conf[w] # locs[Root]
    /\ Unblocked(w) /\ \A q \in Requests : req[w][q].pc = "idle"
    /\ Spawn(w)
    /\ UNCHANGED <<frontend, redis, locs, queue, events>>

Die(w) ==
    /\ Event
    /\ Spawn(w)
    /\ UNCHANGED <<frontend, redis, locs, queue>>

(* get_port of a request without a Host header follows a NULL pointer, and *)
(* the worker dies with all its requests.                                  *)
ArriveWithoutHost(w) ==
    /\ Unblocked(w)
    /\ conf[w] = locs[Root]
    /\ Spawn(w)
    /\ UNCHANGED <<frontend, redis, locs, queue, events>>

-----------------------------------------------------------------------------
Handler(w) == Connect(w) \/ ConnectFails(w) \/ Query(w) \/ Choose(w)

Serve(w, q) == Again(w, q) \/ Enter(w, q) \/ Upstream(w, q) \/ Finish(w, q)

Next ==
    \/ \E w \in Workers :
          \/ Handler(w) \/ Replace(w) \/ Die(w) \/ ArriveWithoutHost(w)
          \/ \E q \in Requests : Serve(w, q) \/ \E host \in Ports \cup {None} : Arrive(w, q, host)
    \/ \E p \in AllPorts, l \in Lists : EditFrontend(p, l)
    \/ \E s \in {"up", "loading", "down", "hung"} : RedisBecomes(s)
    \/ Reload

Spec == Init /\ [][Next]_vars

(* A worker goes on while nothing blocks it, and its event loop comes to   *)
(* every request that is ready; upstream requests have a timeout.          *)
Fairness ==
    \A w \in Workers :
        /\ WF_vars(Handler(w)) /\ WF_vars(Replace(w))
        /\ \A q \in Requests : SF_vars(Serve(w, q))

FairSpec == Spec /\ Fairness

-----------------------------------------------------------------------------
(* The lookups the requests of all workers are at (BackendLookup).         *)
LookupState(w, q) ==
    IF Asking(w, q) THEN "asked"
    ELSE IF req[w][q].backend # None THEN "found"
    ELSE IF req[w][q].pc = "failed" THEN "failed" ELSE "none"

LookupOf(w, q) ==
    [state |-> LookupState(w, q),
     port |-> IF LookupState(w, q) = "none" THEN None ELSE req[w][q].port,
     answer |-> IF LookupState(w, q) = "found" THEN req[w][q].backend ELSE None,
     offered |-> told[w][q].offered, cause |-> told[w][q].cause]

Lookup == [r \in Workers \X Requests |-> LookupOf(r[1], r[2])]

Abstract == INSTANCE BackendLookup WITH
    Requests <- Workers \X Requests, Ports <- AllPorts,
    healthy <- redis = "up", lookup <- Lookup

(* The handler is a lookup in Redis: a request is sent to a backend that   *)
(* its port had while it was looked up, and gets a 500 only if meanwhile   *)
(* Redis did not answer or the port had no backends.  Nothing served was   *)
(* cached, no retry and no reload of the configuration costs an answer.    *)
IsLookup == Abstract!Spec

(* The header X-Backend names the backend the request was sent to, though  *)
(* the variable is evaluated anew for it and Redis may have changed.       *)
HeaderNamesBackend ==
    [][\A w \in Workers, q \in Requests :
          req[w][q].pc = "header" /\ req'[w][q].pc = "answered" => req'[w][q].header = req[w][q].backend]_vars

(* The handler closes its connection at each of its exits: a worker never  *)
(* waits for requests with a connection to Redis open.                     *)
ConnectionsAreClosed == \A w \in Workers : Unblocked(w) => link[w] = "none"

(* Every request ends, whatever its worker is blocked by meanwhile, if     *)
(* Redis is not silent for ever; that it is empty or down does not matter, *)
(* since the attempts on a connection are counted.                         *)
RequestsEnd ==
    <>[](redis # "hung") =>
        \A w \in Workers, q \in Requests : req[w][q].pc # "idle" ~> req[w][q].pc = "idle"
=============================================================================
