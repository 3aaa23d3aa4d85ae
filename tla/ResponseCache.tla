---------------------------- MODULE ResponseCache ----------------------------
(***************************************************************************)
(* go-proxy's requests (request_handler and ModifyResponse of              *)
(* http_protocol.go) against the updates of their cluster.  Every server   *)
(* has a response cache of its own, but the settings and the backends are  *)
(* fields of the cluster that all its servers share: requests of a server  *)
(* that was shut down, and whose drain timed out, see them change.         *)
(***************************************************************************)
EXTENDS Naturals, FiniteSets

CONSTANTS
    Requests,   \* slots for requests in flight
    Kinds,      \* what a request asks for: method, URL and body
    Hashes,
    Hash,       \* the checksum of a kind; kinds may share one
    Backends,
    MaxServers, \* bound: servers started by one process; the last one is not replaced
    None        \* no kind, backend or hash

ASSUME HashIsAFunction == Hash \in [Kinds -> Hashes]
ASSUME NoneIsNoHash == None \notin Hashes \cup Kinds \cup Backends
ASSUME BackendsAreFinite == IsFiniteSet(Backends)
ASSUME ServersArePositive == MaxServers \in Nat \ {0}

VARIABLES
    backends,       \* Backends of the cluster
    cacheEnabled,   \* CacheEnabled of the cluster
    update,         \* how far MakeCluster is: "none", or the step it is at
    server,         \* the server started last; 0 is none
    hasServer,      \* whether the protocol still holds it
    stopped,        \* the servers that were shut down
    cache,          \* cache[s][h]: the response the cache of server s has under h
    req             \* req[r]: the request in slot r

vars == <<backends, cacheEnabled, update, server, hasServer, stopped, cache, req>>

Servers == 1 .. MaxServers

(* Responses stand for the request they answer and the backend they are    *)
(* from.                                                                   *)
Responses == [kind : Kinds, backend : Backends]
NoResponse == [kind |-> None, backend |-> None]

Keys == Hashes \cup {None}      \* None is the empty hash of a request that computed none
Empty == [h \in Keys |-> NoResponse]

Idle == [pc |-> "idle", server |-> 0, kind |-> None, hash |-> None, count |-> 0,
         backend |-> None, response |-> NoResponse]

RequestStates ==
    [pc : {"idle", "connected", "body", "pick", "index", "forward", "store", "hit", "panic"},
     server : 0 .. MaxServers, kind : Kinds \cup {None}, hash : Keys,
     count : 0 .. Cardinality(Backends), backend : Backends \cup {None},
     response : Responses \cup {NoResponse}]

TypeOK ==
    /\ backends \subseteq Backends /\ cacheEnabled \in BOOLEAN
    /\ update \in {"none", "drain", "lrange", "config", "start"}
    /\ server \in 0 .. MaxServers /\ hasServer \in BOOLEAN /\ stopped \subseteq Servers
    /\ cache \in [Servers -> [Keys -> Responses \cup {NoResponse}]]
    /\ req \in [Requests -> RequestStates]

Init ==
    /\ backends = {} /\ cacheEnabled = FALSE
    /\ update = "none" /\ server = 0 /\ hasServer = FALSE /\ stopped = {}
    /\ cache = [s \in Servers |-> Empty]
    /\ req = [r \in Requests |-> Idle]

clusterVars == <<backends, cacheEnabled, update, server, hasServer, stopped>>

-----------------------------------------------------------------------------
(* request_handler.                                                        *)
At(r, pc) == req[r].pc = pc
Step(r, q) == req' = [req EXCEPT ![r] = q]

InFlight(s) == {r \in Requests : req[r].pc # "idle" /\ req[r].server = s}

(* The request ends.  The cache c of a server that was shut down is        *)
(* garbage when the last request that uses it ends.                        *)
End(r, c) ==
    /\ Step(r, Idle)
    /\ LET s == req[r].server IN
       cache' = IF s \in stopped /\ InFlight(s) = {r} THEN [c EXCEPT ![s] = Empty] ELSE c

(* A server that is shut down takes no new connections, and closes those   *)
(* that are idle for some time; until then their request may still come.   *)
Connect(r) ==
    /\ At(r, "idle") /\ server # 0 /\ server \notin stopped
    /\ Step(r, [Idle EXCEPT !.pc = "connected", !.server = server])
    /\ UNCHANGED <<clusterVars, cache>>

Hangup(r) ==
    /\ At(r, "connected")
    /\ End(r, cache)
    /\ UNCHANGED clusterVars

(* A request comes, and its goroutine looks at CacheEnabled.               *)
Arrive(r, k) ==
    /\ At(r, "connected")
    /\ Step(r, [req[r] EXCEPT !.pc = IF cacheEnabled THEN "body" ELSE "pick", !.kind = k])
    /\ UNCHANGED <<clusterVars, cache>>

(* The body is read and hashed, and the hash looked up; if the body cannot *)
(* be read there is no hash and nothing is looked up.                      *)
Lookup(r) ==
    /\ At(r, "body")
    /\ LET h == Hash[req[r].kind]
           found == cache[req[r].server][h]
       IN Step(r, [req[r] EXCEPT !.pc = IF found = NoResponse THEN "pick" ELSE "hit",
                                 !.hash = h, !.response = found])
    /\ UNCHANGED <<clusterVars, cache>>

NoBody(r) ==
    /\ At(r, "body")
    /\ Step(r, [req[r] EXCEPT !.pc = "pick"])
    /\ UNCHANGED <<clusterVars, cache>>

(* c.Backends[rand.Intn(len(c.Backends))] reads the field twice.  Neither  *)
(* an empty list nor one that got shorter in between has the element:      *)
(* net/http recovers from the panic and drops the request.                 *)
Count(r) ==
    /\ At(r, "pick")
    /\ Step(r, [req[r] EXCEPT !.pc = IF backends = {} THEN "panic" ELSE "index",
                              !.count = Cardinality(backends)])
    /\ UNCHANGED <<clusterVars, cache>>

Pick(r, b) ==
    /\ At(r, "index") /\ b \in backends
    /\ Step(r, [req[r] EXCEPT !.pc = "forward", !.backend = b])
    /\ UNCHANGED <<clusterVars, cache>>

OutOfRange(r) ==
    /\ At(r, "index") /\ Cardinality(backends) < req[r].count
    /\ Step(r, [req[r] EXCEPT !.pc = "panic"])
    /\ UNCHANGED <<clusterVars, cache>>

(* A mutant of Answer: the context was made before the backend was picked. *)
AnswerLost(r) == [kind |-> req[r].kind, backend |-> None]

Answer(r) == [kind |-> req[r].kind, backend |-> req[r].backend]

(* The backend answers, and ModifyResponse, after the delay, looks at      *)
(* CacheEnabled again.  Or the reverse proxy reports a bad gateway.        *)
Modify(r) ==
    /\ At(r, "forward")
    /\ IF cacheEnabled
       THEN Step(r, [req[r] EXCEPT !.pc = "store", !.response = Answer(r)]) /\ UNCHANGED cache
       ELSE End(r, cache)
    /\ UNCHANGED clusterVars

BadGateway(r) ==
    /\ At(r, "forward")
    /\ End(r, cache)
    /\ UNCHANGED clusterVars

(* A mutant of StoreHash: the context is shared by all requests, so that   *)
(* another one may have set the hash.                                      *)
StoreHashShared(r) ==
    LET others == {req[o].hash : o \in Requests \ {r}} \ {None} IN
    IF others # {} THEN CHOOSE h \in others : TRUE ELSE req[r].hash

StoreHash(r) == req[r].hash

Store(r) ==
    /\ At(r, "store")
    /\ End(r, [cache EXCEPT ![req[r].server][StoreHash(r)] = req[r].response])
    /\ UNCHANGED clusterVars

(* The response cannot be read, and is not stored.                         *)
NoResponseBody(r) ==
    /\ At(r, "store")
    /\ End(r, cache)
    /\ UNCHANGED clusterVars

(* The client gets the cached response, or a dropped connection.           *)
Finish(r) ==
    /\ req[r].pc \in {"hit", "panic"}
    /\ End(r, cache)
    /\ UNCHANGED clusterVars

(* Entries expire.                                                         *)
Expire(s, h) ==
    /\ cache[s][h] # NoResponse
    /\ cache' = [cache EXCEPT ![s][h] = NoResponse]
    /\ UNCHANGED <<clusterVars, req>>

-----------------------------------------------------------------------------
(* MakeCluster, one at a time: Teardown, then Refresh.  As long as no      *)
(* server was started every call makes a new cluster.                      *)
First ==
    /\ update = "none" /\ server = 0
    /\ backends' = {} /\ cacheEnabled' = FALSE /\ update' = "lrange"
    /\ UNCHANGED <<server, hasServer, stopped, cache, req>>

(* A mutant of Stopped: the old server goes on during the update. *)
StoppedNot == stopped

Stopped == stopped \cup {server}

Teardown ==
    /\ update = "none" /\ server # 0 /\ hasServer /\ server < MaxServers
    /\ stopped' = Stopped
    /\ update' = "drain"
    /\ UNCHANGED <<backends, cacheEnabled, server, hasServer, cache, req>>

(* The update before has failed after its Teardown: Shutdown is called on  *)
(* nil, the process ends and is started again.                             *)
Crash ==
    /\ update = "none" /\ server # 0 /\ ~hasServer
    /\ backends' = {} /\ cacheEnabled' = FALSE /\ update' = "none"
    /\ server' = 0 /\ hasServer' = FALSE /\ stopped' = {}
    /\ cache' = [s \in Servers |-> Empty]
    /\ req' = [r \in Requests |-> Idle]

(* Shutdown returns when the requests of the server have ended, or after   *)
(* five seconds with an error, and then the protocol keeps the server.     *)
Drained ==
    /\ update = "drain" /\ InFlight(server) = {}
    /\ hasServer' = FALSE /\ update' = "lrange"
    /\ cache' = [cache EXCEPT ![server] = Empty]
    /\ UNCHANGED <<backends, cacheEnabled, server, stopped, req>>

DrainTimeout ==
    /\ update = "drain" /\ InFlight(server) # {}
    /\ update' = "lrange"
    /\ UNCHANGED <<backends, cacheEnabled, server, hasServer, stopped, cache, req>>

(* Refresh: whatever list Redis has replaces Backends before it is found   *)
(* to be empty; caching is off until the configuration is read.            *)
LRange(list) ==
    /\ update = "lrange"
    /\ backends' = list
    /\ IF list = {} THEN update' = "none" /\ UNCHANGED cacheEnabled
       ELSE update' = "config" /\ cacheEnabled' = FALSE
    /\ UNCHANGED <<server, hasServer, stopped, cache, req>>

LRangeError ==
    /\ update = "lrange"
    /\ update' = "none"
    /\ UNCHANGED <<backends, cacheEnabled, server, hasServer, stopped, cache, req>>

(* As in ClusterRegistry, the configuration names settings only, though it *)
(* is decoded into the Cluster and could name "backends" as well.          *)
GetConfig(enabled) ==
    /\ update = "config"
    /\ cacheEnabled' = enabled /\ update' = "start"
    /\ UNCHANGED <<backends, server, hasServer, stopped, cache, req>>

(* "No protocol found" *)
Unsupported ==
    /\ update = "start"
    /\ update' = "none"
    /\ UNCHANGED <<backends, cacheEnabled, server, hasServer, stopped, cache, req>>

(* A mutant of NewCache: the cluster keeps its cache. *)
NewCacheKept == IF server = 0 THEN Empty ELSE cache[server]

NewCache == Empty

StartServer ==
    /\ update = "start"
    /\ server' = server + 1 /\ hasServer' = TRUE /\ update' = "none"
    /\ cache' = [cache EXCEPT ![server'] = NewCache]
    /\ UNCHANGED <<backends, cacheEnabled, stopped, req>>

-----------------------------------------------------------------------------
Handle(r) ==
    \/ Connect(r) \/ Hangup(r) \/ Lookup(r) \/ NoBody(r) \/ Count(r) \/ OutOfRange(r) \/ BadGateway(r)
    \/ Modify(r) \/ Store(r) \/ NoResponseBody(r) \/ Finish(r)
    \/ \E b \in Backends : Pick(r, b)

MakeCluster ==
    \/ First \/ Teardown \/ Crash \/ Drained \/ DrainTimeout \/ LRangeError \/ Unsupported \/ StartServer
    \/ \E list \in SUBSET Backends : LRange(list)
    \/ \E enabled \in BOOLEAN : GetConfig(enabled)

Next ==
    \/ MakeCluster
    \/ \E r \in Requests : Handle(r) \/ \E k \in Kinds : Arrive(r, k)
    \/ \E s \in Servers, h \in Keys : Expire(s, h)

Spec == Init /\ [][Next]_vars

-----------------------------------------------------------------------------
(* A cached response goes to a request with the checksum of the one it     *)
(* answers: two requests share a response only if their checksums collide. *)
(* That caching may be switched on between the two looks at CacheEnabled,  *)
(* or that a body could not be read, gives nobody a wrong response.        *)
OwnResponse ==
    \A r \in Requests : At(r, "hit") => Hash[req[r].response.kind] = Hash[req[r].kind]

(* A server that was not shut down answers from its cache only with        *)
(* responses of backends the cluster still has: an update leaves no        *)
(* response of a removed backend behind.                                   *)
HitsAreCurrent ==
    \A r \in Requests :
        At(r, "hit") /\ req[r].server \notin stopped => req[r].response.backend \in backends

(* Only requests of a server that was shut down are dropped by a panic:    *)
(* while a server is live nobody makes the list of backends shorter.       *)
LiveServerAnswers == \A r \in Requests : At(r, "panic") => req[r].server \in stopped
=============================================================================
