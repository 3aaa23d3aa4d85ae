--------------------------- MODULE ClusterRegistry ---------------------------
(***************************************************************************)
(* The control plane of go-proxy: main, the two pub/sub listeners and the  *)
(* goroutines they start (main.go), the registry of clusters with its      *)
(* per-port mutexes (clusters.go), and the life of the HTTP server of a    *)
(* cluster (StartServer and ShutdownServer in http_protocol.go).           *)
(*                                                                         *)
(* Every access to a Go map, every lock operation and every call to Redis  *)
(* is a step of its own, so that the goroutines interleave between them.   *)
(* Heap objects (mutexes, clusters, servers) are pairs <<port, index>>;    *)
(* an object that nothing refers to any more may be allocated again.       *)
(***************************************************************************)
EXTENDS Naturals, Sequences, FiniteSets

CONSTANTS
    Ports,          \* the ports a frontend:<port> key may name
    RemovePorts,    \* the ports for which remove_frontend may be published
    Backends,       \* the URLs a frontend list may hold
    Workers,        \* slots for goroutines running MakeCluster or RemoveCluster
    HeapSize,       \* bound: objects of each kind alive at once, per port
    MaxEnv,         \* bound: steps of the environment (Redis edits, publishes, faults)
    Main,           \* the main goroutine
    NewListener,    \* ListenForNewClusters
    DownListener,   \* ListenForDownClusters
    None            \* Go's nil

Listeners == {NewListener, DownListener}
Threads == {Main} \cup Listeners \cup Workers
Heap == Ports \X (1 .. HeapSize)

ASSUME ThreadsDistinct ==
    /\ Main \notin Listeners \cup Workers
    /\ NewListener # DownListener
    /\ Listeners \cap Workers = {}
    /\ None \notin Threads \cup Heap \cup Ports

ASSUME BoundsAreNaturals == HeapSize \in Nat /\ MaxEnv \in Nat

ASSUME RemovePortsArePorts == RemovePorts \subseteq Ports

VARIABLES
    \* Redis
    frontend,       \* frontend[p]: the content of the list frontend:<p>
    supported,      \* supported[p]: frontend_config:<p> names a registered protocol
    \* the pub/sub connections
    subscribed,     \* subscribed[l]: the SUBSCRIBE of listener l is in effect
    inbox,          \* inbox[l]: published ports listener l has not received yet
    \* goroutines
    pc, arg, job, mx, obj,
    todo,           \* ports main has still to deploy at startup
    \* the heap of go-proxy
    clusterMu,      \* cluster_mu, the map of per-port mutexes
    holder,         \* holder[m]: the goroutine that holds mutex m
    clusters,       \* Clusters, the registry
    objHolder,      \* objHolder[c]: the goroutine that holds c.mu
    backends,       \* backends[c]: c.Backends
    impl,           \* impl[c]: c.protocolImpl
    hasServer,      \* hasServer[s]: p.server is not nil
    stopping,       \* stopping[s]: inShutdown of the http.Server
    serve,          \* serve[s]: progress of the goroutine of StartServer
    \* bookkeeping
    env,            \* environment steps taken
    announced       \* announced[p]: the program was told of p's present content

redis == <<frontend, supported>>
pubsub == <<subscribed, inbox>>
threads == <<pc, arg, job, mx, obj>>
mutexes == <<clusterMu, holder>>
objects == <<objHolder, backends, impl>>
servers == <<hasServer, stopping, serve>>
vars == <<redis, pubsub, threads, todo, mutexes, clusters, objects, servers,
          env, announced>>

ServeStates == {"off", "spawned", "checked", "bound", "listening", "closed"}
ThreadStates == {"keys", "next", "wait", "off", "subscribe", "receive", "spawn", "idle",
                 "mutex_check", "mutex_store", "mutex_load", "lock", "lookup", "fetch",
                 "teardown", "shutdown", "drain", "refresh", "lrange", "config",
                 "register", "unlock"}

TypeOK ==
    /\ frontend \in [Ports -> SUBSET Backends]
    /\ supported \in [Ports -> BOOLEAN]
    /\ subscribed \in [Listeners -> BOOLEAN]
    /\ inbox \in [Listeners -> Seq(Ports)]
    /\ pc \in [Threads -> ThreadStates]
    /\ arg \in [Threads -> Ports \cup {None}]
    /\ job \in [Threads -> {"make", "remove", "ensure", "none"}]
    /\ mx \in [Threads -> Heap \cup {None}]
    /\ obj \in [Threads -> Heap \cup {None}]
    /\ todo \in SUBSET Ports
    /\ clusterMu \in [Ports -> Heap \cup {None}]
    /\ holder \in [Heap -> Threads \cup {None}]
    /\ clusters \in [Ports -> Heap \cup {None}]
    /\ objHolder \in [Heap -> Threads \cup {None}]
    /\ backends \in [Heap -> SUBSET Backends]
    /\ impl \in [Heap -> Heap \cup {None}]
    /\ hasServer \in [Heap -> BOOLEAN]
    /\ stopping \in [Heap -> BOOLEAN]
    /\ serve \in [Heap -> ServeStates]
    /\ env \in Nat
    /\ announced \in [Ports -> BOOLEAN]

-----------------------------------------------------------------------------
Nil(S) == [x \in S |-> None]
Const(S, v) == [x \in S |-> v]
FreshPc == [t \in Threads |-> IF t = Main THEN "keys"
                              ELSE IF t \in Listeners THEN "off" ELSE "idle"]

(* A process that has just started. *)
Init ==
    /\ frontend \in [Ports -> SUBSET Backends]
    /\ supported = Const(Ports, TRUE)
    /\ subscribed = Const(Listeners, FALSE) /\ inbox = Const(Listeners, <<>>)
    /\ pc = FreshPc /\ arg = Nil(Threads) /\ job = Const(Threads, "none")
    /\ mx = Nil(Threads) /\ obj = Nil(Threads) /\ todo = {}
    /\ clusterMu = Nil(Ports) /\ holder = Nil(Heap)
    /\ clusters = Nil(Ports) /\ objHolder = Nil(Heap)
    /\ backends = Const(Heap, {}) /\ impl = Nil(Heap)
    /\ hasServer = Const(Heap, FALSE) /\ stopping = Const(Heap, FALSE)
    /\ serve = Const(Heap, "off")
    /\ env = 0 /\ announced = Const(Ports, FALSE)

(* An unrecovered panic, or the runtime's "concurrent map" fatal error,    *)
(* ends the process and "restart: unless-stopped" starts it again; Redis   *)
(* is another process and keeps its data.                                  *)
Crash ==
    /\ subscribed' = Const(Listeners, FALSE) /\ inbox' = Const(Listeners, <<>>)
    /\ pc' = FreshPc /\ arg' = Nil(Threads) /\ job' = Const(Threads, "none")
    /\ mx' = Nil(Threads) /\ obj' = Nil(Threads) /\ todo' = {}
    /\ clusterMu' = Nil(Ports) /\ holder' = Nil(Heap)
    /\ clusters' = Nil(Ports) /\ objHolder' = Nil(Heap)
    /\ backends' = Const(Heap, {}) /\ impl' = Nil(Heap)
    /\ hasServer' = Const(Heap, FALSE) /\ stopping' = Const(Heap, FALSE)
    /\ serve' = Const(Heap, "off")
    /\ announced' = Const(Ports, FALSE)
    /\ UNCHANGED <<redis, env>>

-----------------------------------------------------------------------------
(* Allocation takes the lowest free address of the port.                   *)
Lowest(p, Free(_)) ==
    {h \in Heap : h[1] = p /\ Free(h) /\ \A g \in Heap : g[1] = p /\ Free(g) => h[2] <= g[2]}

FreeMutex(m) ==
    /\ clusterMu[m[1]] # m
    /\ \A t \in Threads : mx[t] # m

FreeObject(c) ==
    /\ clusters[c[1]] # c
    /\ \A t \in Threads : obj[t] # c

FreeServer(s) ==
    /\ serve[s] \in {"off", "closed"}
    /\ \A c \in Heap : impl[c] = s => FreeObject(c)

Goto(t, l) == pc' = [pc EXCEPT ![t] = l]

-----------------------------------------------------------------------------
(* A mutant of Frontends: a key that names no port is not skipped.         *)
FrontendsUnfiltered == {p \in Ports : frontend[p] # {}} \cup {None}

Frontends == {p \in Ports : frontend[p] # {}}

(* main: KEYS frontend:*, then MakeCluster port by port, then the two      *)
(* listeners. main's own call of ClusterMutex before each MakeCluster does *)
(* what the one inside MakeCluster does, with no other goroutine running,  *)
(* and is left out. An error of KEYS panics: the process starts anew.      *)
GetFrontends ==
    /\ pc[Main] = "keys"
    /\ todo' = Frontends
    /\ announced' = [p \in Ports |-> p \in Frontends]
    /\ Goto(Main, "next")
    /\ UNCHANGED <<redis, pubsub, arg, job, mx, obj, mutexes, clusters, objects, servers, env>>

DeployNext(p) ==
    /\ pc[Main] = "next"
    /\ p \in todo
    /\ todo' = todo \ {p}
    /\ arg' = [arg EXCEPT ![Main] = p]
    /\ job' = [job EXCEPT ![Main] = "make"]
    /\ Goto(Main, "mutex_check")
    /\ UNCHANGED <<redis, pubsub, mx, obj, mutexes, clusters, objects, servers, env, announced>>

StartListeners ==
    /\ pc[Main] = "next"
    /\ todo = {}
    /\ pc' = [t \in Threads |-> IF t = Main THEN "wait"
                                ELSE IF t \in Listeners THEN "subscribe" ELSE pc[t]]
    /\ UNCHANGED <<redis, pubsub, arg, job, mx, obj, todo, mutexes, clusters, objects,
                   servers, env, announced>>

(* A mutant of AfterReceive: the listener leaves the mutex to MakeCluster. *)
AfterReceiveSpawn(l) == "spawn"

(* The listener for new clusters makes sure that the port has a mutex.     *)
AfterReceive(l) == IF l = NewListener THEN "mutex_check" ELSE "spawn"

(* ListenForNewClusters and ListenForDownClusters.  SUBSCRIBE takes effect *)
(* some time after main returned from the startup scan; what is published  *)
(* before that is lost.  A payload that is no number is logged and skipped.*)
Subscribe(l) ==
    /\ pc[l] = "subscribe"
    /\ subscribed' = [subscribed EXCEPT ![l] = TRUE]
    /\ Goto(l, "receive")
    /\ UNCHANGED <<redis, inbox, arg, job, mx, obj, todo, mutexes, clusters, objects, servers,
                   env, announced>>

Receive(l) ==
    /\ pc[l] = "receive"
    /\ inbox[l] # <<>>
    /\ inbox' = [inbox EXCEPT ![l] = Tail(@)]
    /\ arg' = [arg EXCEPT ![l] = Head(inbox[l])]
    /\ job' = [job EXCEPT ![l] = "ensure"]
    /\ Goto(l, AfterReceive(l))
    /\ UNCHANGED <<redis, subscribed, mx, obj, todo, mutexes, clusters, objects, servers, env,
                   announced>>

Spawn(l, w) ==
    /\ pc[l] = "spawn"
    /\ pc[w] = "idle"
    /\ pc' = [pc EXCEPT ![l] = "receive", ![w] = "mutex_check"]
    /\ arg' = [arg EXCEPT ![l] = None, ![w] = arg[l]]
    /\ job' = [job EXCEPT ![l] = "none",
                          ![w] = IF l = NewListener THEN "make" ELSE "remove"]
    /\ UNCHANGED <<redis, pubsub, mx, obj, todo, mutexes, clusters, objects, servers, env,
                   announced>>

-----------------------------------------------------------------------------
(* A mutant of HasNoMutex: ClusterMutex makes a mutex every time.          *)
HasNoMutexEver(p) == TRUE

HasNoMutex(p) == clusterMu[p] = None

(* ClusterMutex(port): a check, a store and a load, none of them locked.   *)
MutexCheck(t) ==
    /\ pc[t] = "mutex_check"
    /\ Goto(t, IF HasNoMutex(arg[t]) THEN "mutex_store" ELSE "mutex_load")
    /\ UNCHANGED <<redis, pubsub, arg, job, mx, obj, todo, mutexes, clusters, objects, servers,
                   env, announced>>

MutexStore(t) ==
    /\ pc[t] = "mutex_store"
    /\ \E m \in Lowest(arg[t], FreeMutex) : clusterMu' = [clusterMu EXCEPT ![arg[t]] = m]
    /\ Goto(t, "mutex_load")
    /\ UNCHANGED <<redis, pubsub, arg, job, mx, obj, todo, holder, clusters, objects, servers,
                   env, announced>>

MutexLoad(t) ==
    /\ pc[t] = "mutex_load"
    /\ IF job[t] = "ensure"
       THEN Goto(t, "spawn") /\ mx' = mx
       ELSE Goto(t, "lock") /\ mx' = [mx EXCEPT ![t] = clusterMu[arg[t]]]
    /\ UNCHANGED <<redis, pubsub, arg, job, obj, todo, mutexes, clusters, objects, servers,
                   env, announced>>

(* mu.Lock() of MakeCluster and RemoveCluster *)
Lock(t) ==
    /\ pc[t] = "lock"
    /\ holder[mx[t]] = None
    /\ holder' = [holder EXCEPT ![mx[t]] = t]
    /\ Goto(t, "lookup")
    /\ UNCHANGED <<redis, pubsub, arg, job, mx, obj, todo, clusterMu, clusters, objects, servers,
                   env, announced>>

(* The first read of Clusters[port].  RemoveCluster uses the value it      *)
(* read, or returns an error; MakeCluster allocates a cluster when there   *)
(* is none and reads the map again when there is one.                      *)
RemoveAbsent(t) ==
    /\ pc[t] = "lookup" /\ job[t] = "remove"
    /\ clusters[arg[t]] = None
    /\ Goto(t, "unlock")
    /\ UNCHANGED <<redis, pubsub, arg, job, mx, obj, todo, mutexes, clusters, objects, servers,
                   env, announced>>

RemoveFound(t) ==
    /\ pc[t] = "lookup" /\ job[t] = "remove"
    /\ clusters[arg[t]] # None
    /\ obj' = [obj EXCEPT ![t] = clusters[arg[t]]]
    /\ Goto(t, "teardown")
    /\ UNCHANGED <<redis, pubsub, arg, job, mx, todo, mutexes, clusters, objects, servers, env,
                   announced>>

MakeNew(t) ==
    /\ pc[t] = "lookup" /\ job[t] = "make"
    /\ clusters[arg[t]] = None
    /\ \E c \in Lowest(arg[t], FreeObject) :
          /\ obj' = [obj EXCEPT ![t] = c]
          /\ backends' = [backends EXCEPT ![c] = {}]
          /\ impl' = [impl EXCEPT ![c] = None]
          /\ objHolder' = [objHolder EXCEPT ![c] = None]
    /\ Goto(t, "refresh")
    /\ UNCHANGED <<redis, pubsub, arg, job, mx, todo, mutexes, clusters, servers, env, announced>>

MakeUpdate(t) ==
    /\ pc[t] = "lookup" /\ job[t] = "make"
    /\ clusters[arg[t]] # None
    /\ Goto(t, "fetch")
    /\ UNCHANGED <<redis, pubsub, arg, job, mx, obj, todo, mutexes, clusters, objects, servers,
                   env, announced>>

(* A mutant of BeforeRefresh: the old server is not shut down.             *)
NothingBeforeRefresh == "refresh"

BeforeRefresh == "teardown"

Fetch(t) ==
    /\ pc[t] = "fetch"
    /\ clusters[arg[t]] # None
    /\ obj' = [obj EXCEPT ![t] = clusters[arg[t]]]
    /\ Goto(t, BeforeRefresh)
    /\ UNCHANGED <<redis, pubsub, arg, job, mx, todo, mutexes, clusters, objects, servers, env,
                   announced>>

(* cluster.Teardown() on a nil cluster *)
FetchNil(t) ==
    /\ pc[t] = "fetch"
    /\ clusters[arg[t]] = None
    /\ Crash

-----------------------------------------------------------------------------
(* A mutant of ClusterFree: Refresh and Teardown do not lock c.mu.         *)
ClusterFreeAlways(t) == TRUE

(* c.mu.Lock() of Refresh and Teardown *)
ClusterFree(t) == objHolder[obj[t]] = None

(* Teardown and ShutdownServer.  Shutdown closes the listeners the server  *)
(* tracks, then waits for its connections for at most 5 s; only a server   *)
(* that was accepting can still have any.                                  *)
Teardown(t) ==
    /\ pc[t] = "teardown"
    /\ ClusterFree(t)
    /\ objHolder' = [objHolder EXCEPT ![obj[t]] = t]
    /\ Goto(t, "shutdown")
    /\ UNCHANGED <<redis, pubsub, arg, job, mx, obj, todo, mutexes, clusters, backends, impl,
                   servers, env, announced>>

Shutdown(t) ==
    LET s == impl[obj[t]] IN
    /\ pc[t] = "shutdown"
    /\ s # None
    /\ hasServer[s]
    /\ stopping' = [stopping EXCEPT ![s] = TRUE]
    /\ serve' = [serve EXCEPT ![s] = IF @ = "listening" THEN "closed" ELSE @]
    /\ Goto(t, "drain")
    /\ UNCHANGED <<redis, pubsub, arg, job, mx, obj, todo, mutexes, clusters, objects, hasServer,
                   env, announced>>

(* p.server.Shutdown(ctx) with p.server nil *)
ShutdownNil(t) ==
    LET s == impl[obj[t]] IN
    /\ pc[t] = "shutdown"
    /\ s # None
    /\ ~hasServer[s]
    /\ Crash

AfterTeardown(t) ==
    /\ objHolder' = [objHolder EXCEPT ![obj[t]] = None]
    /\ Goto(t, IF job[t] = "make" THEN "refresh" ELSE "register")
    /\ UNCHANGED <<redis, pubsub, arg, job, mx, obj, todo, mutexes, clusters, backends, impl,
                   stopping, serve, env, announced>>

Drained(t) ==
    /\ pc[t] = "drain"
    /\ hasServer' = [hasServer EXCEPT ![impl[obj[t]]] = FALSE]
    /\ AfterTeardown(t)

DrainTimeout(t) ==
    /\ pc[t] = "drain"
    /\ serve[impl[obj[t]]] = "closed"
    /\ hasServer' = hasServer
    /\ AfterTeardown(t)

-----------------------------------------------------------------------------
(* Refresh: c.mu, LRANGE, GET of the configuration, StartServer.           *)
Refresh(t) ==
    /\ pc[t] = "refresh"
    /\ ClusterFree(t)
    /\ objHolder' = [objHolder EXCEPT ![obj[t]] = t]
    /\ Goto(t, "lrange")
    /\ UNCHANGED <<redis, pubsub, arg, job, mx, obj, todo, mutexes, clusters, backends, impl,
                   servers, env, announced>>

(* Refresh returns an error: MakeCluster returns without registering.      *)
RefreshFails(t) ==
    /\ objHolder' = [objHolder EXCEPT ![obj[t]] = None]
    /\ Goto(t, "unlock")

(* A mutant of NewBackends: the list grows instead of being replaced.      *)
AddedBackends(t) == backends[obj[t]] \cup frontend[arg[t]]

NewBackends(t) == frontend[arg[t]]

(* A mutant of NoBackends: the empty list is no error.                     *)
NoBackendsAllowed(t) == FALSE

NoBackends(t) == NewBackends(t) = {}

LRange(t) ==
    /\ pc[t] = "lrange"
    /\ backends' = [backends EXCEPT ![obj[t]] = NewBackends(t)]
    /\ \/ NoBackends(t) /\ RefreshFails(t)
       \/ ~NoBackends(t) /\ Goto(t, "config") /\ objHolder' = objHolder
    /\ UNCHANGED <<redis, pubsub, arg, job, mx, obj, todo, mutexes, clusters, impl, servers, env,
                   announced>>

(* The error is logged and dropped: nothing tries this refresh again.      *)
LRangeError(t) ==
    /\ pc[t] = "lrange"
    /\ env < MaxEnv /\ env' = env + 1
    /\ RefreshFails(t)
    /\ announced' = [announced EXCEPT ![arg[t]] = FALSE]
    /\ UNCHANGED <<redis, pubsub, arg, job, mx, obj, todo, mutexes, clusters, backends, impl,
                   servers>>

(* The factory of the protocol makes a new HttpProtocol, StartServer gives *)
(* it an http.Server and starts the goroutine that will listen.            *)
StartServer(t) ==
    /\ \E s \in Lowest(arg[t], FreeServer) :
          /\ impl' = [impl EXCEPT ![obj[t]] = s]
          /\ hasServer' = [hasServer EXCEPT ![s] = TRUE]
          /\ stopping' = [stopping EXCEPT ![s] = FALSE]
          /\ serve' = [serve EXCEPT ![s] = "spawned"]
    /\ objHolder' = [objHolder EXCEPT ![obj[t]] = None]
    /\ Goto(t, "register")
    /\ UNCHANGED <<redis, pubsub, arg, job, mx, obj, todo, mutexes, clusters, backends, announced>>

(* json.Unmarshal decodes the configuration into the Cluster itself, so    *)
(* that a key "backends" or "port" would replace the list that was just    *)
(* counted, or the port.  The model takes it to name settings only.  That  *)
(* the factory returns nil (clusters.go:176) cannot happen for "http".     *)
GetConfig(t) ==
    /\ pc[t] = "config"
    /\ supported[arg[t]]
    /\ env' = env
    /\ StartServer(t)

(* On an error of GET the defaults apply, and "http" is registered.        *)
GetConfigError(t) ==
    /\ pc[t] = "config"
    /\ env < MaxEnv /\ env' = env + 1
    /\ StartServer(t)

GetConfigUnsupported(t) ==
    /\ pc[t] = "config"
    /\ ~supported[arg[t]]
    /\ RefreshFails(t)
    /\ UNCHANGED <<redis, pubsub, arg, job, mx, obj, todo, mutexes, clusters, backends, impl,
                   servers, env, announced>>

(* Clusters[port] = cluster at the end of MakeCluster, = nil at the end of *)
(* RemoveCluster                                                           *)
Assign(t, j, c) ==
    /\ pc[t] = "register" /\ job[t] = j
    /\ clusters' = [clusters EXCEPT ![arg[t]] = c]
    /\ Goto(t, "unlock")
    /\ UNCHANGED <<redis, pubsub, arg, job, mx, obj, todo, mutexes, objects, servers, env,
                   announced>>

(* A mutant of Register: the cluster is not put in the registry.           *)
RegisterMissing(t) == Assign(t, "make", clusters[arg[t]])

Register(t) == Assign(t, "make", obj[t])

Unregister(t) == Assign(t, "remove", None)

(* A mutant of Released: no deferred mu.Unlock().                          *)
StillHeld(t) == holder

Released(t) == [holder EXCEPT ![mx[t]] = None]

(* the deferred mu.Unlock(), and the end of the goroutine                  *)
Unlock(t) ==
    /\ pc[t] = "unlock"
    /\ holder' = Released(t)
    /\ mx' = [mx EXCEPT ![t] = None]
    /\ obj' = [obj EXCEPT ![t] = None]
    /\ arg' = [arg EXCEPT ![t] = None]
    /\ job' = [job EXCEPT ![t] = "none"]
    /\ Goto(t, IF t = Main THEN "next" ELSE "idle")
    /\ UNCHANGED <<redis, pubsub, todo, clusterMu, clusters, objects, servers, env, announced>>

-----------------------------------------------------------------------------
(* The goroutine of StartServer: p.server.ListenAndServe(), that is the    *)
(* check for a shutdown, net.Listen, and Serve, which checks again.        *)
Bound(p) == \E s \in Heap : s[1] = p /\ serve[s] \in {"bound", "listening"}

ServeAdvances(s, from, to) ==
    /\ serve[s] = from
    /\ serve' = [serve EXCEPT ![s] = to]
    /\ UNCHANGED <<redis, pubsub, threads, todo, mutexes, clusters, objects, hasServer, stopping,
                   env, announced>>

ServeCheck(s) == hasServer[s] /\ ServeAdvances(s, "spawned", IF stopping[s] THEN "off" ELSE "checked")

(* p.server is nil when the goroutine gets to run                          *)
ServeNil(s) == serve[s] = "spawned" /\ ~hasServer[s] /\ Crash

ServeListen(s) == ServeAdvances(s, "checked", IF Bound(s[1]) THEN "off" ELSE "bound")

ServeTrack(s) == ServeAdvances(s, "bound", IF stopping[s] THEN "off" ELSE "listening")

-----------------------------------------------------------------------------
(* Two goroutines about to touch the same Go map, one of them to write it: *)
(* the steps above are the outcomes where the accesses fall one after the  *)
(* other, this is the one where the runtime notices the overlap.  At       *)
(* "register" a goroutine is about to write, or to read again what it      *)
(* wrote (clusters.go:91, 94); it dies of either with the same outcome.    *)
MapRace(t, u) ==
    /\ t # u
    /\ \/ pc[t] = "mutex_store" /\ pc[u] \in {"mutex_check", "mutex_store", "mutex_load"}
       \/ pc[t] = "register" /\ pc[u] \in {"lookup", "fetch", "register"}
    /\ Crash

-----------------------------------------------------------------------------
(* The environment: other programs edit and publish in Redis, and the      *)
(* connection of a subscriber may break, which loses what was under way.   *)
EnvStep == env < MaxEnv /\ env' = env + 1

EditFrontend(p, b) ==
    /\ EnvStep
    /\ b # frontend[p]
    /\ frontend' = [frontend EXCEPT ![p] = b]
    /\ announced' = [announced EXCEPT ![p] = FALSE]
    /\ UNCHANGED <<supported, pubsub, threads, todo, mutexes, clusters, objects, servers>>

EditConfig(p) ==
    /\ EnvStep
    /\ supported' = [supported EXCEPT ![p] = ~@]
    /\ announced' = [announced EXCEPT ![p] = FALSE]
    /\ UNCHANGED <<frontend, pubsub, threads, todo, mutexes, clusters, objects, servers>>

Publish(l, p) ==
    /\ EnvStep
    /\ l = DownListener => p \in RemovePorts
    /\ inbox' = [inbox EXCEPT ![l] = IF subscribed[l] THEN Append(@, p) ELSE @]
    /\ announced' = [announced EXCEPT ![p] = @ \/ (l = NewListener /\ subscribed[l])]
    /\ UNCHANGED <<redis, subscribed, threads, todo, mutexes, clusters, objects, servers>>

Disconnect(l) ==
    /\ EnvStep
    /\ pc[l] = "receive"
    /\ subscribed' = [subscribed EXCEPT ![l] = FALSE]
    /\ inbox' = [inbox EXCEPT ![l] = <<>>]
    /\ announced' = [p \in Ports |->
                        /\ announced[p]
                        /\ l = NewListener => \A i \in 1 .. Len(inbox[l]) : inbox[l][i] # p]
    /\ Goto(l, "subscribe")
    /\ UNCHANGED <<redis, arg, job, mx, obj, todo, mutexes, clusters, objects, servers>>

-----------------------------------------------------------------------------
Boot == GetFrontends \/ StartListeners \/ \E p \in Ports : DeployNext(p)

Listen(l) == Subscribe(l) \/ Receive(l) \/ \E w \in Workers : Spawn(l, w)

ClusterMutex(t) == MutexCheck(t) \/ MutexStore(t) \/ MutexLoad(t)

RunJob(t) ==
    \/ Lock(t) \/ RemoveAbsent(t) \/ RemoveFound(t) \/ MakeNew(t) \/ MakeUpdate(t)
    \/ Fetch(t) \/ FetchNil(t)
    \/ Teardown(t) \/ Shutdown(t) \/ ShutdownNil(t) \/ Drained(t) \/ DrainTimeout(t)
    \/ Refresh(t) \/ LRange(t) \/ GetConfig(t) \/ GetConfigUnsupported(t)
    \/ Register(t) \/ Unregister(t) \/ Unlock(t)

(* What one goroutine does *)
Run(t) ==
    \/ t = Main /\ Boot
    \/ t \in Listeners /\ Listen(t)
    \/ ClusterMutex(t) \/ RunJob(t)

RedisError(t) == LRangeError(t) \/ GetConfigError(t)

Serve(s) == ServeCheck(s) \/ ServeNil(s) \/ ServeListen(s) \/ ServeTrack(s)

Environment ==
    \/ \E p \in Ports : EditConfig(p) \/ \E b \in SUBSET Backends : EditFrontend(p, b)
    \/ \E l \in Listeners : Disconnect(l) \/ \E p \in Ports : Publish(l, p)

Next ==
    \/ \E t \in Threads : Run(t) \/ RedisError(t)
    \/ \E t, u \in Threads : MapRace(t, u)
    \/ \E s \in Heap : Serve(s)
    \/ Environment

Spec == Init /\ [][Next]_vars

(* Go runs every goroutine that can run, and sync.Mutex does not starve a  *)
(* waiter: strong fairness for the jobs, since the mutex of a job may be   *)
(* taken again and again.  Shutdown is bounded by its timeout, calls to    *)
(* Redis by the client's, and the container restarts.  Nothing is assumed  *)
(* of the environment or of Redis errors.                                  *)
Fairness ==
    /\ \A t \in {Main} \cup Listeners : WF_vars(Run(t))
    /\ \A w \in Workers : SF_vars(Run(w))
    /\ WF_vars(\E s \in Heap : Serve(s))

FairSpec == Spec /\ Fairness

-----------------------------------------------------------------------------
(* Properties.  SafePorts are the ports nobody asks to remove: only main   *)
(* and the new_frontend listener create their mutex.                       *)
SafePorts == Ports \ RemovePorts

Busy == {"lookup", "fetch", "teardown", "shutdown", "drain", "refresh", "lrange", "config",
         "register", "unlock"}

InSection(t) == pc[t] \in Busy

(* What cluster_mu is for (clusters.go:51): no two goroutines are between  *)
(* mu.Lock() and mu.Unlock() for the same port.  It rests on the listener  *)
(* creating the mutex before the goroutine starts (main.go:83).            *)
ExclusiveOn(P) ==
    \A t, u \in Threads :
        InSection(t) /\ InSection(u) /\ arg[t] = arg[u] /\ arg[t] \in P => t = u

PortExclusion == ExclusiveOn(SafePorts)

(* The same for every port, as the comment of cluster_mu has it.           *)
EveryPortExclusion == ExclusiveOn(Ports)

(* Where two goroutines do get at one port at once, c.mu still keeps their *)
(* Refresh and Teardown of one cluster apart.                              *)
InCluster == {"shutdown", "drain", "lrange", "config"}

ClusterExclusion ==
    \A t, u \in Threads :
        pc[t] \in InCluster /\ pc[u] \in InCluster /\ obj[t] = obj[u] => t = u

(* No lock outlives the call that took it, whatever fails inside: a held   *)
(* mutex is held by a goroutine that is on its way to release it.          *)
LocksAreOwned ==
    /\ \A m \in Heap : holder[m] # None =>
          InSection(holder[m]) /\ mx[holder[m]] = m
    /\ \A c \in Heap : objHolder[c] # None =>
          pc[objHolder[c]] \in InCluster /\ obj[objHolder[c]] = c

(* A server that accepts or will accept connections belongs to a cluster   *)
(* somebody can still tear down: one in the registry, or one that a        *)
(* goroutine is working on.  Otherwise its port is lost until a restart.   *)
Live(s) == serve[s] \in {"spawned", "checked", "bound", "listening"} /\ ~stopping[s]

OwnerOf(s) == {c \in Heap : impl[c] = s}

Reachable(c) == clusters[c[1]] = c \/ \E t \in Threads : InSection(t) /\ obj[t] = c

NoOrphanServer ==
    \A s \in Heap : s[1] \in SafePorts /\ Live(s) => \E c \in OwnerOf(s) : Reachable(c)

(* A port never has two servers that are both meant to serve it: the       *)
(* update of a cluster shuts the old server down before it starts another. *)
OneLiveServer ==
    \A s, u \in Heap : s[1] = u[1] /\ s[1] \in SafePorts /\ Live(s) /\ Live(u) => s = u

(* The handler picks c.Backends[rand.Intn(len(c.Backends))], which panics  *)
(* on an empty list (http_protocol.go:161): no server that accepts         *)
(* connections reads the empty list a failed Refresh leaves behind.        *)
ServingHasBackends ==
    \A s \in Heap : s[1] \in SafePorts /\ Live(s) =>
        \A c \in OwnerOf(s) : backends[c] # {}

(* What the requests of a port get to see of all this is the service that  *)
(* PortService describes: while a server is live nobody touches the list   *)
(* its handler picks from, and no server is started with a list that was   *)
(* read before the server it replaces was shut down, however goroutines,   *)
(* failures, late listeners and crashes interleave.                        *)
Serving(p) == {backends[c] : c \in {c \in Heap : c[1] = p /\ impl[c] # None /\ Live(impl[c])}}

Fetched(p) == {backends[obj[t]] : t \in {t \in Threads : pc[t] = "config" /\ arg[t] = p}}

Service == INSTANCE PortService WITH
    Ports <- SafePorts,
    frontend <- [p \in SafePorts |-> frontend[p]],
    serving <- [p \in SafePorts |-> Serving(p)],
    fetched <- [p \in SafePorts |-> Fetched(p)]

IsService == Service!Spec

(* The mutex of a port is created once: a goroutine that took it out of    *)
(* cluster_mu and one that looks later lock the same one.                  *)
MutexStable ==
    [][\A p \in SafePorts : clusterMu[p] # None => clusterMu'[p] \in {clusterMu[p], None}]_vars

(* Teardown checks for a cluster that has nothing to shut down             *)
(* (clusters.go:187); past the check p.server should be there.             *)
NoNilShutdown ==
    \A t \in Threads : pc[t] = "shutdown" => hasServer[impl[obj[t]]]

(* The registry catches up with Redis: when the content of a frontend      *)
(* stops changing after it was announced (by the startup scan or by a      *)
(* message that reached the subscription), the cluster of the port ends up *)
(* with exactly these backends, behind a server that was not shut down.    *)
UpToDate(p) ==
    /\ clusters[p] # None
    /\ backends[clusters[p]] = frontend[p]
    /\ impl[clusters[p]] # None
    /\ ~stopping[impl[clusters[p]]]

Owed(p) == announced[p] /\ frontend[p] # {} /\ supported[p]

ToRead == {"spawn", "mutex_check", "mutex_store", "mutex_load", "lock", "lookup", "fetch",
           "teardown", "shutdown", "drain", "refresh", "lrange"}

Coming(p) ==
    \/ p \in todo
    \/ \E i \in DOMAIN inbox[NewListener] : inbox[NewListener][i] = p
    \/ \E t \in Threads : arg[t] = p /\ pc[t] \in ToRead

Settling(p) ==
    \E t \in Threads :
        /\ arg[t] = p /\ backends[obj[t]] = frontend[p]
        /\ \/ pc[t] = "config"
           \/ pc[t] = "register" /\ impl[obj[t]] # None /\ ~stopping[impl[obj[t]]]

(* No announced change is lost on its way from Redis to the server: the    *)
(* port is still to be deployed by main, its message is in the inbox, a    *)
(* goroutine has yet to read the list, or is about to register a cluster   *)
(* with the list as it is now; or else the registry has caught up.  It is  *)
(* what Convergence promises but for the progress of the goroutines.       *)
NoUpdateIsLost == \A p \in SafePorts : Owed(p) => Coming(p) \/ Settling(p) \/ UpToDate(p)

Convergence == \A p \in SafePorts : <>[](Owed(p) => UpToDate(p))
=============================================================================
