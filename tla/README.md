# A TLA+ model of dynamic-load-balancer

The repository holds four interchangeable load balancers that take their
backends from Redis at run time, and a watcher that keeps Redis in step with
the mountebank containers Docker runs. This directory models the parts of it
that keep state: what goroutines, callbacks, nginx workers and separate
processes do to Redis, to one another and to what they cache.

* `*.tla` without a prefix: one module per component;
* `MC*.tla` and `*.cfg`: small instances for TLC;
* `*Proofs.tla`: theorems, checked by TLAPS for every value of the constants,
  and `DataLemmas.tla`, the lemmas several of them need;
* `PROJECT.json`: for every definition the lines of the source it stands for,
  the runs, the hazards, the findings and, for each property, a plausible bug
  (a "mutant") that breaks it.

```
tlc -config registry_safety.cfg MCClusterRegistry
tlapm ClusterRegistryProofs.tla
```

## 1. The system

All programs meet in Redis: the list `frontend:<port>` holds the URLs behind a
port, `frontend_config:<port>` its settings, `mountebank_pool` the mountebank
endpoints, `dead:<port>` (nginx-hipache only) backends known to be dead; the
channels `new_frontend` and `remove_frontend` carry port numbers.

```
 Docker --events--> watcher ----LREM/RPUSH----> Redis <----LRANGE---- go-hipache, nginx-hipache,
                    deployer --DEL/LREM/RPUSH-->  |                   nginx-custom
                       |   \------PUBLISH-------> |--new_frontend---> go-proxy --LRANGE/GET--> Redis
                       v                          \--remove_frontend-> go-proxy
                   mountebank (DELETE/POST imposters)
```

| Component | State it keeps | Operations | What makes it correct |
|---|---|---|---|
| **go-proxy, registry** (`main.go`, `clusters.go`, `ShutdownServer`/`StartServer` of `http_protocol.go`) | `Clusters`, `cluster_mu`, per cluster a mutex, `Backends` and a protocol with an `http.Server` | startup scan, two pub/sub listeners, `ClusterMutex`, `MakeCluster`, `RemoveCluster`, `Refresh`, `Teardown` | one goroutine per port at a time; one live server per port, always reachable from the registry; a served cluster has backends; the registry catches up with Redis |
| **go-proxy, requests** (`http_protocol.go`) | a response cache per server; of the cluster `CacheEnabled` and `Backends` | `request_handler`, `ModifyResponse`, against `Teardown` and `Refresh` | a response is cached under its own request only, and never outlives its backend's place in the cluster; no live server drops a request |
| **go-hipache** (`hipache.go`) | a cache of lists with a lifetime of five minutes | one goroutine per request | no list is served longer than its lifetime after it was edited away |
| **nginx-hipache** (`hipache.lua`) | an LRU cache per worker, no lifetime | `go()` | a port with backends is served |
| **nginx-custom** (`ht.c`, `ngx_http_custom_module.c`) | a hash table; a shared memory zone that is set up and then not used; per request the chosen backend | `ht_*`; the variable handler, which asks Redis for every request | the table is a map, its probe loops end; the handler is a lookup in Redis, and ends |
| **watcher, pool** (`index.js`, `mountebankPool.js`, `containers.js`, `watchDockerEvents.js`) | none of its own: two Redis lists | `addMountebankInstance`, `dropMountebankInstance` per Docker event | a healthy container is listed once, a stopped one not at all |
| **deployer** (`deployer.js`) | none of its own: a frontend list and the imposters | `deployService` with one `deployImposter` per instance | an endpoint that is listed has its imposter; what is published is complete |
| static nginx configuration, port ranges, durations, settings | none | pure functions | the range that is parsed is the range that is served |

What is hard here: go-proxy starts a goroutine per message and guards its maps
only in part; the goroutine that listens runs after `StartServer` has
returned; the watcher's calls interleave at every `await` and nothing keeps
two calls for one container apart; caches are filled by replies that may
arrive in another order than Redis gave them; go-proxy's requests read fields of the
cluster that a refresh edits; nginx-custom blocks a whole worker for each
lookup; pub/sub and the event stream of
Docker lose what is sent while nobody listens; every process may be killed and
restarted between any two steps. `PROJECT.json` lists these hazards one by
one, at the line where they bite.

## 2. The modules

| Module | Models | State and actions |
|---|---|---|
| `ClusterRegistry` | go-proxy's control plane, with its Redis, pub/sub connections, and process crashes | `pc[t]`, `arg[t]`, `mx[t]`, `obj[t]` are a goroutine's program counter and locals; `clusterMu`, `clusters` the two Go maps; `holder`, `objHolder` the two levels of mutexes; `backends`, `impl` the fields of a cluster; `hasServer`, `stopping`, `serve` the HTTP server and the goroutine that listens. Every access to a map, lock operation and call to Redis is an action. |
| `PortService` | what go-proxy promises to the requests of a port | per port the frontend's list, the list that was fetched last and the lists that live servers pick from. `ClusterRegistry` implements it under `Serving` and `Fetched`. |
| `KeyValueMap`, `HashTable` | what `ht.h` promises, and `ht.c` | `entries`, `capacity`, `length`, the iterator; one action per call. `KeyValueMap` is the abstract specification, `HashTable` implements it under `map[k] = ` what `ht_get(k)` finds. |
| `ResponseCache` | go-proxy's requests and caches, against the updates of their cluster | `req[r]` is a request at each point where it reads a field of the cluster or the cache; `cache[s]` belongs to a server, `backends` and `cacheEnabled` to the cluster; `update` is the step `MakeCluster` is at, `stopped` the servers that were shut down. |
| `BackendLookup`, `CustomBackend` | what a load balancer that asks Redis for each request promises, and the nginx module | `locs` and `conf` are the configurations of the blocks and of a worker, `queue` the shared cache; `handler[w]` the variable handler's locals, `link[w]` its connection, `req[w][q]` a request with the backend its context remembers. `told` is a history variable: what Redis could have answered so far. `BackendLookup` is the abstract specification, implemented under `Lookup`. |
| `MountebankPool` | the watcher's event stream, handlers and calls, with Docker as its environment | `pool`, `front` are the Redis lists; `status` and `events` belong to Docker; `call[k]` is a call between two awaits; one action per await. |
| `HipacheCache` | go-hipache's requests and cache, with time | `cache` holds a list and the ticks it has left; `req[r]` a request and the reply on its way to it; `since[l]` counts the ticks since the frontend was last `l`. |
| `LuaCache` | nginx-hipache's workers | `cache[w]` is a worker's LRU queue; a request yields only around its exchange with Redis, so hits are one action and misses three. |
| `Deployer` | runs of `deploy.js` | `list`; `imposter[i]`, the run that put it there; `dep[d]` with the step of every task; one action per request to mountebank or Redis. `alone` and `hurt` of a run, and `apart`, are history variables. |
| `RedisLists` | the Redis lists of the two modules above (`MountebankPool`, `Deployer`) | no state: `Without` is LREM, `Copies` counts. |

`MC<module>` extends its module with the small sets the runs use.

### Choices worth knowing

* *Crashes.* A nil dereference and Go's fatal error on concurrent map writes
  are outcomes of the model: `FetchNil`, `ShutdownNil`, `ServeNil` and
  `MapRace` reset the memory of go-proxy and keep Redis, as `restart:
  unless-stopped` does. `MapRace` is enabled where two goroutines are about to
  touch one map and one of them writes; the ordinary steps are the outcomes in
  which the runtime does not notice.
* *Heap.* Mutexes, clusters and servers are `<<port, index>>`; an object that
  nothing refers to may be allocated again, lowest index first. `HeapSize` is
  one more than the environment's steps: every server is asked for by a
  message, but for the first one, so that no allocation is ever blocked.
* *Ports that may be removed.* Only main and the `new_frontend` listener make a
  mutex before the goroutine starts. With `remove_frontend` two goroutines may
  each make one, so the safety properties of the registry are stated for
  `SafePorts`, the ports nobody asks to remove; the run `registry_exclusion`
  shows that the restriction is needed. `ClusterExclusion` and `LocksAreOwned`
  say what is left for the other ports.
* *Requests and updates.* `ResponseCache` takes one update at a time, and an
  update changes the list only between the shutdown of a server and the start of
  the next. That is what `PortService` says and `IsService` shows of the
  registry, for the ports nobody removes. A connection is opened before its
  request comes: a server that is shut down still answers it. That a drain
  times out is the only way for two servers of a cluster to be in use at once.
  A body is its kind, `Hash` any function of kinds, so that checksums collide.
  Requests that outlive their server are dropped with its cache (`End`), which
  only keeps the state space small: nobody else can reach that cache.
* *Blocking calls.* Between the two ends of a lookup a worker of nginx does
  nothing else (`Unblocked`), so two requests of one worker interleave only
  while one of them waits for its backend. `redisConnect` and each
  `redisCommand` are actions of their own, because Redis may change between.
* *The queue of replies* in shared memory is never filled (`1 == 2` in the
  code); what reads it, expires it and hands it on at a reload is modelled, and
  the mutant of `Stores` shows that filling it would break `IsLookup`.
* *Lists.* A list of backends is the set of its URLs where order and copies do
  not matter (go-proxy, the caches pick at random), and a sequence where they
  do (`pool`, `front`, the deployer's `list`).
* *Data.* Ports, URLs, containers and keys are model values. A response body,
  the rewrite of a URI, log lines and the text of configurations are left out.
  `supported[p]` is all that matters of `frontend_config:<port>` here, under an
  assumption about whoever writes it: `Refresh` decodes the JSON into the whole
  `Cluster` (`clusters.go:157`), so a key `backends` would replace the list after
  it was counted, and `port` the port. Nothing in the repository writes such a
  key, and the models take a configuration to name settings only; with one that
  names `backends`, `ServingHasBackends`, `IsService` and `LiveServerAnswers`
  would not hold. Likewise `frontend:<port>` and `dead:<port>` hold a list and a
  set: for a key of another type `hipache.lua` would take the error in the reply
  of `EXEC`, whose length is 2, for a list of backends.
* *Redis commands that are sent again.* When a connection breaks before the reply,
  ioredis sends the command again, and gives up after some reconnects. For `LREM`,
  `DEL` and `PUBLISH` a second time changes nothing; an `RPUSH` that took effect
  twice leaves two copies (`Resend` of `MountebankPool`, `RPush` of `Deployer`).
  An `RPUSH` that took effect and then failed is in both models too.
* *The health of a container.* A container that starts is neither healthy nor
  unhealthy; `index.js` hears of its first health status in either direction. The
  health check of an add may fail at every step, whatever the state of the
  container (`Inspect`, `Look`, `Probe`), and then ends the call.
* *Requests without a Host header.* `get_port` follows a NULL pointer and the
  worker dies (`ArriveWithoutHost`); a header that names no port is answered 500.
* *Runs of the deployer that fail.* `deploy.js:22` logs the error and nothing
  more: `process.exit` is on the way of success only, and the connection of
  `mountebankPool.js:6` keeps the process alive. Such a run stays in its slot, as
  "failed", until it is killed, which is not counted as a fault; it makes no
  further step, so it overlaps nobody (`Active`). `StartFails` is a run whose pool
  is empty or cannot be read. `MASTER_NGINX` only changes the URL under which a
  mountebank is reached (`deployer.js:61-63`), so it is not in the model, nor is
  `REDIS_HOST` unset. A request of a killed run has taken effect before the kill
  or never does: every run first waits five seconds (`deploy.js:12`).
* *Configuration of deploys.* An instance the pool holds twice (the watcher's
  adds can interleave between `LREM` and `RPUSH` and leave it so) is left out
  of `Deployer`'s pools: its two tasks would delete each other's imposter.
* *ht_remove* is in `ht.c` but not in `ht.h`, and has no caller. It is an
  action like the others; once it has removed an entry `KeyValueMap` promises
  nothing more, since it leaves the length alone and cuts the chain other keys
  were probed along. That the probe loops still end is checked.

## 3. The runs

| Run | Expect | Shows | Bounds |
|---|---|---|---|
| `registry_safety` | pass | `PortExclusion`, `NoOrphanServer`, `OneLiveServer`, `ServingHasBackends`, `MutexStable` of a port that is only made; `ClusterExclusion`, `LocksAreOwned` of all: where the port's mutex fails, the cluster's still keeps `Refresh` and `Teardown` apart, and no failure leaves a lock behind | two ports, one of which may be removed; two job slots, main, two listeners; 4 environment steps (edits, messages, disconnects, Redis errors), but only one where both ports are in use (`OnePortAtLength`); about 860,000 states |
| `registry_converge` | pass | `Convergence`: after the last announced change the cluster has the backends of Redis and a server nobody shut down; `NoUpdateIsLost`: on the way there the change is always somewhere between Redis and the registry; `IsService` (refinement of `PortService`) | one port, two URLs, 3 environment steps, fairness; 328,500 states |
| `registry_exclusion` | violation | `EveryPortExclusion`, what the comment on `cluster_mu` says | one removable port |
| `registry_nil_server` | violation | `NoNilShutdown`, what `Teardown`'s check for a cluster with nothing to shut down is there for | one port, only made |
| `hashtable` | pass | `IsMap` (refinement of `KeyValueMap`), `ProbesEnd`, `LengthIsCount`, `IterationIsComplete` | 4 slots growing to 8; 4 keys of which three share a home slot, the last one, and one has the first: collisions, wrap-around, rehash |
| `pool` | pass | `LoneCallsAreExact`, `CallsEnd` | two containers, two calls in flight, 5 changes of a container's state, one fault (a lost stream, a command that fails or is sent twice); 281,000 states |
| `pool_stopped` | violation | `StoppedLeavePool`, what the comment on the watcher in the compose file says | one container, two calls, no fault |
| `hipache` | pass | `BoundedStaleness`, `CacheCatchesUp` | lifetime 2, reply time 2, two requests, two URLs, 2 edits |
| `lua_cache` | pass | `BackendsAreFound` | two ports in a cache of one entry, two requests, 3 edits, workers that die |
| `deploy_safety` | pass | `ListedIsDeployed`, `PublishedIsComplete`, `RunsSettle` | two instances, pools of one and of both, 3 runs in 2 slots, one failed or repeated request or kill, fairness; 468,000 states |
| `custom` | pass | `IsLookup` (refinement of `BackendLookup`), `HeaderNamesBackend`, `ConnectionsAreClosed`, `RequestsEnd` | one worker with two requests, one port and the status 500 that stands for a missing one, two backends, the four blocks of `nginx.conf`, 2 events (edits, states of Redis, reloads, dead workers), fairness; 224,000 states |
| `response_cache` | pass | `OwnResponse`, `HitsAreCurrent`, `LiveServerAnswers` | two requests of two kinds, two backends, two servers; 1,860,000 states up to symmetry. The kinds have checksums of their own: collisions are left to the proof, which is for any checksum |

Every passing run also checks its module's `TypeOK`. Deadlock is not checked
where the environment's bound lets the system come to rest.

Why the bounds are enough for what is asked: the races need two goroutines, or
two calls, on one port or container, and a third one only repeats the
situation of the second; three or four environment steps allow an edit, its
message and a fault or a second message, which is what it takes to run an
update behind another one, with an error in the middle, and, with the startup
scan, both an old and a new server; one port is enough since ports share
nothing but the two Go maps, whose races end the process whatever the port; a
table of 8 slots grows once with entries in it, which wrapped around before it
grew; two servers are the one that is being replaced and the one after it; two events break Redis and mend it,
or edit a list behind a failure; three runs of the deployer are two that overlap,
or one that fails, and one that
finds what they left; the constraint `OnePortAtLength` lets two
ports meet in the shared maps and follows each of them further alone; a lifetime and a reply time of two ticks tell "older than both together"
from "older than one of them".

**Fairness.** *go-proxy:* strong fairness for each job, since `sync.Mutex`
hands a mutex to a waiter that has starved; weak fairness for main, the two
listeners and the goroutines that listen, which Go's scheduler gives. Shutdown
has a timeout of five seconds and the Redis client its own. Nothing is assumed
of the environment, or of Redis errors. *watcher:* weak fairness for every
call and for reopening the stream, which Node's event loop gives; `CallsEnd`
assumes that the container stays healthy, since the wait for one that does not
counts no attempts. *go-hipache:* time passes and goroutines run.
*nginx-hipache:* a request that waits for Redis gets an answer or an error.
*nginx-custom:* weak fairness for a worker's handler and for the replacement
of an old worker; strong fairness for each request, since the event loop comes
to every connection that is ready and nginx has timeouts for its upstreams.
`RequestsEnd` is under the premise that Redis is not silent for ever, because
neither `redisConnect` nor `redisCommand` has a timeout; for the same reason
the run does not check deadlock. *deployer:* mountebank and Redis answer or
fail; the code has no timeout there.

## 4. What the runs found

* **Two mutexes for one port** (`registry_exclusion`). `ClusterMutex` checks,
  stores and loads without a lock, so two goroutines started for a port without
  a mutex may each make one; `cluster_mu` is "for preventing parallel changes to
  the same port" (`clusters.go:51`).
* **Shutdown of a nil server** (`registry_nil_server`). After a `Teardown` the
  protocol stays in the cluster without its server; if the `Refresh` that
  follows fails, the next update of the port panics in `ShutdownServer`
  (`http_protocol.go:294`), behind the check meant for this case
  (`clusters.go:187`).
* **A stopped container stays in the pool** (`pool_stopped`). A `drop` that runs
  while an `add` is between its health check and its `RPUSH` is undone by it.

A server can also be reported ready and never listen: `StartServer` returns
before its goroutine binds the port, and the goroutine of the server before it
may hold it just then. The step is in the model (`ServeListen`), so `Convergence`
speaks of a server that was not shut down, not of one that listens.

Each is quoted with its lines in `PROJECT.json`.

## 5. What is proved

The theorems hold for any number of ports, goroutine slots, requests, workers,
URLs, backends, servers, containers, instances, runs, faults and environment
steps, any lifetime, any checksum, any hash function and any capacity.

| Module | Theorem | States |
|---|---|---|
| `ClusterRegistryProofs` | `TypeCorrect` | `Spec => []TypeOK` |
| | `PortsAreExclusive` | `Spec => []PortExclusion` |
| | `MutexesAreStable` | `Spec => MutexStable` |
| | `LocksHaveOwners` | `Spec => []LocksAreOwned` |
| | `ClustersAreExclusive` | `Spec => []ClusterExclusion` |
| | `ServersHaveOwners` | `Spec => []NoOrphanServer` |
| | `ServersAreAlone` | `Spec => []OneLiveServer` |
| | `ServersHaveBackends` | `Spec => []ServingHasBackends` |
| | `RegistryIsService` | `Spec => IsService` |
| | `UpdatesAreNotLost` | `Spec => []NoUpdateIsLost` |
| `HashTableProofs` | `TypeCorrect` | `Spec => []TypeOK` |
| | `EveryProbeEnds` | `Spec => []ProbesEnd` |
| | `LengthCounts` | `Spec => []LengthIsCount` |
| | `IterationShowsAll` | `Spec => []IterationIsComplete` |
| | `TableIsMap` | `Spec => IsMap` |
| `HipacheProofs` | `TypeCorrect` | `Spec => []TypeOK` |
| | `StalenessIsBounded` | `Spec => []BoundedStaleness` |
| | `LuaTypeCorrect` | `Lua!Spec => []Lua!TypeOK`, for the instance `Lua` of `LuaCache`, if `Capacity \in Nat \ {0}` |
| `ResponseCacheProofs` | `TypeCorrect` | `Spec => []TypeOK` |
| | `HitsAreOwn` | `Spec => []OwnResponse` |
| | `LiveServersAnswer` | `Spec => []LiveServerAnswers` |
| | `HitsStayCurrent` | `Spec => []HitsAreCurrent` |
| `CustomBackendProofs` | `TypeCorrect` | `Spec => []TypeOK` |
| | `NoConnectionLeaks` | `Spec => []ConnectionsAreClosed` |
| | `Refinement` | `Spec => IsLookup`, if `Root = ZoneData` |
| | `HeaderIsBackend` | `Spec => HeaderNamesBackend` |
| `MountebankPoolProofs` | `TypeCorrect` | `Spec => []TypeOK` |
| | `LoneCallsRepair` | `Spec => LoneCallsAreExact` |
| `DeployerProofs` | `TypeCorrect` | `Spec => []TypeOK` |
| | `ListedAreDeployed` | `Spec => []ListedIsDeployed`, if `PoolsAreClean` |
| | `PublishedAreComplete` | `Spec => []PublishedIsComplete`, if `PoolsAreClean` |

*Assumptions.* `ThreadsDistinct` (main, the listeners and the workers are
different goroutines, nil is none of the objects), `BoundsAreNaturals`,
`RemovePortsArePorts`; for the hash table `HashOfKeys`, `CapacitiesAreOrdered`
(the array starts with a slot and is no larger than the largest one),
`NoneIsNoValue`; for go-hipache `TicksAreNaturals`, `EditsAreNatural`,
`NoneIsNoEntry`; for nginx-hipache `CapacityIsPositive`, `EditsAreNatural`; for
go-proxy's requests `HashIsAFunction`, `NoneIsNoHash`,
`BackendsAreFinite`, `ServersArePositive`; for the nginx module `RootIsABlock`,
`EventsAreNatural`, `NoneIsNoValue`; for the watcher `NoneIsNoContainer` and
`BoundsAreNumbers`; for the deployer `PoolsOfInstances`, `BoundsAreNumbers`.
TLC evaluates them in every run of the module.

Four theorems have a premise of their own. That of `LuaTypeCorrect` is the
assumption `CapacityIsPositive` of `LuaCache` (200 in `hipache.lua`), which an
instance does not bring along. `Refinement` has `Root = ZoneData`:
the location that evaluates the variable is the block nginx reads last, as in
the `nginx.conf` of the repository; with any other order every lookup fails for
want of a queue. `ListedAreDeployed` and `PublishedAreComplete` have
`PoolsAreClean`: no instance is in the pool twice. Calls of the watcher that
overlap may leave it so, and then two tasks of one run delete each other's
imposter, which is also why `MCDeployer` has no such pool.

*Exclusion.* `PortExclusion` is not inductive: that two goroutines are not both
past `Lock` follows from their holding the same mutex, and that they do from
the mutex of the port never changing. The inductive invariant `ExclusionInv`
adds to the types and the shape of a goroutine's locals in each phase
(`TypeInv`, `PhaseOK`): jobs of the remove kind are for `RemovePorts`
(`RemovesOK`); whoever has loaded the mutex of a safe port has the
one that is in `cluster_mu`, whoever is about to store one finds none there,
and a job never is, because its port had a mutex before it was started
(`SameMutex`); a goroutine in the section holds its mutex (`HolderOK`). The
heart of it is that only main, and after it only the `new_frontend` listener,
can find no mutex for a safe port; a crash returns to the initial state.
`MutexesAreStable` is read off the same invariant.

*Locks and servers.* `LocksInv` needs no exclusion on ports: whoever is inside a
cluster is its holder, and a holder is inside (`HoldersInside` with
`LocksAreOwned`), for all ports. `ServersInv` builds on `ExclusionInv`. An
update of a safe port works on the registered cluster (`SameCluster`); a
cluster with a protocol object is registered, or about to be (`OwnersOK`); a
live server was either just started and is about to be registered, or is that
of the registered cluster, and then nobody on its port is past the shutdown
(`LiveOK`); between reading the backends and starting the server there are some
(`BackendsOK`). The three server properties follow from it. The steps outside
the critical sections are treated as one (`Quiet`): they change no cluster and
no server, and move nobody in or out.

*The service.* `RegistryIsService` maps each step of the registry to one of
`PortService`. Which step a goroutine in a section takes for the requests is
read off `ServersInv`: `LRange` is `Read`, since nobody on the port is live
past the shutdown (`NothingServed`); `GetConfig` is `Start`, of the only server
of the port and with the only list that was fetched; `Shutdown` stops the server
that was live, for the registered cluster is the goroutine's (`LiveOwner`); a
listening goroutine that finds its port taken stops the live one (`OneLive`); a
crash is `Restart`, a configuration without a known protocol `Abandon`, and what
the environment does `Edit`. Every other step leaves the lists of live servers alone, on
its own port and on all the others (`SameAt`).

*Updates.* `NoUpdateIsLost` is inductive together with `ServersInv`. Outside the
sections a port is handed on, from the scan to main and from the inbox to the
listener and to the goroutine it starts (`KeptOutside`). In a section a
goroutine can only disturb its own port (`JobElsewhere`, `KeptElsewhere`), where
it is alone (`SafeMakes`): what it reads is what it registers, unless the list
is edited meanwhile, and then a later message follows it (`KeptHere`). What takes
an announcement back, and so frees the property of it, is an edit, a connection
that breaks with the message unread and an error of LRANGE, after which the code
does nothing more for the port until it is told again, and a crash, after which
the startup scan announces every frontend anew.

*The hash table.* `TableInv` says that length is at least the number of slots in
use and at most half of the capacity (`ArrayOK`), which leaves an empty slot
for every probe to stop at, also when `ht_remove` has freed slots without
lowering the length. `ContentsOK` says that, until something is removed, every
entry is at the slot where the probe for its key stops (`IsProbed`), and length
counts the keys that are found. A probe is described by the distance of a slot
from the home slot, going round the array. `RehashKeeps` is the lemma behind
growth: inserting the entries of the old array one by one, in its order, into
the new one hides no key, changes no value and adds no entry.

*Staleness.* `StaleInv` relates ages to the progress of a reply and of an
entry: the frontend's own age is zero (`FrontendIsNow`), a list on its way is
no older than the time it has waited (`ReplyAge`), a cached one no older than
the time it has lived and the longest reply time together (`EntryAge`). `Tick`
is the only action that makes a list older, and it advances both sides.

*The LRU cache of nginx-hipache.* That a cache stays within its capacity and
lists no port twice is invariant for any capacity because every use of an entry
takes it out of the queue (`OthersAreOthers`, from `RemoveOne`, which says what
removing one place leaves of a sequence) before it is put in front of at most
one entry less than there is room for (`InFrontIsQueue`). `LuaInv` adds that a
request that talks to Redis knows its port (`Asked`): a reply that comes late is
stored under the port it was asked for.

*Requests of go-proxy.* What a request took from its cluster may have changed
since, so each property needs to know what cannot have. `OwnInv`: whatever is
in a cache under the checksum of a kind, or is on its way there, answers a
request of that checksum; what was sent without one is under the empty hash,
which nobody looks up. `LiveInv`: while a server is live no update is between
its teardown and its start, so the backends are those it was started with
(`ServersInv`), every response in its cache and every backend its requests
hold is among them (`CacheCurrent`, `RequestCurrent`), and their number is the
one that was counted.

*The nginx module.* `TypeInv` adds to the types that the handler is only ever
at the first evaluation of the variable, that a request has a backend from
there on (`RequestInv`), and that a free worker has no connection
(`HandlerInv`). For the refinement `KnownInv` says what the history variable
`told` is worth: it includes what Redis would answer now, and the list the
handler holds, and a broken connection is a cause for an error; `ZoneInv` says
that the queue is empty and every worker was started with one. Each action is
then a step of `BackendLookup`: `Enter` asks, `Choose` finds, the last attempt
of `Query` and `ConnectFails` fail, `Finish`, `Replace`, `Die` and
`ArriveWithoutHost` forget,
`EditFrontend` and `RedisBecomes` change Redis, and the others stutter.

*The watcher.* `PoolInv` follows a lone call command by command: after its LREMs
there is no copy of its container left, after each RPUSH one (`ProgressOK`).
That nobody else touches these copies in between is `AloneOK`, no other call
in progress is for the container, and that LREM and RPUSH leave the copies of
other containers alone (`WithoutCopies`, `AppendCopies`). A call with a command
that was sent twice is not counted as alone from then on (`ResendOK`); a later
lone call removes the copy it left.

*The deployer.* `RunInv` holds whatever overlaps: a run has one task per
instance, none has started before the DEL, all are done when it publishes. A
run that is alone is the only active one (`AloneOK`), and where runs are apart
the active one is alone (`ApartOK`). `WorkOK` says of a lone run, whatever the
runs before it did, that from its DEL on the list is its own work (`OwnWork`):
it holds instances whose tasks have come to their RPUSH, with the imposters of
this run, among them all that are done, and each once unless a command was sent
again. The hard step is DELETE: the instance must not be in the list then,
which needs `PoolsAreClean`. `PublishedIsComplete` is read off `OwnWork` where
all tasks are done. `ListedIsDeployed` is kept by the steps of a lone run, and
made true again by its DEL, since an empty list needs no imposters.

*Induction over data.* What `Rehash` and `Without` compute was to be proved for
arrays and lists of any length. Both are recursive functions, `moved[n]` or
`kept[n]` being the result for the first n elements. `DataLemmas` derives
`SetInduction` from `WFMin` and the well-foundedness of `<` on `Nat`, a form
with a set in place of the predicate the provers cannot instantiate. The set of
the n for which such a function exists, then the set of the n for which it has
the wanted property, is shown to be all of `Nat`.

*Model-checked only:* everything that must eventually happen (`Convergence`,
`CallsEnd`, `CacheCatchesUp`, `BackendsAreFound`, `RunsSettle`, `RequestsEnd`),
since the prover does not treat fairness. Every invariant, every action property
and every refinement that a run checks is also a theorem. The three properties
the runs refute are of course not theorems.

## 6. What is not modelled

* **Parts of go-proxy's requests**: delays, headers, metrics and the round
  trips themselves; of the settings only `CacheEnabled` and the protocol. A
  refresh keeps `MutualAuth` and `StatsdEnabled` from the configuration before
  (`clusters.go:145-150` sets no default for them), which no model shows.
* **Parts of the nginx module**: failed allocations, the memory of replies
  (none is freed), the code inside comments and the second hash table a
  worker has but does not use; how `srand(time(NULL))` spreads requests.
* **How a backend is picked** from a list, the direct calls of go-hipache
  (`/!backend`), the rewriting of requests: they change no state.
* **The lifetime of entries in nginx-hipache**: there is none, so after an edit a
  worker that holds an entry goes on with the old list as long as the entry is
  in use; the model shows this behaviour and no property forbids it.
* **Pure code**: port ranges, durations, settings, the static configuration.
* **Compose files, benchmark, test data**, except for the restart policy and
  what they say of the programs' tasks.
* **ht_create and ht_destroy**, which are the table's initial state and its end.

## 7. Plan

Done: the registry first, since every port depends on it; then the components
with a cache or a shared list; then the requests of go-proxy and of the nginx
module, with the refinement of the latter; and last the proofs, component by
component, of every safety property, with go-proxy's registry shown to
implement the service its requests rely on.

Next, in this order:

1. The watcher and the deployer composed with `ClusterRegistry`: a drop edits
   the lists and publishes nothing, so go-proxy keeps the old backends. Nothing
   in the repository says that it should not, so there is no property of the
   composition yet beyond `Convergence`.
2. `PortRange.Set` against `Contains` over bounded strings of ranges.
