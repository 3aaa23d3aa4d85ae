------------------------ MODULE ClusterRegistryProofs ------------------------
(***************************************************************************)
(* Theorems about the registry of go-proxy, for any number of ports,       *)
(* goroutines, URLs and environment steps: types, the map of mutexes, who  *)
(* holds a mutex, exclusion on a port, the servers the goroutines of a     *)
(* port leave behind, that the whole implements PortService, and that no   *)
(* announced update is lost.                                               *)
(***************************************************************************)
EXTENDS ClusterRegistry, TLAPS

Placed == {"spawn", "mutex_check", "mutex_store", "mutex_load", "lock"} \cup Busy

WithObject == Busy \ {"lookup", "fetch", "unlock"}

(* What a goroutine has at hand at each point of its code. *)
ControlOK ==
    /\ \A t \in Threads : pc[t] \in Placed => arg[t] \in Ports
    /\ \A t \in Threads : pc[t] = "mutex_load" => clusterMu[arg[t]] # None
    /\ \A t \in Threads : pc[t] \in {"lock"} \cup Busy => mx[t] \in Heap
    /\ \A t \in Threads : pc[t] \in WithObject => obj[t] \in Heap

TypeInv == TypeOK /\ ControlOK

(* Only main, while it is alone, and the new_frontend listener create the  *)
(* mutex of a safe port, and neither does it twice.                        *)
PhaseOK ==
    /\ pc[Main] # "wait" => (\A l \in Listeners : pc[l] = "off")
                            /\ (\A w \in Workers : pc[w] = "idle")
    /\ \A l \in Listeners : pc[l] \in {"off", "subscribe", "receive", "spawn", "mutex_check",
                                       "mutex_store", "mutex_load"}
    /\ \A l \in Listeners : pc[l] \in Placed => job[l] = "ensure"

(* remove_frontend only ever names ports of RemovePorts. *)
RemovesOK ==
    /\ \A i \in 1 .. Len(inbox[DownListener]) : inbox[DownListener][i] \in RemovePorts
    /\ pc[DownListener] \in Placed => pc[DownListener] = "spawn" /\ arg[DownListener] \in RemovePorts
    /\ \A w \in Workers : pc[w] \in Placed /\ arg[w] \in SafePorts => job[w] = "make"

(* The mutex of a safe port exists before a goroutine is started for it,   *)
(* and everybody who is past ClusterMutex has that one.                    *)
SameMutex ==
    /\ pc[NewListener] = "spawn" => clusterMu[arg[NewListener]] # None
    /\ \A w \in Workers : pc[w] \in Placed /\ arg[w] \in SafePorts
                            => clusterMu[arg[w]] # None /\ pc[w] # "mutex_store"
    /\ \A t \in Threads : pc[t] = "mutex_store" /\ arg[t] \in SafePorts
                            => clusterMu[arg[t]] = None
    /\ \A t \in Threads : pc[t] \in {"lock"} \cup Busy /\ arg[t] \in SafePorts
                            => mx[t] = clusterMu[arg[t]]

HolderOK == \A t \in Threads : pc[t] \in Busy => holder[mx[t]] = t

ExclusionInv == TypeInv /\ PhaseOK /\ RemovesOK /\ SameMutex /\ HolderOK

-----------------------------------------------------------------------------
(* The first state of a process, and the state after a crash. *)
LEMMA TypeInit == Init => TypeInv
  BY ThreadsDistinct
  DEF Init, TypeInv, TypeOK, ControlOK, Nil, Const, FreshPc, Threads, Listeners, ThreadStates,
      ServeStates, Placed, Busy, WithObject

(* A crash leaves the state of a process that has just started. *)
LEMMA TypeCrash == TypeInv /\ Crash => TypeInv'
  BY ThreadsDistinct
  DEF Crash, TypeInv, TypeOK, ControlOK, Nil, Const, FreshPc, Threads, Listeners, ThreadStates,
      ServeStates, Placed, Busy, WithObject, redis

(* StartServer, which both ways out of the GET share, keeps the types. *)
LEMMA StartServerType ==
    ASSUME NEW t \in Threads, TypeInv, pc[t] = "config", StartServer(t), env' \in Nat
    PROVE  TypeInv'
<1> USE ThreadsDistinct
    DEF TypeInv, TypeOK, ControlOK, Threads, Listeners, ThreadStates, ServeStates, Placed, Busy,
        WithObject
<1>1. PICK s \in Heap : /\ impl' = [impl EXCEPT ![obj[t]] = s]
                        /\ hasServer' = [hasServer EXCEPT ![s] = TRUE]
                        /\ stopping' = [stopping EXCEPT ![s] = FALSE]
                        /\ serve' = [serve EXCEPT ![s] = "spawned"]
  BY DEF StartServer, Lowest
<1>2. obj[t] \in Heap
  OBVIOUS
<1>3. /\ impl' \in [Heap -> Heap \cup {None}]
      /\ hasServer' \in [Heap -> BOOLEAN]
      /\ stopping' \in [Heap -> BOOLEAN]
      /\ serve' \in [Heap -> ServeStates]
      /\ objHolder' \in [Heap -> Threads \cup {None}]
  BY <1>1, <1>2 DEF StartServer
<1>4. pc' = [pc EXCEPT ![t] = "register"]
  BY DEF StartServer, Goto
<1>5. UNCHANGED <<frontend, supported, subscribed, inbox, arg, job, mx, obj, todo, clusterMu,
                  holder, clusters, backends, announced>>
  BY DEF StartServer, redis, pubsub, mutexes
<1>6. TypeOK'
  BY <1>3, <1>4, <1>5
<1>7. ControlOK'
  BY <1>4, <1>5
<1> QED
  BY <1>6, <1>7

(* Every step keeps the types. *)
LEMMA TypeStep == TypeInv /\ [Next]_vars => TypeInv'
<1> SUFFICES ASSUME TypeInv, [Next]_vars PROVE TypeInv'
  OBVIOUS
<1> USE ThreadsDistinct
    DEF TypeInv, TypeOK, ControlOK, Threads, Listeners, ThreadStates, ServeStates, Placed, Busy,
        WithObject
<1>1. ASSUME GetFrontends PROVE TypeInv'
  BY <1>1 DEF GetFrontends, Goto, redis, pubsub, threads, mutexes, objects, servers, Frontends
<1>2. ASSUME NEW p \in Ports, DeployNext(p) PROVE TypeInv'
  BY <1>2 DEF DeployNext, Goto, redis, pubsub, threads, mutexes, objects, servers
<1>3. ASSUME StartListeners PROVE TypeInv'
  BY <1>3 DEF StartListeners, Goto, redis, pubsub, threads, mutexes, objects, servers
<1>4. ASSUME NEW l \in Listeners, Subscribe(l) PROVE TypeInv'
  BY <1>4 DEF Subscribe, Goto, redis, pubsub, threads, mutexes, objects, servers
<1>5. ASSUME NEW l \in Listeners, Receive(l) PROVE TypeInv'
  BY <1>5 DEF Receive, Goto, redis, pubsub, threads, mutexes, objects, servers, AfterReceive
<1>6. ASSUME NEW l \in Listeners, NEW w \in Workers, Spawn(l, w) PROVE TypeInv'
  BY <1>6 DEF Spawn, Goto, redis, pubsub, threads, mutexes, objects, servers
<1>7. ASSUME NEW t \in Threads, MutexCheck(t) PROVE TypeInv'
  BY <1>7 DEF MutexCheck, Goto, redis, pubsub, threads, mutexes, objects, servers, HasNoMutex
<1>8. ASSUME NEW t \in Threads, MutexStore(t) PROVE TypeInv'
  BY <1>8 DEF MutexStore, Goto, redis, pubsub, threads, mutexes, objects, servers, Lowest
<1>9. ASSUME NEW t \in Threads, MutexLoad(t) PROVE TypeInv'
  <2>1. CASE job[t] = "ensure"
    <3>1. pc' = [pc EXCEPT ![t] = "spawn"] /\ mx' = mx
      BY <1>9, <2>1 DEF MutexLoad, Goto
    <3> QED
      BY <1>9, <3>1 DEF MutexLoad, redis, pubsub, mutexes, objects, servers
  <2>2. CASE job[t] # "ensure"
    <3>1. /\ pc' = [pc EXCEPT ![t] = "lock"]
          /\ mx' = [mx EXCEPT ![t] = clusterMu[arg[t]]]
          /\ clusterMu[arg[t]] \in Heap
      BY <1>9, <2>2 DEF MutexLoad, Goto
    <3> QED
      BY <1>9, <3>1 DEF MutexLoad, redis, pubsub, mutexes, objects, servers
  <2> QED
    BY <2>1, <2>2
<1>10. ASSUME NEW t \in Threads, Lock(t) PROVE TypeInv'
  BY <1>10 DEF Lock, Goto, redis, pubsub, threads, mutexes, objects, servers
<1>11. ASSUME NEW t \in Threads, RemoveAbsent(t) PROVE TypeInv'
  BY <1>11 DEF RemoveAbsent, Goto, redis, pubsub, threads, mutexes, objects, servers
<1>12. ASSUME NEW t \in Threads, RemoveFound(t) PROVE TypeInv'
  BY <1>12 DEF RemoveFound, Goto, redis, pubsub, threads, mutexes, objects, servers
<1>13. ASSUME NEW t \in Threads, MakeNew(t) PROVE TypeInv'
  <2>1. PICK c \in Heap : /\ obj' = [obj EXCEPT ![t] = c]
                          /\ backends' = [backends EXCEPT ![c] = {}]
                          /\ impl' = [impl EXCEPT ![c] = None]
                          /\ objHolder' = [objHolder EXCEPT ![c] = None]
    BY <1>13 DEF MakeNew, Lowest
  <2>2. pc[t] = "lookup" /\ pc' = [pc EXCEPT ![t] = "refresh"]
    BY <1>13 DEF MakeNew, Goto
  <2>3. UNCHANGED <<frontend, supported, subscribed, inbox, arg, job, mx, todo, clusterMu, holder,
                    clusters, hasServer, stopping, serve, env, announced>>
    BY <1>13 DEF MakeNew, redis, pubsub, mutexes, servers
  <2>4. TypeOK'
    BY <2>1, <2>2, <2>3
  <2>5. arg[t] \in Ports /\ mx[t] \in Heap /\ obj'[t] \in Heap
    BY <2>1, <2>2
  <2>6. \A u \in Threads \ {t} : pc'[u] = pc[u] /\ obj'[u] = obj[u]
    BY <2>1, <2>2
  <2>7. ControlOK'
    BY <2>2, <2>3, <2>5, <2>6
  <2> QED
    BY <2>4, <2>7
<1>14. ASSUME NEW t \in Threads, MakeUpdate(t) PROVE TypeInv'
  BY <1>14 DEF MakeUpdate, Goto, redis, pubsub, threads, mutexes, objects, servers
<1>15. ASSUME NEW t \in Threads, Fetch(t) PROVE TypeInv'
  BY <1>15 DEF Fetch, Goto, redis, pubsub, threads, mutexes, objects, servers, BeforeRefresh
<1>16. ASSUME NEW t \in Threads, FetchNil(t) PROVE TypeInv'
  BY <1>16, TypeCrash DEF FetchNil
<1>17. ASSUME NEW t \in Threads, Teardown(t) PROVE TypeInv'
  BY <1>17 DEF Teardown, Goto, redis, pubsub, threads, mutexes, objects, servers
<1>18. ASSUME NEW t \in Threads, Shutdown(t) PROVE TypeInv'
  BY <1>18 DEF Shutdown, Goto, redis, pubsub, threads, mutexes, objects, servers
<1>19. ASSUME NEW t \in Threads, ShutdownNil(t) PROVE TypeInv'
  BY <1>19, TypeCrash DEF ShutdownNil
<1>20. ASSUME NEW t \in Threads, Drained(t) PROVE TypeInv'
  BY <1>20 DEF Drained, Goto, redis, pubsub, threads, mutexes, objects, servers, AfterTeardown
<1>21. ASSUME NEW t \in Threads, DrainTimeout(t) PROVE TypeInv'
  BY <1>21 DEF DrainTimeout, Goto, redis, pubsub, threads, mutexes, objects, servers, AfterTeardown
<1>22. ASSUME NEW t \in Threads, Refresh(t) PROVE TypeInv'
  BY <1>22 DEF Refresh, Goto, redis, pubsub, threads, mutexes, objects, servers
<1>23. ASSUME NEW t \in Threads, LRange(t) PROVE TypeInv'
  <2>1. backends' = [backends EXCEPT ![obj[t]] = frontend[arg[t]]]
    BY <1>23 DEF LRange, NewBackends
  <2>2. UNCHANGED <<frontend, supported, subscribed, inbox, arg, job, mx, obj, todo, clusterMu, holder,
                    clusters, impl, hasServer, stopping, serve, env, announced>>
    BY <1>23 DEF LRange, redis, pubsub, mutexes, servers
  <2>3. pc[t] = "lrange" /\ arg[t] \in Ports /\ obj[t] \in Heap /\ mx[t] \in Heap
    BY <1>23 DEF LRange
  <2>4. CASE NoBackends(t)
    <3>1. pc' = [pc EXCEPT ![t] = "unlock"] /\ objHolder' = [objHolder EXCEPT ![obj[t]] = None]
      BY <1>23, <2>4 DEF LRange, RefreshFails, Goto
    <3>2. TypeOK'
      BY <2>1, <2>2, <2>3, <3>1
    <3>3. ControlOK'
      BY <2>2, <2>3, <3>1
    <3> QED
      BY <3>2, <3>3
  <2>5. CASE ~NoBackends(t)
    <3>1. pc' = [pc EXCEPT ![t] = "config"] /\ objHolder' = objHolder
      BY <1>23, <2>5 DEF LRange, Goto
    <3>2. TypeOK'
      BY <2>1, <2>2, <2>3, <3>1
    <3>3. ControlOK'
      BY <2>2, <2>3, <3>1
    <3> QED
      BY <3>2, <3>3
  <2> QED
    BY <2>4, <2>5
<1>24. ASSUME NEW t \in Threads, LRangeError(t) PROVE TypeInv'
  <2>1. /\ pc[t] = "lrange" /\ pc' = [pc EXCEPT ![t] = "unlock"]
        /\ objHolder' = [objHolder EXCEPT ![obj[t]] = None]
        /\ announced' = [announced EXCEPT ![arg[t]] = FALSE]
        /\ env' = env + 1
    BY <1>24 DEF LRangeError, RefreshFails, Goto
  <2>2. UNCHANGED <<frontend, supported, subscribed, inbox, arg, job, mx, obj, todo, clusterMu, holder,
                    clusters, backends, impl, hasServer, stopping, serve>>
    BY <1>24 DEF LRangeError, redis, pubsub, mutexes, servers
  <2>3. arg[t] \in Ports /\ obj[t] \in Heap /\ mx[t] \in Heap
    BY <2>1
  <2>4. TypeOK'
    BY <2>1, <2>2, <2>3
  <2>5. ControlOK'
    BY <2>1, <2>2, <2>3
  <2> QED
    BY <2>4, <2>5
<1>25. ASSUME NEW t \in Threads, GetConfig(t) PROVE TypeInv'
  BY <1>25, StartServerType DEF GetConfig
<1>26. ASSUME NEW t \in Threads, GetConfigError(t) PROVE TypeInv'
  <2>1. pc[t] = "config" /\ StartServer(t) /\ env' = env + 1
    BY <1>26 DEF GetConfigError
  <2>2. env' \in Nat
    BY <2>1
  <2> QED
    BY <2>1, <2>2, StartServerType
<1>27. ASSUME NEW t \in Threads, GetConfigUnsupported(t) PROVE TypeInv'
  BY <1>27 DEF GetConfigUnsupported, Goto, redis, pubsub, threads, mutexes, objects, servers, RefreshFails
<1>28. ASSUME NEW t \in Threads, Register(t) PROVE TypeInv'
  BY <1>28 DEF Register, Goto, redis, pubsub, threads, mutexes, objects, servers, Assign
<1>29. ASSUME NEW t \in Threads, Unregister(t) PROVE TypeInv'
  BY <1>29 DEF Unregister, Goto, redis, pubsub, threads, mutexes, objects, servers, Assign
<1>30. ASSUME NEW t \in Threads, Unlock(t) PROVE TypeInv'
  BY <1>30 DEF Unlock, Goto, redis, pubsub, threads, mutexes, objects, servers, Released
<1>31. ASSUME NEW t \in Threads, NEW u \in Threads, MapRace(t, u) PROVE TypeInv'
  BY <1>31, TypeCrash DEF MapRace
<1>32. ASSUME NEW s \in Heap, ServeCheck(s) PROVE TypeInv'
  BY <1>32 DEF ServeCheck, Goto, redis, pubsub, threads, mutexes, objects, servers, ServeAdvances
<1>33. ASSUME NEW s \in Heap, ServeNil(s) PROVE TypeInv'
  BY <1>33, TypeCrash DEF ServeNil
<1>34. ASSUME NEW s \in Heap, ServeListen(s) PROVE TypeInv'
  BY <1>34 DEF ServeListen, Goto, redis, pubsub, threads, mutexes, objects, servers, ServeAdvances
<1>35. ASSUME NEW s \in Heap, ServeTrack(s) PROVE TypeInv'
  BY <1>35 DEF ServeTrack, Goto, redis, pubsub, threads, mutexes, objects, servers, ServeAdvances
<1>36. ASSUME NEW p \in Ports, NEW b \in SUBSET Backends, EditFrontend(p, b) PROVE TypeInv'
  BY <1>36 DEF EditFrontend, Goto, redis, pubsub, threads, mutexes, objects, servers, EnvStep
<1>37. ASSUME NEW p \in Ports, EditConfig(p) PROVE TypeInv'
  BY <1>37 DEF EditConfig, Goto, redis, pubsub, threads, mutexes, objects, servers, EnvStep
<1>38. ASSUME NEW l \in Listeners, NEW p \in Ports, Publish(l, p) PROVE TypeInv'
  BY <1>38 DEF Publish, Goto, redis, pubsub, threads, mutexes, objects, servers, EnvStep
<1>39. ASSUME NEW l \in Listeners, Disconnect(l) PROVE TypeInv'
  BY <1>39 DEF Disconnect, Goto, redis, pubsub, threads, mutexes, objects, servers, EnvStep
<1>40. CASE UNCHANGED vars
  BY <1>40 DEF vars, redis, pubsub, threads, mutexes, objects, servers
<1> HIDE DEF TypeInv, TypeOK, ControlOK, Threads, Listeners, ThreadStates, ServeStates, Placed, Busy,
             WithObject
<1> QED
  BY <1>1, <1>2, <1>3, <1>4, <1>5, <1>6, <1>7, <1>8, <1>9, <1>10, <1>11, <1>12, <1>13, <1>14,
     <1>15, <1>16, <1>17, <1>18, <1>19, <1>20, <1>21, <1>22, <1>23, <1>24, <1>25, <1>26, <1>27,
     <1>28, <1>29, <1>30, <1>31, <1>32, <1>33, <1>34, <1>35, <1>36, <1>37, <1>38, <1>39, <1>40
     DEF Next, Run, Boot, Listen, ClusterMutex, RunJob, RedisError, Serve, Environment

(* Type correctness: TypeOK is an invariant of the registry. *)
THEOREM TypeCorrect == Spec => []TypeOK
<1>1. Spec => []TypeInv
  BY TypeInit, TypeStep, PTL DEF Spec
<1>2. TypeInv => TypeOK
  BY DEF TypeInv
<1> QED
  BY <1>1, <1>2, PTL

-----------------------------------------------------------------------------
Exclusion == PhaseOK /\ RemovesOK /\ SameMutex /\ HolderOK

(* Nobody is in a critical section when the process starts. *)
LEMMA ExclusionInit == Init => Exclusion
  BY ThreadsDistinct
  DEF Init, Exclusion, PhaseOK, RemovesOK, SameMutex, HolderOK, Nil, Const, FreshPc, Threads,
      Listeners, Placed, Busy

(* ... nor after a crash. *)
LEMMA ExclusionCrash == TypeInv /\ Crash => Exclusion'
  BY ThreadsDistinct
  DEF Crash, Exclusion, PhaseOK, RemovesOK, SameMutex, HolderOK, Nil, Const, FreshPc, Threads,
      Listeners, Placed, Busy

(* Every step keeps the locking discipline of the safe ports.             *)
LEMMA ExclusionStep == ExclusionInv /\ [Next]_vars => Exclusion'
<1> SUFFICES ASSUME ExclusionInv, [Next]_vars PROVE Exclusion'
  OBVIOUS
<1> USE ThreadsDistinct, RemovePortsArePorts
    DEF ExclusionInv, TypeInv, TypeOK, ControlOK, Exclusion, PhaseOK, RemovesOK, SameMutex,
        HolderOK, SafePorts, Threads, Listeners, ThreadStates, Placed, Busy
<1>1. ASSUME GetFrontends PROVE Exclusion'
  BY <1>1 DEF GetFrontends, Goto, redis, pubsub, threads, mutexes, objects, servers, Frontends
<1>2. ASSUME NEW p \in Ports, DeployNext(p) PROVE Exclusion'
  BY <1>2 DEF DeployNext, Goto, redis, pubsub, threads, mutexes, objects, servers
<1>3. ASSUME StartListeners PROVE Exclusion'
  BY <1>3 DEF StartListeners, Goto, redis, pubsub, threads, mutexes, objects, servers
<1>4. ASSUME NEW l \in Listeners, Subscribe(l) PROVE Exclusion'
  BY <1>4 DEF Subscribe, Goto, redis, pubsub, threads, mutexes, objects, servers
<1>5. ASSUME NEW l \in Listeners, Receive(l) PROVE Exclusion'
  BY <1>5 DEF Receive, Goto, redis, pubsub, threads, mutexes, objects, servers, AfterReceive
<1>6. ASSUME NEW l \in Listeners, NEW w \in Workers, Spawn(l, w) PROVE Exclusion'
  BY <1>6 DEF Spawn, Goto, redis, pubsub, threads, mutexes, objects, servers
<1>7. ASSUME NEW t \in Threads, MutexCheck(t) PROVE Exclusion'
  BY <1>7 DEF MutexCheck, Goto, redis, pubsub, threads, mutexes, objects, servers, HasNoMutex
<1>8. ASSUME NEW t \in Threads, MutexStore(t) PROVE Exclusion'
  BY <1>8 DEF MutexStore, Goto, redis, pubsub, threads, mutexes, objects, servers, Lowest
<1>9. ASSUME NEW t \in Threads, MutexLoad(t) PROVE Exclusion'
  <2>1. CASE job[t] = "ensure"
    <3>1. pc' = [pc EXCEPT ![t] = "spawn"] /\ clusterMu[arg[t]] # None
      BY <1>9, <2>1 DEF MutexLoad, Goto
    <3>2. UNCHANGED <<inbox, arg, job, mx, clusterMu, holder>>
      BY <1>9, <2>1 DEF MutexLoad, pubsub, mutexes
    <3>3. PhaseOK' /\ RemovesOK'
      BY <1>9, <3>1, <3>2 DEF MutexLoad
    <3>4. SameMutex' /\ HolderOK'
      BY <1>9, <3>1, <3>2 DEF MutexLoad
    <3> QED
      BY <3>3, <3>4
  <2>2. CASE job[t] # "ensure"
    <3>1. pc' = [pc EXCEPT ![t] = "lock"] /\ mx' = [mx EXCEPT ![t] = clusterMu[arg[t]]]
      BY <1>9, <2>2 DEF MutexLoad, Goto
    <3>2. UNCHANGED <<inbox, arg, job, clusterMu, holder>>
      BY <1>9 DEF MutexLoad, pubsub, mutexes
    <3>3. PhaseOK' /\ RemovesOK'
      BY <1>9, <2>2, <3>1, <3>2 DEF MutexLoad
    <3>4. SameMutex'
      BY <1>9, <2>2, <3>1, <3>2 DEF MutexLoad
    <3>5. HolderOK'
      BY <3>1, <3>2
    <3> QED
      BY <3>3, <3>4, <3>5
  <2> QED
    BY <2>1, <2>2
<1>10. ASSUME NEW t \in Threads, Lock(t) PROVE Exclusion'
  BY <1>10 DEF Lock, Goto, redis, pubsub, threads, mutexes, objects, servers
<1>11. ASSUME NEW t \in Threads, RemoveAbsent(t) PROVE Exclusion'
  BY <1>11 DEF RemoveAbsent, Goto, redis, pubsub, threads, mutexes, objects, servers
<1>12. ASSUME NEW t \in Threads, RemoveFound(t) PROVE Exclusion'
  BY <1>12 DEF RemoveFound, Goto, redis, pubsub, threads, mutexes, objects, servers
<1>13. ASSUME NEW t \in Threads, MakeNew(t) PROVE Exclusion'
  BY <1>13 DEF MakeNew, Goto, redis, pubsub, threads, mutexes, objects, servers, Lowest
<1>14. ASSUME NEW t \in Threads, MakeUpdate(t) PROVE Exclusion'
  BY <1>14 DEF MakeUpdate, Goto, redis, pubsub, threads, mutexes, objects, servers
<1>15. ASSUME NEW t \in Threads, Fetch(t) PROVE Exclusion'
  BY <1>15 DEF Fetch, Goto, redis, pubsub, threads, mutexes, objects, servers, BeforeRefresh
<1>16. ASSUME NEW t \in Threads, FetchNil(t) PROVE Exclusion'
  BY <1>16, ExclusionCrash DEF FetchNil
<1>17. ASSUME NEW t \in Threads, Teardown(t) PROVE Exclusion'
  BY <1>17 DEF Teardown, Goto, redis, pubsub, threads, mutexes, objects, servers
<1>18. ASSUME NEW t \in Threads, Shutdown(t) PROVE Exclusion'
  BY <1>18 DEF Shutdown, Goto, redis, pubsub, threads, mutexes, objects, servers
<1>19. ASSUME NEW t \in Threads, ShutdownNil(t) PROVE Exclusion'
  BY <1>19, ExclusionCrash DEF ShutdownNil
<1>20. ASSUME NEW t \in Threads, Drained(t) PROVE Exclusion'
  BY <1>20 DEF Drained, Goto, redis, pubsub, threads, mutexes, objects, servers, AfterTeardown
<1>21. ASSUME NEW t \in Threads, DrainTimeout(t) PROVE Exclusion'
  BY <1>21 DEF DrainTimeout, Goto, redis, pubsub, threads, mutexes, objects, servers, AfterTeardown
<1>22. ASSUME NEW t \in Threads, Refresh(t) PROVE Exclusion'
  BY <1>22 DEF Refresh, Goto, redis, pubsub, threads, mutexes, objects, servers
<1>23. ASSUME NEW t \in Threads, LRange(t) PROVE Exclusion'
  BY <1>23 DEF LRange, Goto, redis, pubsub, threads, mutexes, objects, servers, RefreshFails, NewBackends, NoBackends
<1>24. ASSUME NEW t \in Threads, LRangeError(t) PROVE Exclusion'
  BY <1>24 DEF LRangeError, Goto, redis, pubsub, threads, mutexes, objects, servers, RefreshFails
<1>25. ASSUME NEW t \in Threads, GetConfig(t) PROVE Exclusion'
  BY <1>25 DEF GetConfig, Goto, redis, pubsub, threads, mutexes, objects, servers, StartServer, Lowest
<1>26. ASSUME NEW t \in Threads, GetConfigError(t) PROVE Exclusion'
  BY <1>26 DEF GetConfigError, Goto, redis, pubsub, threads, mutexes, objects, servers, StartServer, Lowest
<1>27. ASSUME NEW t \in Threads, GetConfigUnsupported(t) PROVE Exclusion'
  BY <1>27 DEF GetConfigUnsupported, Goto, redis, pubsub, threads, mutexes, objects, servers, RefreshFails
<1>28. ASSUME NEW t \in Threads, Register(t) PROVE Exclusion'
  BY <1>28 DEF Register, Goto, redis, pubsub, threads, mutexes, objects, servers, Assign
<1>29. ASSUME NEW t \in Threads, Unregister(t) PROVE Exclusion'
  BY <1>29 DEF Unregister, Goto, redis, pubsub, threads, mutexes, objects, servers, Assign
<1>30. ASSUME NEW t \in Threads, Unlock(t) PROVE Exclusion'
  BY <1>30 DEF Unlock, Goto, redis, pubsub, threads, mutexes, objects, servers, Released
<1>31. ASSUME NEW t \in Threads, NEW u \in Threads, MapRace(t, u) PROVE Exclusion'
  BY <1>31, ExclusionCrash DEF MapRace
<1>32. ASSUME NEW s \in Heap, ServeCheck(s) PROVE Exclusion'
  BY <1>32 DEF ServeCheck, Goto, redis, pubsub, threads, mutexes, objects, servers, ServeAdvances
<1>33. ASSUME NEW s \in Heap, ServeNil(s) PROVE Exclusion'
  BY <1>33, ExclusionCrash DEF ServeNil
<1>34. ASSUME NEW s \in Heap, ServeListen(s) PROVE Exclusion'
  BY <1>34 DEF ServeListen, Goto, redis, pubsub, threads, mutexes, objects, servers, ServeAdvances
<1>35. ASSUME NEW s \in Heap, ServeTrack(s) PROVE Exclusion'
  BY <1>35 DEF ServeTrack, Goto, redis, pubsub, threads, mutexes, objects, servers, ServeAdvances
<1>36. ASSUME NEW p \in Ports, NEW b \in SUBSET Backends, EditFrontend(p, b) PROVE Exclusion'
  BY <1>36 DEF EditFrontend, Goto, redis, pubsub, threads, mutexes, objects, servers, EnvStep
<1>37. ASSUME NEW p \in Ports, EditConfig(p) PROVE Exclusion'
  BY <1>37 DEF EditConfig, Goto, redis, pubsub, threads, mutexes, objects, servers, EnvStep
<1>38. ASSUME NEW l \in Listeners, NEW p \in Ports, Publish(l, p) PROVE Exclusion'
  BY <1>38 DEF Publish, Goto, redis, pubsub, threads, mutexes, objects, servers, EnvStep
<1>39. ASSUME NEW l \in Listeners, Disconnect(l) PROVE Exclusion'
  BY <1>39 DEF Disconnect, Goto, redis, pubsub, threads, mutexes, objects, servers, EnvStep
<1>40. CASE UNCHANGED vars
  BY <1>40 DEF vars, redis, pubsub, threads, mutexes, objects, servers
<1> HIDE DEF ExclusionInv, TypeInv, TypeOK, ControlOK, Exclusion, PhaseOK, RemovesOK, SameMutex,
             HolderOK, SafePorts, Threads, Listeners, ThreadStates, Placed, Busy
<1> QED
  BY <1>1, <1>2, <1>3, <1>4, <1>5, <1>6, <1>7, <1>8, <1>9, <1>10, <1>11, <1>12, <1>13, <1>14,
     <1>15, <1>16, <1>17, <1>18, <1>19, <1>20, <1>21, <1>22, <1>23, <1>24, <1>25, <1>26, <1>27,
     <1>28, <1>29, <1>30, <1>31, <1>32, <1>33, <1>34, <1>35, <1>36, <1>37, <1>38, <1>39, <1>40
     DEF Next, Run, Boot, Listen, ClusterMutex, RunJob, RedisError, Serve, Environment

(* The locking discipline holds throughout. *)
LEMMA ExclusionInvariant == Spec => []ExclusionInv
<1>1. Init => ExclusionInv
  BY TypeInit, ExclusionInit DEF ExclusionInv, Exclusion
<1>2. ExclusionInv /\ [Next]_vars => ExclusionInv'
  BY TypeStep, ExclusionStep DEF ExclusionInv, Exclusion
<1> QED
  BY <1>1, <1>2, PTL DEF Spec

(* Goroutines on the same safe port hold the same mutex. *)
LEMMA OneHolder == ExclusionInv => PortExclusion
<1> SUFFICES ASSUME ExclusionInv, NEW t \in Threads, NEW u \in Threads, InSection(t),
                    InSection(u), arg[t] = arg[u], arg[t] \in SafePorts
             PROVE  t = u
  BY DEF PortExclusion, ExclusiveOn
<1>1. mx[t] = mx[u]
  BY DEF ExclusionInv, SameMutex, InSection
<1>2. holder[mx[t]] = t /\ holder[mx[u]] = u
  BY DEF ExclusionInv, HolderOK, InSection
<1> QED
  BY <1>1, <1>2

(* No two goroutines work on a safe port at the same time: they hold the   *)
(* same mutex, and a mutex has one holder.                                 *)
THEOREM PortsAreExclusive == Spec => []PortExclusion
  BY OneHolder, ExclusionInvariant, PTL

(* A step never replaces the mutex of a safe port by another one; a crash  *)
(* is what empties the map.                                                *)
LEMMA MutexKept ==
    ASSUME ExclusionInv, [Next]_vars, NEW p \in SafePorts, clusterMu[p] # None
    PROVE  clusterMu'[p] \in {clusterMu[p], None}
<1>1. ASSUME NEW t \in Threads, MutexStore(t) PROVE clusterMu'[p] = clusterMu[p]
  <2>1. arg[t] # p
    BY <1>1 DEF MutexStore, ExclusionInv, SameMutex
  <2> QED
    BY <1>1, <2>1 DEF MutexStore, ExclusionInv, TypeInv, TypeOK, SafePorts
<1>2. ASSUME Crash PROVE clusterMu'[p] = None
  BY <1>2 DEF Crash, Nil, SafePorts
<1>3. (\E t \in Threads : MutexStore(t)) \/ Crash \/ clusterMu' = clusterMu
  BY ZenonT(60)
     DEF Next, Run, Boot, Listen, ClusterMutex, RunJob, RedisError, Serve, Environment, vars,
         mutexes, GetFrontends, DeployNext, StartListeners, Subscribe, Receive, Spawn, MutexCheck,
         MutexLoad, Lock, RemoveAbsent, RemoveFound, MakeNew,
         MakeUpdate, Fetch, FetchNil, Teardown, Shutdown,
         ShutdownNil, Drained, DrainTimeout, AfterTeardown, Refresh, LRange, LRangeError,
         GetConfig, GetConfigError, StartServer, GetConfigUnsupported, Register, Unregister, Assign, Unlock, MapRace,
         ServeCheck, ServeNil, ServeListen, ServeTrack, ServeAdvances, EditFrontend, EditConfig,
         Publish, Disconnect
<1> QED
  BY <1>1, <1>2, <1>3

(* The mutex of a safe port, once made, stays the one everybody locks.     *)
THEOREM MutexesAreStable == Spec => MutexStable
<1>1. ExclusionInv /\ [Next]_vars
        => [\A p \in SafePorts : clusterMu[p] # None
               => clusterMu'[p] \in {clusterMu[p], None}]_vars
  BY MutexKept
<1> QED
  BY <1>1, ExclusionInvariant, PTL DEF Spec, MutexStable

-----------------------------------------------------------------------------
(* The locks and the servers: no lock outlives its call, a safe port has   *)
(* at most one live server, that server can be torn down, and it has       *)
(* backends.                                                               *)

(* Who is inside a mutex or a cluster is its holder. *)
HoldersInside ==
    /\ HolderOK
    /\ \A t \in Threads : pc[t] \in InCluster => objHolder[obj[t]] = t

LocksInv == TypeInv /\ HoldersInside /\ LocksAreOwned

-----------------------------------------------------------------------------
(* Nothing is locked when the process starts ... *)
LEMMA LocksInit == Init => HoldersInside /\ LocksAreOwned
  BY ThreadsDistinct
  DEF Init, HoldersInside, HolderOK, LocksAreOwned, InSection, InCluster, Nil, Const, FreshPc,
      Threads, Listeners, Busy

(* ... nor after a crash. *)
LEMMA LocksCrash == Crash => HoldersInside' /\ LocksAreOwned'
  BY ThreadsDistinct
  DEF Crash, HoldersInside, HolderOK, LocksAreOwned, InSection, InCluster, Nil, Const, FreshPc,
      Threads, Listeners, Busy

-----------------------------------------------------------------------------
(* A step outside the critical sections: nobody enters or leaves one, and  *)
(* what is done there is left alone.                                       *)
Quiet ==
    /\ UNCHANGED <<holder, clusters, objects, obj, servers>>
    /\ \A t \in Threads : InSection(t) \/ InSection(t)' =>
          UNCHANGED <<pc[t], arg[t], mx[t], job[t]>>

Outside ==
    \/ Boot \/ Environment
    \/ \E l \in Listeners : Listen(l)
    \/ \E t \in Threads : ClusterMutex(t)

(* main, the listeners and ClusterMutex run outside the sections. *)
LEMMA OutsideIsQuiet == ASSUME ExclusionInv, Outside PROVE Quiet
<1> USE ThreadsDistinct
    DEF ExclusionInv, TypeInv, TypeOK, Quiet, InSection, Threads, Listeners, ThreadStates, Busy,
        PhaseOK, Goto, redis, pubsub, threads, mutexes, objects, servers
<1>1. ASSUME GetFrontends PROVE Quiet
  BY <1>1 DEF GetFrontends
<1>2. ASSUME NEW p \in Ports, DeployNext(p) PROVE Quiet
  BY <1>2 DEF DeployNext
<1>3. ASSUME StartListeners PROVE Quiet
  BY <1>3 DEF StartListeners
<1>4. ASSUME NEW l \in Listeners, Subscribe(l) PROVE Quiet
  BY <1>4 DEF Subscribe
<1>5. ASSUME NEW l \in Listeners, Receive(l) PROVE Quiet
  BY <1>5 DEF Receive, AfterReceive
<1>6. ASSUME NEW l \in Listeners, NEW w \in Workers, Spawn(l, w) PROVE Quiet
  BY <1>6 DEF Spawn
<1>7. ASSUME NEW t \in Threads, MutexCheck(t) PROVE Quiet
  BY <1>7 DEF MutexCheck
<1>8. ASSUME NEW t \in Threads, MutexStore(t) PROVE Quiet
  BY <1>8 DEF MutexStore
<1>9. ASSUME NEW t \in Threads, MutexLoad(t) PROVE Quiet
  BY <1>9 DEF MutexLoad
<1>10. ASSUME NEW p \in Ports, NEW b \in SUBSET Backends, EditFrontend(p, b) PROVE Quiet
  BY <1>10 DEF EditFrontend
<1>11. ASSUME NEW p \in Ports, EditConfig(p) PROVE Quiet
  BY <1>11 DEF EditConfig
<1>12. ASSUME NEW l \in Listeners, NEW p \in Ports, Publish(l, p) PROVE Quiet
  BY <1>12 DEF Publish
<1>13. ASSUME NEW l \in Listeners, Disconnect(l) PROVE Quiet
  BY <1>13 DEF Disconnect
<1> HIDE DEF Quiet
<1> QED
  BY <1>1, <1>2, <1>3, <1>4, <1>5, <1>6, <1>7, <1>8, <1>9, <1>10, <1>11, <1>12, <1>13
     DEF Outside, Boot, Listen, ClusterMutex, Environment

(* The steps of Next, those outside the critical sections taken as one.    *)
LEMMA NextCases ==
    ASSUME [Next]_vars
    PROVE  \/ Outside \/ Crash \/ UNCHANGED vars
           \/ \E t \in Threads : RunJob(t) \/ RedisError(t)
           \/ \E s \in Heap : ServeCheck(s) \/ ServeListen(s) \/ ServeTrack(s)
<1>1. \A t \in Threads, u \in Threads : MapRace(t, u) => Crash
  BY DEF MapRace
<1>2. \A s \in Heap : ServeNil(s) => Crash
  BY DEF ServeNil
<1> QED
  BY <1>1, <1>2, Zenon DEF Next, Run, Serve, Outside

(* A step inside a section takes, keeps or gives back the locks of its     *)
(* goroutine only; an address that is allocated anew is locked by nobody.  *)
LEMMA LocksJob ==
    ASSUME LocksInv, NEW t \in Threads, RunJob(t) \/ RedisError(t)
    PROVE  HoldersInside' /\ LocksAreOwned'
<1> USE ThreadsDistinct
    DEF LocksInv, TypeInv, TypeOK, ControlOK, HoldersInside, HolderOK, LocksAreOwned, InSection,
        InCluster, Threads, Listeners, Busy, WithObject, Goto, mutexes, objects, threads
<1>1. ASSUME Lock(t) PROVE HoldersInside' /\ LocksAreOwned'
  BY <1>1 DEF Lock
<1>2. ASSUME RemoveAbsent(t) PROVE HoldersInside' /\ LocksAreOwned'
  BY <1>2 DEF RemoveAbsent
<1>3. ASSUME RemoveFound(t) PROVE HoldersInside' /\ LocksAreOwned'
  BY <1>3 DEF RemoveFound
<1>4. ASSUME MakeNew(t) PROVE HoldersInside' /\ LocksAreOwned'
  BY <1>4 DEF MakeNew, Lowest, FreeObject
<1>5. ASSUME MakeUpdate(t) PROVE HoldersInside' /\ LocksAreOwned'
  BY <1>5 DEF MakeUpdate
<1>6. ASSUME Fetch(t) PROVE HoldersInside' /\ LocksAreOwned'
  BY <1>6 DEF Fetch, BeforeRefresh
<1>7. ASSUME Teardown(t) PROVE HoldersInside' /\ LocksAreOwned'
  <2>1. /\ pc[t] = "teardown" /\ obj[t] \in Heap /\ objHolder[obj[t]] = None
        /\ pc' = [pc EXCEPT ![t] = "shutdown"]
        /\ objHolder' = [objHolder EXCEPT ![obj[t]] = t]
        /\ UNCHANGED <<holder, mx, obj>>
    BY <1>7 DEF Teardown, ClusterFree
  <2>2. HoldersInside'
    BY <2>1
  <2>3. LocksAreOwned'
    BY <2>1
  <2> QED
    BY <2>2, <2>3
<1>8. ASSUME Shutdown(t) PROVE HoldersInside' /\ LocksAreOwned'
  BY <1>8 DEF Shutdown
<1>9. ASSUME Drained(t) PROVE HoldersInside' /\ LocksAreOwned'
  BY <1>9 DEF Drained, AfterTeardown
<1>10. ASSUME DrainTimeout(t) PROVE HoldersInside' /\ LocksAreOwned'
  BY <1>10 DEF DrainTimeout, AfterTeardown
<1>11. ASSUME Refresh(t) PROVE HoldersInside' /\ LocksAreOwned'
  <2>1. /\ pc[t] = "refresh" /\ obj[t] \in Heap /\ objHolder[obj[t]] = None
        /\ pc' = [pc EXCEPT ![t] = "lrange"]
        /\ objHolder' = [objHolder EXCEPT ![obj[t]] = t]
        /\ UNCHANGED <<holder, mx, obj>>
    BY <1>11 DEF Refresh, ClusterFree
  <2>2. HoldersInside'
    BY <2>1
  <2>3. LocksAreOwned'
    BY <2>1
  <2> QED
    BY <2>2, <2>3
<1>12. ASSUME LRange(t) PROVE HoldersInside' /\ LocksAreOwned'
  <2>1. pc[t] = "lrange" /\ obj[t] \in Heap /\ UNCHANGED <<holder, mx, obj>>
    BY <1>12 DEF LRange
  <2>2. CASE NoBackends(t)
    <3>1. /\ pc' = [pc EXCEPT ![t] = "unlock"]
          /\ objHolder' = [objHolder EXCEPT ![obj[t]] = None]
      BY <1>12, <2>2 DEF LRange, RefreshFails
    <3> QED
      BY <2>1, <3>1
  <2>3. CASE ~NoBackends(t)
    <3>1. pc' = [pc EXCEPT ![t] = "config"] /\ objHolder' = objHolder
      BY <1>12, <2>3 DEF LRange
    <3> QED
      BY <2>1, <3>1
  <2> QED
    BY <2>2, <2>3
<1>13. ASSUME LRangeError(t) PROVE HoldersInside' /\ LocksAreOwned'
  BY <1>13 DEF LRangeError, RefreshFails
<1>14. ASSUME GetConfig(t) PROVE HoldersInside' /\ LocksAreOwned'
  BY <1>14 DEF GetConfig, StartServer
<1>15. ASSUME GetConfigError(t) PROVE HoldersInside' /\ LocksAreOwned'
  BY <1>15 DEF GetConfigError, StartServer
<1>16. ASSUME GetConfigUnsupported(t) PROVE HoldersInside' /\ LocksAreOwned'
  BY <1>16 DEF GetConfigUnsupported, RefreshFails
<1>17. ASSUME Register(t) PROVE HoldersInside' /\ LocksAreOwned'
  BY <1>17 DEF Register, Assign
<1>18. ASSUME Unregister(t) PROVE HoldersInside' /\ LocksAreOwned'
  BY <1>18 DEF Unregister, Assign
<1>19. ASSUME Unlock(t) PROVE HoldersInside' /\ LocksAreOwned'
  BY <1>19 DEF Unlock, Released
<1>20. ASSUME FetchNil(t) \/ ShutdownNil(t) PROVE HoldersInside' /\ LocksAreOwned'
  BY <1>20, LocksCrash DEF FetchNil, ShutdownNil
<1> HIDE DEF LocksInv, HoldersInside, LocksAreOwned
<1> QED
  BY <1>1, <1>2, <1>3, <1>4, <1>5, <1>6, <1>7, <1>8, <1>9, <1>10, <1>11, <1>12, <1>13, <1>14, <1>15, <1>16, <1>17, <1>18, <1>19, <1>20, Zenon DEF RunJob, RedisError

(* Whoever holds a lock is inside and on its way out, after every step.    *)
LEMMA LocksStep ==
    ASSUME ExclusionInv, LocksInv, [Next]_vars
    PROVE  HoldersInside' /\ LocksAreOwned'
<1>1. CASE Outside
  <2>1. Quiet
    BY <1>1, OutsideIsQuiet
  <2>2. \A t \in Threads : InSection(t) => mx[t] \in Heap
    BY DEF LocksInv, TypeInv, ControlOK, InSection
  <2>3. \A t \in Threads : pc[t] \in InCluster \/ pc'[t] \in InCluster
                             => pc'[t] = pc[t] /\ obj'[t] = obj[t] /\ InSection(t)
    BY <2>1 DEF Quiet, InSection, InCluster, Busy
  <2>4. HoldersInside'
    BY <2>1, <2>2, <2>3 DEF Quiet, LocksInv, HoldersInside, HolderOK, InSection, objects
  <2>5. \A m \in Heap : holder[m] # None => holder[m] \in Threads
    BY DEF LocksInv, TypeInv, TypeOK
  <2>6. \A c \in Heap : objHolder[c] # None => objHolder[c] \in Threads
    BY DEF LocksInv, TypeInv, TypeOK
  <2>7. LocksAreOwned'
    BY <2>1, <2>3, <2>5, <2>6 DEF Quiet, LocksInv, LocksAreOwned, InSection, objects
  <2> QED
    BY <2>4, <2>7
<1>2. CASE Crash
  BY <1>2, LocksCrash
<1>3. CASE UNCHANGED vars
  BY <1>3 DEF vars, threads, mutexes, objects, LocksInv, HoldersInside, HolderOK, LocksAreOwned,
              InSection, InCluster
<1>4. ASSUME NEW t \in Threads, RunJob(t) \/ RedisError(t)
      PROVE  HoldersInside' /\ LocksAreOwned'
  BY <1>4, LocksJob
<1>5. ASSUME NEW s \in Heap, ServeCheck(s) \/ ServeListen(s) \/ ServeTrack(s)
      PROVE  HoldersInside' /\ LocksAreOwned'
  BY <1>5 DEF ServeCheck, ServeListen, ServeTrack, ServeAdvances, threads, mutexes, objects,
              LocksInv, HoldersInside, HolderOK, LocksAreOwned, InSection, InCluster
<1> QED
  BY <1>1, <1>2, <1>3, <1>4, <1>5, NextCases

(* The locking discipline holds throughout. *)
LEMMA LocksInvariant == Spec => []LocksInv
<1>1. Init => LocksInv
  BY TypeInit, LocksInit DEF LocksInv
<1>2. ExclusionInv /\ LocksInv /\ [Next]_vars => LocksInv'
  BY TypeStep, LocksStep DEF LocksInv
<1> QED
  BY <1>1, <1>2, ExclusionInvariant, PTL DEF Spec

(* No lock outlives the call that took it: a mutex, or a cluster, that is  *)
(* held is held by a goroutine between its Lock and its Unlock.            *)
THEOREM LocksHaveOwners == Spec => []LocksAreOwned
<1>1. LocksInv => LocksAreOwned
  BY DEF LocksInv
<1> QED
  BY <1>1, LocksInvariant, PTL

(* Refresh and Teardown of one cluster exclude each other, on every port.  *)
THEOREM ClustersAreExclusive == Spec => []ClusterExclusion
<1>1. LocksInv => ClusterExclusion
  BY DEF LocksInv, HoldersInside, ClusterExclusion
<1> QED
  BY <1>1, LocksInvariant, PTL

-----------------------------------------------------------------------------
(* Only remove_frontend starts a removal: main, too, makes clusters only.  *)
MainMakes == pc[Main] \in Placed => job[Main] = "make"

(* Clusters and servers stay with the port they were allocated for, and a  *)
(* goroutine lets go of its cluster when it leaves the section.            *)
PlacesOK ==
    /\ \A t \in Threads : obj[t] # None => InSection(t) /\ obj[t][1] = arg[t]
    /\ \A p \in Ports : clusters[p] # None => clusters[p][1] = p
    /\ \A c \in Heap : impl[c] # None => impl[c][1] = c[1]

(* A goroutine that updates a safe port works on the registered cluster.   *)
SameCluster ==
    \A t \in Threads :
        pc[t] \in WithObject /\ arg[t] \in SafePorts /\ clusters[arg[t]] # None
            => obj[t] = clusters[arg[t]]

(* A cluster of a safe port that has a protocol object is registered, or   *)
(* is about to be.                                                         *)
OwnersOK ==
    \A c \in Heap : c[1] \in SafePorts /\ impl[c] # None =>
        clusters[c[1]] = c \/ \E t \in Threads : pc[t] = "register" /\ obj[t] = c

(* A live server was just started, or is that of the registered cluster,   *)
(* and whoever updates the cluster has not shut it down yet.               *)
Started(s) == \E t \in Threads : pc[t] = "register" /\ arg[t] = s[1] /\ impl[obj[t]] = s

Registered(s) ==
    /\ clusters[s[1]] # None
    /\ impl[clusters[s[1]]] = s
    /\ \A t \in Threads : InSection(t) /\ arg[t] = s[1]
          => pc[t] \in {"lookup", "fetch", "teardown", "shutdown", "unlock"}

LiveOK == \A s \in Heap : s[1] \in SafePorts /\ Live(s) => Started(s) \/ Registered(s)

(* The list of backends is read before the server is started. *)
BackendsOK ==
    /\ ServingHasBackends
    /\ \A t \in Threads : pc[t] \in {"config", "register"} /\ arg[t] \in SafePorts
                            => backends[obj[t]] # {}

ServersOK == PlacesOK /\ SameCluster /\ OwnersOK /\ LiveOK /\ BackendsOK

ServersInv == ExclusionInv /\ MainMakes /\ ServersOK

(* No cluster and no server at the start of the process ... *)
LEMMA ServersInit == Init => MainMakes /\ ServersOK
  BY ThreadsDistinct
  DEF Init, MainMakes, ServersOK, PlacesOK, SameCluster, OwnersOK, LiveOK, BackendsOK,
      ServingHasBackends, Live, OwnerOf, InSection, Nil, Const, FreshPc, Threads, Listeners,
      Placed, Busy, WithObject, SafePorts

(* ... nor after a crash. *)
LEMMA ServersCrash == Crash => MainMakes' /\ ServersOK'
  BY ThreadsDistinct
  DEF Crash, MainMakes, ServersOK, PlacesOK, SameCluster, OwnersOK, LiveOK, BackendsOK,
      ServingHasBackends, Live, OwnerOf, InSection, Nil, Const, FreshPc, Threads, Listeners,
      Placed, Busy, WithObject, SafePorts

(* Steps outside the sections leave clusters and servers as they are.      *)
LEMMA ServersQuiet == ASSUME ServersInv, Quiet PROVE ServersOK'
<1>1. UNCHANGED <<holder, clusters, objHolder, backends, impl, obj, hasServer, stopping, serve>>
  BY DEF Quiet, objects, servers
<1>2. \A t \in Threads : InSection(t) \/ InSection(t)'
                           => InSection(t) /\ InSection(t)' /\ pc'[t] = pc[t] /\ arg'[t] = arg[t]
  BY DEF Quiet, InSection
<1>3. \A t \in Threads : pc[t] \in WithObject \/ pc'[t] \in WithObject
                           => InSection(t) \/ InSection(t)'
  BY DEF InSection, WithObject
<1>4. PlacesOK'
  BY <1>1, <1>2 DEF ServersInv, ServersOK, PlacesOK
<1>5. SameCluster'
  BY <1>1, <1>2, <1>3 DEF ServersInv, ServersOK, SameCluster
<1>6. \A t \in Threads : (pc[t] = "register" <=> pc'[t] = "register")
                         /\ (pc[t] = "register" => arg'[t] = arg[t])
                         /\ (pc[t] = "config" <=> pc'[t] = "config")
                         /\ (pc[t] = "config" => arg'[t] = arg[t])
  BY <1>2 DEF InSection, Busy
<1>7. OwnersOK'
  BY <1>1, <1>6 DEF ServersInv, ServersOK, OwnersOK
<1>8. \A s : (Live(s) <=> Live(s)') /\ (Started(s) => Started(s)') /\ OwnerOf(s)' = OwnerOf(s)
  BY <1>1, <1>6 DEF Live, Started, OwnerOf
<1>9. \A s : Registered(s) => Registered(s)'
  BY <1>1, <1>2 DEF Registered
<1>10. LiveOK'
  BY <1>8, <1>9 DEF ServersInv, ServersOK, LiveOK
<1>11. BackendsOK'
  BY <1>1, <1>6, <1>8 DEF ServersInv, ServersOK, BackendsOK, ServingHasBackends
<1> QED
  BY <1>4, <1>5, <1>7, <1>10, <1>11 DEF ServersOK

(* Whoever is in the section of a safe port makes a cluster, and is alone. *)
LEMMA SafeMakes ==
    ASSUME ServersInv, NEW t \in Threads, InSection(t), arg[t] \in SafePorts
    PROVE  /\ job[t] = "make"
           /\ \A u \in Threads : InSection(u) /\ arg[u] = arg[t] => u = t
<1>1. t \notin Listeners
  BY DEF ServersInv, ExclusionInv, PhaseOK, InSection, Busy
<1>2. job[t] = "make"
  BY <1>1 DEF ServersInv, MainMakes, ExclusionInv, RemovesOK, InSection, Placed, Threads
<1> QED
  BY <1>2, OneHolder DEF ServersInv, PortExclusion, ExclusiveOn

(* The types of what the servers of the registry depend on. *)
ServersTypes ==
    /\ pc \in [Threads -> ThreadStates]
    /\ arg \in [Threads -> Ports \cup {None}]
    /\ obj \in [Threads -> Heap \cup {None}]
    /\ clusters \in [Ports -> Heap \cup {None}]
    /\ backends \in [Heap -> SUBSET Backends]
    /\ impl \in [Heap -> Heap \cup {None}]
    /\ stopping \in [Heap -> BOOLEAN]
    /\ serve \in [Heap -> ServeStates]

(* A goroutine moves on in its section and touches neither clusters nor    *)
(* servers: where a live server was possible, it still is.                 *)
Untouched == {"lookup", "fetch", "teardown", "shutdown", "unlock"}

LEMMA ServersMove ==
    ASSUME ServersInv, NEW t \in Threads, NEW to \in Busy,
           pc[t] \in ({"lock"} \cup Busy) \ {"register"},
           pc' = [pc EXCEPT ![t] = to],
           UNCHANGED <<arg, obj, clusters, backends, impl, stopping, serve>>,
           arg[t] \in SafePorts =>
              /\ to \in WithObject => pc[t] \in WithObject
              /\ to \in Untouched \/ pc[t] \notin Untouched \cup {"lock"}
              /\ to \notin {"config", "register"}
    PROVE  ServersOK'
<1>1. ServersTypes
  BY DEF ServersInv, ExclusionInv, TypeInv, TypeOK, ServersTypes
<1>2. \A u \in Threads \ {t} : pc'[u] = pc[u]
  BY <1>1 DEF ServersTypes
<1>3. pc'[t] = to
  BY <1>1 DEF ServersTypes
<1>4. PlacesOK'
  BY <1>2, <1>3 DEF ServersInv, ServersOK, PlacesOK, InSection
<1>5. SameCluster'
  BY <1>2, <1>3 DEF ServersInv, ServersOK, SameCluster
<1>6. OwnersOK'
  BY <1>2, <1>3 DEF ServersInv, ServersOK, OwnersOK
<1>7. ASSUME NEW s \in Heap, s[1] \in SafePorts, Live(s)'
      PROVE  (Started(s) \/ Registered(s))'
  <2>1. Live(s)
    BY <1>7 DEF Live
  <2>2. CASE Started(s)
    BY <2>2, <1>2 DEF Started
  <2>3. CASE Registered(s)
    <3>1. arg[t] = s[1] => to \in Untouched
      BY <2>3, <1>7 DEF Registered, InSection, Untouched
    <3>2. ASSUME NEW u \in Threads, InSection(u)', arg[u] = s[1]
          PROVE  pc'[u] \in Untouched
      BY <2>3, <1>2, <1>3, <3>1, <3>2 DEF Registered, InSection, Untouched
    <3> QED
      BY <2>3, <3>2 DEF Registered, Untouched
  <2> QED
    BY <1>7, <2>1, <2>2, <2>3 DEF ServersInv, ServersOK, LiveOK
<1>8. LiveOK'
  BY <1>7 DEF LiveOK
<1>9. BackendsOK'
  BY <1>2, <1>3 DEF ServersInv, ServersOK, BackendsOK, ServingHasBackends, Live, OwnerOf
<1> QED
  BY <1>4, <1>5, <1>6, <1>8, <1>9 DEF ServersOK

(* A cluster that is allocated is that of no server. *)
LEMMA ServersNew ==
    ASSUME ServersInv, NEW t \in Threads, MakeNew(t)
    PROVE  ServersOK'
<1> USE DEF ServersInv, ServersOK
<1>1. PICK c \in Heap : /\ c[1] = arg[t] /\ FreeObject(c)
                        /\ obj' = [obj EXCEPT ![t] = c]
                        /\ backends' = [backends EXCEPT ![c] = {}]
                        /\ impl' = [impl EXCEPT ![c] = None]
  BY DEF MakeNew, Lowest
<1>2. /\ pc[t] = "lookup" /\ clusters[arg[t]] = None
      /\ pc' = [pc EXCEPT ![t] = "refresh"]
      /\ UNCHANGED <<arg, clusters, stopping, serve>>
  BY DEF MakeNew, Goto, servers
<1>3. ServersTypes
  BY DEF ExclusionInv, TypeInv, TypeOK, ServersTypes
<1>4. /\ pc'[t] = "refresh" /\ obj'[t] = c
      /\ \A u \in Threads \ {t} : pc'[u] = pc[u] /\ obj'[u] = obj[u]
  BY <1>1, <1>2, <1>3 DEF ServersTypes
<1>5. /\ impl'[c] = None
      /\ \A d \in Heap \ {c} : impl'[d] = impl[d] /\ backends'[d] = backends[d]
  BY <1>1, <1>3 DEF ServersTypes
<1>6. /\ \A u \in Threads : obj[u] # c
      /\ \A p \in Ports : clusters[p] # c
      /\ \A u \in Threads : pc[u] = "register" => obj[u] \in Heap
  BY <1>1, <1>3, ThreadsDistinct
     DEF FreeObject, PlacesOK, ServersTypes, ExclusionInv, TypeInv, ControlOK, WithObject, Busy
<1>7. PlacesOK'
  BY <1>1, <1>2, <1>4, <1>5 DEF PlacesOK, InSection, Busy
<1>8. SameCluster'
  BY <1>2, <1>4 DEF SameCluster
<1>9. OwnersOK'
  BY <1>2, <1>4, <1>5 DEF OwnersOK
<1>10. ASSUME NEW s \in Heap, s[1] \in SafePorts, Live(s)'
       PROVE  (Started(s) \/ Registered(s))'
  <2>1. Live(s)
    BY <1>2, <1>10 DEF Live
  <2>2. CASE Started(s)
    BY <2>2, <1>2, <1>4, <1>5, <1>6 DEF Started
  <2>3. CASE Registered(s)
    <3>1. s[1] \in Ports /\ arg[t] # s[1] /\ clusters[s[1]] \in Heap \ {c}
      BY <2>3, <1>2, <1>3, <1>6, <1>10 DEF Registered, ServersTypes, SafePorts
    <3> QED
      BY <2>3, <3>1, <1>2, <1>4, <1>5 DEF Registered, InSection
  <2> QED
    BY <1>10, <2>1, <2>2, <2>3 DEF LiveOK
<1>11. LiveOK'
  BY <1>10 DEF LiveOK
<1>12. BackendsOK'
  <2>1. ServingHasBackends'
    BY <1>2, <1>5, ThreadsDistinct DEF BackendsOK, ServingHasBackends, Live, OwnerOf
  <2>2. \A u \in Threads : pc[u] \in {"config", "register"} => obj[u] \in Heap \ {c}
    BY <1>6 DEF ExclusionInv, TypeInv, ControlOK, WithObject, Busy
  <2> QED
    BY <2>1, <2>2, <1>2, <1>4, <1>5 DEF BackendsOK
<1> QED
  BY <1>7, <1>8, <1>9, <1>11, <1>12 DEF ServersOK

(* Update and removal take the registered cluster. *)
LEMMA ServersTake ==
    ASSUME ServersInv, NEW t \in Threads, Fetch(t) \/ RemoveFound(t)
    PROVE  ServersOK'
<1> USE DEF ServersInv, ServersOK
<1>1. /\ pc[t] \in {"lookup", "fetch"} /\ clusters[arg[t]] # None
      /\ pc' = [pc EXCEPT ![t] = "teardown"]
      /\ obj' = [obj EXCEPT ![t] = clusters[arg[t]]]
      /\ UNCHANGED <<arg, clusters, backends, impl, stopping, serve>>
  BY DEF Fetch, RemoveFound, BeforeRefresh, Goto, objects, servers
<1>2. ServersTypes /\ arg[t] \in Ports
  BY <1>1 DEF ExclusionInv, TypeInv, TypeOK, ControlOK, Placed, Busy, ServersTypes
<1>3. /\ pc'[t] = "teardown" /\ obj'[t] = clusters[arg[t]]
      /\ \A u \in Threads \ {t} : pc'[u] = pc[u] /\ obj'[u] = obj[u]
  BY <1>1, <1>2 DEF ServersTypes
<1>4. PlacesOK'
  BY <1>1, <1>2, <1>3 DEF PlacesOK, InSection, Busy
<1>5. SameCluster'
  BY <1>1, <1>3 DEF SameCluster
<1>6. OwnersOK'
  BY <1>1, <1>3 DEF OwnersOK
<1>7. ASSUME NEW s \in Heap, s[1] \in SafePorts, Live(s)'
      PROVE  (Started(s) \/ Registered(s))'
  <2>1. Live(s)
    BY <1>1, <1>7 DEF Live
  <2>2. CASE Started(s)
    BY <2>2, <1>1, <1>3 DEF Started
  <2>3. CASE Registered(s)
    BY <2>3, <1>1, <1>3 DEF Registered, InSection
  <2> QED
    BY <1>7, <2>1, <2>2, <2>3 DEF LiveOK
<1>8. LiveOK'
  BY <1>7 DEF LiveOK
<1>9. BackendsOK'
  BY <1>1, <1>3 DEF BackendsOK, ServingHasBackends, Live, OwnerOf
<1> QED
  BY <1>4, <1>5, <1>6, <1>8, <1>9 DEF ServersOK

(* The server that is shut down is the one that may be live. *)
LEMMA ServersShutdown ==
    ASSUME ServersInv, NEW t \in Threads, Shutdown(t)
    PROVE  ServersOK'
<1> USE DEF ServersInv, ServersOK
<1> DEFINE old == impl[obj[t]]
<1>1. /\ pc[t] = "shutdown" /\ old # None
      /\ pc' = [pc EXCEPT ![t] = "drain"]
      /\ stopping' = [stopping EXCEPT ![old] = TRUE]
      /\ serve' = [serve EXCEPT ![old] = IF @ = "listening" THEN "closed" ELSE @]
      /\ UNCHANGED <<arg, obj, clusters, backends, impl>>
  BY DEF Shutdown, Goto, objects
<1>2. ServersTypes /\ obj[t] \in Heap /\ old \in Heap
  BY <1>1 DEF ExclusionInv, TypeInv, TypeOK, ControlOK, WithObject, Busy, ServersTypes
<1>3. pc'[t] = "drain" /\ \A u \in Threads \ {t} : pc'[u] = pc[u]
  BY <1>1, <1>2 DEF ServersTypes
<1>4. \A s \in Heap : Live(s)' => Live(s) /\ s # old
  BY <1>1, <1>2 DEF Live, ServersTypes
<1>5. PlacesOK'
  BY <1>1, <1>3 DEF PlacesOK, InSection, Busy
<1>6. SameCluster'
  BY <1>1, <1>3 DEF SameCluster, WithObject, Busy
<1>7. OwnersOK'
  BY <1>1, <1>3 DEF OwnersOK
<1>8. ASSUME NEW s \in Heap, s[1] \in SafePorts, Live(s)'
      PROVE  (Started(s) \/ Registered(s))'
  <2>1. Live(s) /\ s # old
    BY <1>4, <1>8
  <2>2. CASE Started(s)
    BY <2>2, <1>1, <1>3 DEF Started
  <2>3. CASE Registered(s)
    <3>1. arg[t] # s[1]
      BY <1>1, <1>8, <2>1, <2>3 DEF Registered, SameCluster, WithObject, Busy
    <3> QED
      BY <2>3, <3>1, <1>1, <1>3 DEF Registered, InSection
  <2> QED
    BY <1>8, <2>1, <2>2, <2>3 DEF LiveOK
<1>9. LiveOK'
  BY <1>8 DEF LiveOK
<1>10. BackendsOK'
  BY <1>1, <1>3, <1>4 DEF BackendsOK, ServingHasBackends, OwnerOf
<1> QED
  BY <1>5, <1>6, <1>7, <1>9, <1>10 DEF ServersOK

(* The list of backends is replaced while no server of the port is live.   *)
LEMMA ServersList ==
    ASSUME ServersInv, NEW t \in Threads, LRange(t)
    PROVE  ServersOK'
<1> USE DEF ServersInv, ServersOK
<1>1. PICK to \in {"unlock", "config"} :
         /\ pc' = [pc EXCEPT ![t] = to]
         /\ to = "config" => frontend[arg[t]] # {}
  BY DEF LRange, RefreshFails, Goto, NoBackends, NewBackends
<1>2. /\ pc[t] = "lrange"
      /\ backends' = [backends EXCEPT ![obj[t]] = frontend[arg[t]]]
      /\ UNCHANGED <<arg, obj, clusters, impl, stopping, serve>>
  BY DEF LRange, NewBackends, servers
<1>3. ServersTypes /\ obj[t] \in Heap /\ arg[t] \in Ports /\ InSection(t)
  BY <1>2 DEF ExclusionInv, TypeInv, TypeOK, ControlOK, WithObject, Placed, Busy, ServersTypes,
              InSection
<1>4. pc'[t] = to /\ \A u \in Threads \ {t} : pc'[u] = pc[u]
  BY <1>1, <1>3 DEF ServersTypes
<1>5. /\ backends'[obj[t]] = frontend[arg[t]]
      /\ \A c \in Heap \ {obj[t]} : backends'[c] = backends[c]
  BY <1>2, <1>3 DEF ServersTypes
<1>6. \A s \in Heap : s[1] \in SafePorts /\ Live(s)' =>
         Live(s) /\ s[1] # arg[t] /\ (Started(s) \/ Registered(s))
  <2> SUFFICES ASSUME NEW s \in Heap, s[1] \in SafePorts, Live(s)'
               PROVE  Live(s) /\ s[1] # arg[t] /\ (Started(s) \/ Registered(s))
    OBVIOUS
  <2>1. Live(s) /\ (Started(s) \/ Registered(s))
    BY <1>2 DEF Live, LiveOK
  <2>2. s[1] = arg[t] => ~Registered(s)
    BY <1>2, <1>3 DEF Registered
  <2>3. s[1] = arg[t] => ~Started(s)
    BY <1>2, <1>3, SafeMakes DEF Started, InSection, Busy
  <2> QED
    BY <2>1, <2>2, <2>3
<1>7. PlacesOK'
  BY <1>2, <1>3, <1>4 DEF PlacesOK, InSection, Busy
<1>8. SameCluster'
  BY <1>2, <1>4 DEF SameCluster, WithObject, Busy
<1>9. OwnersOK'
  BY <1>1, <1>2, <1>4 DEF OwnersOK
<1>10. ASSUME NEW s \in Heap, s[1] \in SafePorts, Live(s)'
       PROVE  (Started(s) \/ Registered(s))'
  <2>1. CASE Started(s)
    BY <2>1, <1>2, <1>4 DEF Started
  <2>2. CASE Registered(s)
    BY <2>2, <1>2, <1>4, <1>6, <1>10 DEF Registered, InSection
  <2> QED
    BY <1>6, <1>10, <2>1, <2>2
<1>11. LiveOK'
  BY <1>10 DEF LiveOK
<1>12. ServingHasBackends'
  <2> SUFFICES ASSUME NEW s \in Heap, s[1] \in SafePorts, Live(s)',
                      NEW c \in Heap, impl[c] = s
               PROVE  backends'[c] # {}
    BY <1>2 DEF ServingHasBackends, OwnerOf
  <2>1. c[1] = s[1] /\ s[1] # arg[t] /\ backends[c] # {}
    BY <1>6, ThreadsDistinct DEF PlacesOK, BackendsOK, ServingHasBackends, OwnerOf
  <2>2. c # obj[t]
    BY <1>3, <2>1, ThreadsDistinct DEF PlacesOK
  <2> QED
    BY <1>5, <2>1, <2>2
<1>13. ASSUME NEW u \in Threads, pc'[u] \in {"config", "register"}, arg[u] \in SafePorts
       PROVE  backends'[obj[u]] # {}
  <2>1. CASE u = t
    BY <2>1, <1>1, <1>4, <1>5, <1>13
  <2>2. CASE u # t
    <3>1. pc[u] \in {"config", "register"} /\ InSection(u) /\ obj[u] \in Heap
      BY <2>2, <1>4, <1>13 DEF InSection, Busy, ExclusionInv, TypeInv, ControlOK, WithObject
    <3>2. arg[u] # arg[t]
      BY <2>2, <3>1, <1>3, <1>13, SafeMakes
    <3>3. obj[u] # obj[t]
      BY <3>1, <3>2, <1>3, ThreadsDistinct DEF PlacesOK
    <3> QED
      BY <3>1, <3>3, <1>5, <1>13 DEF BackendsOK
  <2> QED
    BY <2>1, <2>2
<1>14. BackendsOK'
  BY <1>2, <1>12, <1>13 DEF BackendsOK
<1> QED
  BY <1>7, <1>8, <1>9, <1>11, <1>14 DEF ServersOK

(* The server that is started is nobody else's, and the only live one of   *)
(* its port.                                                               *)
LEMMA ServersStart ==
    ASSUME ServersInv, NEW t \in Threads, pc[t] = "config", StartServer(t)
    PROVE  ServersOK'
<1> USE DEF ServersInv, ServersOK
<1>1. PICK new \in Heap : /\ new[1] = arg[t] /\ FreeServer(new)
                          /\ impl' = [impl EXCEPT ![obj[t]] = new]
                          /\ stopping' = [stopping EXCEPT ![new] = FALSE]
                          /\ serve' = [serve EXCEPT ![new] = "spawned"]
  BY DEF StartServer, Lowest
<1>2. /\ pc' = [pc EXCEPT ![t] = "register"]
      /\ UNCHANGED <<arg, obj, clusters, backends>>
  BY DEF StartServer, Goto
<1>3. ServersTypes /\ obj[t] \in Heap /\ arg[t] \in Ports /\ InSection(t)
  BY DEF ExclusionInv, TypeInv, TypeOK, ControlOK, WithObject, Placed, Busy, ServersTypes,
         InSection
<1>4. pc'[t] = "register" /\ \A u \in Threads \ {t} : pc'[u] = pc[u]
  BY <1>2, <1>3 DEF ServersTypes
<1>5. /\ impl'[obj[t]] = new
      /\ \A c \in Heap \ {obj[t]} : impl'[c] = impl[c]
  BY <1>1, <1>3 DEF ServersTypes
<1>6. \A s \in Heap : Live(s)' => Live(s) \/ s = new
  BY <1>1, <1>3 DEF Live, ServersTypes
<1>7. obj[t][1] = arg[t] /\ \A c \in Heap : c[1] = arg[t] => c[1] \in Ports
  BY <1>3, ThreadsDistinct DEF PlacesOK
<1>8. PlacesOK'
  BY <1>1, <1>2, <1>3, <1>4, <1>5, <1>7 DEF PlacesOK, InSection, Busy
<1>9. SameCluster'
  BY <1>2, <1>4 DEF SameCluster, WithObject, Busy
<1>10. OwnersOK'
  BY <1>2, <1>4, <1>5 DEF OwnersOK
<1>11. ASSUME NEW s \in Heap, s[1] \in SafePorts, Live(s)'
       PROVE  (Started(s) \/ Registered(s))'
  <2>1. CASE s = new
    BY <2>1, <1>1, <1>2, <1>4, <1>5 DEF Started
  <2>2. ASSUME s # new, NEW u \in Threads, pc[u] = "register", arg[u] = s[1], impl[obj[u]] = s
        PROVE  Started(s)'
    <3>1. u # t /\ InSection(u) /\ obj[u] \in Heap /\ obj[u][1] = arg[u]
      BY <2>2, ThreadsDistinct
         DEF InSection, Busy, ExclusionInv, TypeInv, ControlOK, WithObject, PlacesOK
    <3>2. arg[u] # arg[t]
      BY <2>2, <3>1, <1>3, <1>11, SafeMakes
    <3>3. obj[u] # obj[t]
      BY <3>1, <3>2, <1>7
    <3> QED
      BY <2>2, <3>1, <3>3, <1>2, <1>4, <1>5 DEF Started
  <2>3. CASE s # new /\ Registered(s)
    <3>1. arg[t] # s[1]
      BY <2>3, <1>3 DEF Registered
    <3>2. clusters[s[1]] \in Heap /\ clusters[s[1]][1] = s[1]
      BY <2>3, <1>3, <1>11 DEF Registered, PlacesOK, ServersTypes, SafePorts
    <3>3. clusters[s[1]] # obj[t]
      BY <3>1, <3>2, <1>7
    <3> QED
      BY <2>3, <3>1, <3>2, <3>3, <1>2, <1>4, <1>5 DEF Registered, InSection
  <2>4. s # new => Started(s) \/ Registered(s)
    BY <1>6, <1>11 DEF LiveOK
  <2> QED
    BY <2>1, <2>2, <2>3, <2>4 DEF Started
<1>12. LiveOK'
  BY <1>11 DEF LiveOK
<1>13. ASSUME NEW s \in Heap, s[1] \in SafePorts, Live(s)', NEW c \in Heap, impl'[c] = s
       PROVE  backends[c] # {}
  <2>1. CASE c = obj[t]
    BY <2>1, <1>1, <1>5, <1>13 DEF BackendsOK
  <2>2. CASE c # obj[t] /\ s = new
    <3>1. impl[c] = new /\ c[1] \in SafePorts /\ FreeObject(c)
      BY <2>2, <1>1, <1>5, <1>13, ThreadsDistinct DEF FreeServer, PlacesOK
    <3> QED
      BY <3>1, ThreadsDistinct DEF FreeObject, OwnersOK
  <2>3. CASE c # obj[t] /\ s # new
    BY <2>3, <1>5, <1>6, <1>13 DEF BackendsOK, ServingHasBackends, OwnerOf
  <2> QED
    BY <2>1, <2>2, <2>3
<1>14. BackendsOK'
  <2>1. ServingHasBackends'
    BY <1>2, <1>13 DEF ServingHasBackends, OwnerOf
  <2> QED
    BY <2>1, <1>2, <1>4 DEF BackendsOK
<1> QED
  BY <1>8, <1>9, <1>10, <1>12, <1>14 DEF ServersOK

(* The cluster that is registered takes its live server along. *)
LEMMA ServersRegister ==
    ASSUME ServersInv, NEW t \in Threads, Register(t)
    PROVE  ServersOK'
<1> USE DEF ServersInv, ServersOK
<1>1. /\ pc[t] = "register"
      /\ pc' = [pc EXCEPT ![t] = "unlock"]
      /\ clusters' = [clusters EXCEPT ![arg[t]] = obj[t]]
      /\ UNCHANGED <<arg, obj, backends, impl, stopping, serve>>
  BY DEF Register, Assign, Goto, objects, servers
<1>2. ServersTypes /\ obj[t] \in Heap /\ arg[t] \in Ports /\ InSection(t)
  BY <1>1 DEF ExclusionInv, TypeInv, TypeOK, ControlOK, WithObject, Placed, Busy, ServersTypes,
              InSection
<1>3. pc'[t] = "unlock" /\ \A u \in Threads \ {t} : pc'[u] = pc[u]
  BY <1>1, <1>2 DEF ServersTypes
<1>4. /\ clusters'[arg[t]] = obj[t]
      /\ \A p \in Ports \ {arg[t]} : clusters'[p] = clusters[p]
  BY <1>1, <1>2 DEF ServersTypes
<1>5. obj[t][1] = arg[t] /\ obj[t] # None
  BY <1>2, ThreadsDistinct DEF PlacesOK
<1>6. \A u \in Threads : InSection(u) /\ arg[u] = arg[t] /\ arg[t] \in SafePorts => u = t
  BY <1>2, SafeMakes
<1>7. PlacesOK'
  BY <1>1, <1>3, <1>4, <1>5 DEF PlacesOK, InSection, Busy
<1>8. SameCluster'
  <2> SUFFICES ASSUME NEW u \in Threads, pc'[u] \in WithObject, arg[u] \in SafePorts,
                      clusters'[arg[u]] # None
               PROVE  obj[u] = clusters'[arg[u]]
    BY <1>1 DEF SameCluster
  <2>1. u # t /\ pc[u] \in WithObject /\ InSection(u)
    BY <1>3 DEF WithObject, InSection
  <2>2. arg[u] # arg[t] /\ arg[u] \in Ports
    BY <2>1, <1>6 DEF SafePorts
  <2> QED
    BY <2>1, <2>2, <1>4 DEF SameCluster
<1>9. OwnersOK'
  <2> SUFFICES ASSUME NEW c \in Heap, c[1] \in SafePorts, impl[c] # None, clusters'[c[1]] # c
               PROVE  \E u \in Threads : pc'[u] = "register" /\ obj[u] = c
    BY <1>1 DEF OwnersOK
  <2>1. CASE clusters[c[1]] = c
    <3>1. c[1] = arg[t] /\ clusters[arg[t]] # None
      BY <2>1, <1>4, ThreadsDistinct DEF SafePorts
    <3>2. obj[t] = c
      BY <2>1, <3>1, <1>1 DEF SameCluster, WithObject, Busy
    <3> QED
      BY <3>1, <3>2, <1>4
  <2>2. ASSUME NEW u \in Threads, pc[u] = "register", obj[u] = c
        PROVE  pc'[u] = "register"
    BY <2>2, <1>3, <1>4, <1>5
  <2> QED
    BY <2>1, <2>2, <1>3 DEF OwnersOK
<1>10. ASSUME NEW s \in Heap, s[1] \in SafePorts, Live(s)'
       PROVE  (Started(s) \/ Registered(s))'
  <2>1. Started(s) \/ Registered(s)
    BY <1>1, <1>10 DEF Live, LiveOK
  <2>2. ASSUME NEW u \in Threads, pc[u] = "register", arg[u] = s[1], impl[obj[u]] = s
        PROVE  (Started(s) \/ Registered(s))'
    <3>1. CASE u = t
      <4>1. clusters'[s[1]] # None /\ impl[clusters'[s[1]]] = s
        BY <2>2, <3>1, <1>4, <1>5
      <4>2. \A v \in Threads : InSection(v)' /\ arg[v] = s[1] => v = t
        BY <2>2, <3>1, <1>3, <1>6, <1>10 DEF InSection
      <4> QED
        BY <4>1, <4>2, <1>1, <1>3 DEF Registered
    <3>2. CASE u # t
      BY <2>2, <3>2, <1>1, <1>3 DEF Started
    <3> QED
      BY <3>1, <3>2
  <2>3. CASE Registered(s)
    <3>1. arg[t] # s[1]
      BY <2>3, <1>1, <1>2 DEF Registered
    <3> QED
      BY <2>3, <3>1, <1>1, <1>3, <1>4, <1>10 DEF Registered, InSection, SafePorts
  <2> QED
    BY <2>1, <2>2, <2>3 DEF Started
<1>11. LiveOK'
  BY <1>10 DEF LiveOK
<1>12. BackendsOK'
  BY <1>1, <1>3 DEF BackendsOK, ServingHasBackends, Live, OwnerOf
<1> QED
  BY <1>7, <1>8, <1>9, <1>11, <1>12 DEF ServersOK

(* A removal leaves the safe ports alone. *)
LEMMA ServersUnregister ==
    ASSUME ServersInv, NEW t \in Threads, Unregister(t)
    PROVE  ServersOK'
<1> USE DEF ServersInv, ServersOK
<1>1. /\ pc[t] = "register" /\ job[t] = "remove"
      /\ pc' = [pc EXCEPT ![t] = "unlock"]
      /\ clusters' = [clusters EXCEPT ![arg[t]] = None]
      /\ UNCHANGED <<arg, obj, backends, impl, stopping, serve>>
  BY DEF Unregister, Assign, Goto, objects, servers
<1>2. ServersTypes /\ obj[t] \in Heap /\ arg[t] \in Ports /\ InSection(t)
  BY <1>1 DEF ExclusionInv, TypeInv, TypeOK, ControlOK, WithObject, Placed, Busy, ServersTypes,
              InSection
<1>3. pc'[t] = "unlock" /\ \A u \in Threads \ {t} : pc'[u] = pc[u]
  BY <1>1, <1>2 DEF ServersTypes
<1>4. /\ arg[t] \notin SafePorts
      /\ clusters'[arg[t]] = None
      /\ \A p \in Ports \ {arg[t]} : clusters'[p] = clusters[p]
  BY <1>1, <1>2, SafeMakes DEF ServersTypes
<1>5. obj[t][1] = arg[t]
  BY <1>2, ThreadsDistinct DEF PlacesOK
<1>6. PlacesOK'
  BY <1>1, <1>3, <1>4 DEF PlacesOK, InSection, Busy
<1>7. SameCluster'
  BY <1>1, <1>3, <1>4 DEF SameCluster, WithObject, SafePorts
<1>8. OwnersOK'
  <2> SUFFICES ASSUME NEW c \in Heap, c[1] \in SafePorts, impl[c] # None, clusters'[c[1]] # c
               PROVE  \E u \in Threads : pc'[u] = "register" /\ obj[u] = c
    BY <1>1 DEF OwnersOK
  <2>1. c[1] # arg[t] /\ clusters[c[1]] # c
    BY <1>4 DEF SafePorts
  <2> QED
    BY <2>1, <1>3, <1>5 DEF OwnersOK
<1>9. ASSUME NEW s \in Heap, s[1] \in SafePorts, Live(s)'
      PROVE  (Started(s) \/ Registered(s))'
  <2>1. s[1] # arg[t] /\ (Started(s) \/ Registered(s))
    BY <1>1, <1>4, <1>9 DEF Live, LiveOK
  <2>2. CASE Started(s)
    BY <2>1, <2>2, <1>1, <1>3 DEF Started
  <2>3. CASE Registered(s)
    BY <2>1, <2>3, <1>1, <1>3, <1>4, <1>9 DEF Registered, InSection, SafePorts
  <2> QED
    BY <2>1, <2>2, <2>3
<1>10. LiveOK'
  BY <1>9 DEF LiveOK
<1>11. BackendsOK'
  BY <1>1, <1>3 DEF BackendsOK, ServingHasBackends, Live, OwnerOf
<1> QED
  BY <1>6, <1>7, <1>8, <1>10, <1>11 DEF ServersOK

(* The end of a goroutine takes away no cluster that is in use. *)
LEMMA ServersUnlock ==
    ASSUME ServersInv, NEW t \in Threads, Unlock(t)
    PROVE  ServersOK'
<1> USE DEF ServersInv, ServersOK
<1>1. /\ pc[t] = "unlock"
      /\ pc' = [pc EXCEPT ![t] = IF t = Main THEN "next" ELSE "idle"]
      /\ arg' = [arg EXCEPT ![t] = None] /\ obj' = [obj EXCEPT ![t] = None]
      /\ UNCHANGED <<clusters, backends, impl, stopping, serve>>
  BY DEF Unlock, Goto, objects, servers
<1>2. ServersTypes
  BY DEF ExclusionInv, TypeInv, TypeOK, ServersTypes
<1>3. /\ pc'[t] \in {"next", "idle"} /\ obj'[t] = None
      /\ \A u \in Threads \ {t} : pc'[u] = pc[u] /\ arg'[u] = arg[u] /\ obj'[u] = obj[u]
  BY <1>1, <1>2 DEF ServersTypes
<1>4. PlacesOK'
  BY <1>1, <1>3 DEF PlacesOK, InSection
<1>5. SameCluster'
  BY <1>1, <1>3 DEF SameCluster, WithObject, Busy
<1>6. OwnersOK'
  BY <1>1, <1>3 DEF OwnersOK
<1>7. ASSUME NEW s \in Heap, s[1] \in SafePorts, Live(s)'
      PROVE  (Started(s) \/ Registered(s))'
  <2>1. Started(s) \/ Registered(s)
    BY <1>1, <1>7 DEF Live, LiveOK
  <2>2. CASE Started(s)
    BY <2>2, <1>1, <1>3 DEF Started
  <2>3. CASE Registered(s)
    BY <2>3, <1>1, <1>3 DEF Registered, InSection, Busy
  <2> QED
    BY <2>1, <2>2, <2>3
<1>8. LiveOK'
  BY <1>7 DEF LiveOK
<1>9. BackendsOK'
  BY <1>1, <1>3 DEF BackendsOK, ServingHasBackends, Live, OwnerOf
<1> QED
  BY <1>4, <1>5, <1>6, <1>8, <1>9 DEF ServersOK

(* The goroutine of a server makes nothing live that was not. *)
LEMMA ServersServe ==
    ASSUME ServersInv, NEW s \in Heap, ServeCheck(s) \/ ServeListen(s) \/ ServeTrack(s)
    PROVE  ServersOK'
<1>1. UNCHANGED <<pc, arg, obj, clusters, backends, impl, stopping>>
  BY DEF ServeCheck, ServeListen, ServeTrack, ServeAdvances, threads, objects
<1>2. ServersTypes
  BY DEF ServersInv, ExclusionInv, TypeInv, TypeOK, ServersTypes
<1>3. \A u \in Heap : Live(u)' => Live(u)
  BY <1>2 DEF ServeCheck, ServeListen, ServeTrack, ServeAdvances, Live, ServersTypes
<1>4. \A u : (Started(u)' <=> Started(u)) /\ (Registered(u)' <=> Registered(u))
             /\ OwnerOf(u)' = OwnerOf(u)
  BY <1>1 DEF Started, Registered, OwnerOf, InSection
<1>5. PlacesOK' /\ SameCluster' /\ OwnersOK'
  BY <1>1 DEF ServersInv, ServersOK, PlacesOK, SameCluster, OwnersOK, InSection
<1>6. LiveOK'
  BY <1>3, <1>4 DEF ServersInv, ServersOK, LiveOK
<1>7. BackendsOK'
  BY <1>1, <1>3, <1>4 DEF ServersInv, ServersOK, BackendsOK, ServingHasBackends
<1> QED
  BY <1>5, <1>6, <1>7 DEF ServersOK

(* A step in a section keeps the clusters and the servers in order.        *)
LEMMA ServersJob ==
    ASSUME ServersInv, NEW t \in Threads, RunJob(t) \/ RedisError(t)
    PROVE  ServersOK'
<1>1. InSection(t) /\ arg[t] \in SafePorts => job[t] = "make"
  BY SafeMakes
<1> USE DEF Goto, mutexes, objects, servers, threads
<1>2. ASSUME NEW to \in Busy,
             pc[t] \in ({"lock"} \cup Busy) \ {"register"},
             pc' = [pc EXCEPT ![t] = to],
             UNCHANGED <<arg, obj, clusters, backends, impl, stopping, serve>>,
             arg[t] \in SafePorts =>
                /\ to \in WithObject => pc[t] \in WithObject
                /\ to \in Untouched \/ pc[t] \notin Untouched \cup {"lock"}
                /\ to \notin {"config", "register"}
      PROVE  ServersOK'
  BY <1>2, ServersMove
<1>3. CASE Lock(t)
  BY <1>2, <1>3 DEF Lock, Busy, WithObject, Untouched
<1>4. CASE RemoveAbsent(t)
  BY <1>1, <1>2, <1>4 DEF RemoveAbsent, Busy, WithObject, Untouched, InSection
<1>5. CASE MakeUpdate(t)
  BY <1>2, <1>5 DEF MakeUpdate, Busy, WithObject, Untouched
<1>6. CASE Teardown(t)
  BY <1>2, <1>6 DEF Teardown, Busy, WithObject, Untouched
<1>7. CASE Drained(t) \/ DrainTimeout(t)
  <2> DEFINE to == IF job[t] = "make" THEN "refresh" ELSE "register"
  <2>1. pc[t] = "drain" /\ pc' = [pc EXCEPT ![t] = to]
        /\ UNCHANGED <<arg, obj, clusters, backends, impl, stopping, serve>>
    BY <1>7 DEF Drained, DrainTimeout, AfterTeardown
  <2>2. to \in Busy /\ pc[t] \in Busy \ {"register"} /\ InSection(t)
        /\ (to \in WithObject => pc[t] \in WithObject) /\ pc[t] \notin Untouched \cup {"lock"}
    BY <2>1 DEF Busy, WithObject, Untouched, InSection
  <2>3. arg[t] \in SafePorts => to \notin {"config", "register"}
    BY <2>2, <1>1
  <2> HIDE DEF to
  <2> QED
    BY <2>1, <2>2, <2>3, <1>2
<1>8. CASE Refresh(t)
  BY <1>2, <1>8 DEF Refresh, Busy, WithObject, Untouched
<1>9. CASE LRangeError(t)
  BY <1>2, <1>9 DEF LRangeError, RefreshFails, Busy, WithObject, Untouched
<1>10. CASE GetConfigUnsupported(t)
  BY <1>2, <1>10 DEF GetConfigUnsupported, RefreshFails, Busy, WithObject, Untouched
<1>11. CASE FetchNil(t) \/ ShutdownNil(t)
  BY <1>11, ServersCrash DEF FetchNil, ShutdownNil
<1>12. CASE GetConfig(t) \/ GetConfigError(t)
  BY <1>12, ServersStart DEF GetConfig, GetConfigError
<1>13. CASE Register(t) \/ Unregister(t) \/ Unlock(t)
  BY <1>13, ServersRegister, ServersUnregister, ServersUnlock
<1>14. CASE MakeNew(t) \/ Fetch(t) \/ RemoveFound(t) \/ Shutdown(t) \/ LRange(t)
  BY <1>14, ServersNew, ServersTake, ServersShutdown, ServersList
<1> QED
  BY <1>3, <1>4, <1>5, <1>6, <1>7, <1>8, <1>9, <1>10, <1>11, <1>12, <1>13, <1>14, Zenon
     DEF RunJob, RedisError

(* main is given no job but those it takes from the startup scan. *)
LEMMA MainStep == ASSUME ServersInv, [Next]_vars PROVE MainMakes'
<1> USE ThreadsDistinct
    DEF ServersInv, ExclusionInv, TypeInv, TypeOK, MainMakes, Threads, Listeners, Placed, Busy,
        PhaseOK, Goto, threads
<1>1. ASSUME GetFrontends PROVE MainMakes'
  BY <1>1 DEF GetFrontends
<1>2. ASSUME NEW p \in Ports, DeployNext(p) PROVE MainMakes'
  BY <1>2 DEF DeployNext
<1>3. ASSUME StartListeners PROVE MainMakes'
  BY <1>3 DEF StartListeners
<1>4. ASSUME NEW l \in Listeners, Subscribe(l) PROVE MainMakes'
  BY <1>4 DEF Subscribe
<1>5. ASSUME NEW l \in Listeners, Receive(l) PROVE MainMakes'
  BY <1>5 DEF Receive, AfterReceive
<1>6. ASSUME NEW l \in Listeners, NEW w \in Workers, Spawn(l, w) PROVE MainMakes'
  BY <1>6 DEF Spawn
<1>7. ASSUME NEW t \in Threads, MutexCheck(t) PROVE MainMakes'
  BY <1>7 DEF MutexCheck
<1>8. ASSUME NEW t \in Threads, MutexStore(t) PROVE MainMakes'
  BY <1>8 DEF MutexStore
<1>9. ASSUME NEW t \in Threads, MutexLoad(t) PROVE MainMakes'
  BY <1>9 DEF MutexLoad
<1>10. ASSUME Environment PROVE MainMakes'
  BY <1>10 DEF Environment, EditFrontend, EditConfig, Publish, Disconnect
<1>11. ASSUME NEW t \in Threads, RunJob(t) \/ RedisError(t) PROVE MainMakes'
  <2>1. \/ Crash
        \/ /\ pc[t] \in Placed /\ job' = job
           /\ \A u \in Threads \ {t} : pc'[u] = pc[u]
        \/ /\ pc'[t] \notin Placed
           /\ \A u \in Threads \ {t} : pc'[u] = pc[u] /\ job'[u] = job[u]
    BY <1>11 DEF RunJob, RedisError, Lock, RemoveAbsent, RemoveFound, MakeNew, MakeUpdate, Fetch,
                FetchNil, Teardown, Shutdown, ShutdownNil, Drained, DrainTimeout, AfterTeardown,
                Refresh, RefreshFails, LRange, LRangeError, GetConfig, GetConfigError, StartServer,
                GetConfigUnsupported, Register, Unregister, Assign, Unlock, BeforeRefresh
  <2> QED
    BY <2>1, ServersCrash
<1>12. CASE Crash
  BY <1>12, ServersCrash
<1>13. ASSUME NEW s \in Heap, ServeCheck(s) \/ ServeListen(s) \/ ServeTrack(s) PROVE MainMakes'
  BY <1>13 DEF ServeCheck, ServeListen, ServeTrack, ServeAdvances
<1>14. CASE UNCHANGED vars
  BY <1>14 DEF vars
<1> HIDE DEF MainMakes
<1> QED
  BY <1>1, <1>2, <1>3, <1>4, <1>5, <1>6, <1>7, <1>8, <1>9, <1>10, <1>11, <1>12, <1>13, <1>14, NextCases
     DEF Outside, Boot, Listen, ClusterMutex

(* Every step keeps the clusters and the servers of the safe ports in order. *)
LEMMA ServersStep == ASSUME ServersInv, [Next]_vars PROVE ServersOK'
<1>1. CASE Outside
  BY <1>1, OutsideIsQuiet, ServersQuiet DEF ServersInv
<1>2. CASE Crash
  BY <1>2, ServersCrash
<1>3. CASE UNCHANGED vars
  <2>1. Quiet
    BY <1>3 DEF vars, threads, mutexes, objects, servers, Quiet
  <2> QED
    BY <2>1, ServersQuiet
<1>4. CASE (\E t \in Threads : RunJob(t) \/ RedisError(t))
  BY <1>4, ServersJob
<1>5. CASE (\E s \in Heap : ServeCheck(s) \/ ServeListen(s) \/ ServeTrack(s))
  BY <1>5, ServersServe
<1> QED
  BY <1>1, <1>2, <1>3, <1>4, <1>5, NextCases

(* Clusters and servers are in order throughout. *)
LEMMA ServersInvariant == Spec => []ServersInv
<1>1. Init => ServersInv
  BY ServersInit, TypeInit, ExclusionInit DEF ServersInv, ExclusionInv, Exclusion
<1>2. ServersInv /\ [Next]_vars => ServersInv'
  BY ServersStep, MainStep, TypeStep, ExclusionStep DEF ServersInv, ExclusionInv, Exclusion
<1> QED
  BY <1>1, <1>2, PTL DEF Spec

(* A live server can be torn down: its cluster is registered, or in the    *)
(* hands of the goroutine that has just started it.                        *)
THEOREM ServersHaveOwners == Spec => []NoOrphanServer
<1>1. ASSUME ServersInv, NEW s \in Heap, s[1] \in SafePorts, Live(s)
      PROVE  \E c \in OwnerOf(s) : Reachable(c)
  <2>1. CASE Registered(s)
    <3>1. clusters[s[1]] \in Heap /\ clusters[s[1]][1] = s[1]
      BY <1>1, <2>1 DEF Registered, ServersInv, ServersOK, PlacesOK, ExclusionInv, TypeInv, TypeOK,
                        SafePorts
    <3> QED
      BY <2>1, <3>1 DEF Registered, OwnerOf, Reachable
  <2>2. ASSUME NEW t \in Threads, pc[t] = "register", impl[obj[t]] = s
        PROVE  obj[t] \in OwnerOf(s) /\ Reachable(obj[t])
    BY <1>1, <2>2 DEF ServersInv, ExclusionInv, TypeInv, ControlOK, WithObject, Busy, InSection,
                      OwnerOf, Reachable
  <2> QED
    BY <1>1, <2>1, <2>2 DEF ServersInv, ServersOK, LiveOK, Started
<1>2. ServersInv => NoOrphanServer
  BY <1>1 DEF NoOrphanServer
<1> QED
  BY <1>2, ServersInvariant, PTL

(* Of two live servers of a safe port one would be of a cluster somebody   *)
(* has just filled, and that one shuts the registered server down first.   *)
LEMMA OneLive == ServersInv => OneLiveServer
<1>1. ASSUME ServersInv, NEW s \in Heap, NEW u \in Heap, s[1] = u[1], s[1] \in SafePorts, Live(s),
             Live(u)
      PROVE  s = u
  <2>1. (Started(s) \/ Registered(s)) /\ (Started(u) \/ Registered(u))
    BY <1>1 DEF ServersInv, ServersOK, LiveOK
  <2>2. ~(Started(s) /\ Registered(u)) /\ ~(Started(u) /\ Registered(s))
    BY <1>1 DEF Started, Registered, InSection, Busy
  <2>3. CASE Started(s) /\ Started(u)
    BY <1>1, <2>3, SafeMakes DEF Started, InSection, Busy
  <2>4. CASE Registered(s) /\ Registered(u)
    BY <1>1, <2>4 DEF Registered
  <2> QED
    BY <2>1, <2>2, <2>3, <2>4
<1> QED
  BY <1>1 DEF OneLiveServer

(* A safe port has one live server: the old one is shut down first.        *)
THEOREM ServersAreAlone == Spec => []OneLiveServer
  BY OneLive, ServersInvariant, PTL

(* No live server of a safe port has an empty list of backends. *)
THEOREM ServersHaveBackends == Spec => []ServingHasBackends
<1>1. ServersInv => ServingHasBackends
  BY DEF ServersInv, ServersOK, BackendsOK
<1> QED
  BY <1>1, ServersInvariant, PTL

-----------------------------------------------------------------------------
(* The registry implements PortService.  What a step does to a port that   *)
(* is not its goroutine's is nothing, so each lemma is about one port.     *)
SameAt(p) == Serving(p)' = Serving(p) /\ Fetched(p)' = Fetched(p)

LiveCluster(c) == impl[c] # None /\ Live(impl[c])

(* What a port serves depends on its clusters that have a live server. *)
LEMMA ServingSame ==
    ASSUME NEW p,
           \A c \in Heap : c[1] = p =>
              /\ LiveCluster(c)' <=> LiveCluster(c)
              /\ LiveCluster(c) => backends'[c] = backends[c]
    PROVE  Serving(p)' = Serving(p)
<1>1. \A c \in Heap : (c[1] = p /\ LiveCluster(c)') <=> (c[1] = p /\ LiveCluster(c))
  OBVIOUS
<1>2. {c \in Heap : c[1] = p /\ LiveCluster(c)'} = {c \in Heap : c[1] = p /\ LiveCluster(c)}
  BY <1>1
<1> QED
  BY <1>2 DEF Serving, LiveCluster

(* What was fetched depends on the goroutines that are at the GET. *)
LEMMA FetchedSame ==
    ASSUME NEW p,
           \A t \in Threads :
              /\ (pc'[t] = "config" /\ arg'[t] = p) <=> (pc[t] = "config" /\ arg[t] = p)
              /\ pc[t] = "config" /\ arg[t] = p => backends'[obj'[t]] = backends[obj[t]]
    PROVE  Fetched(p)' = Fetched(p)
<1>1. {t \in Threads : pc'[t] = "config" /\ arg'[t] = p}
        = {t \in Threads : pc[t] = "config" /\ arg[t] = p}
  OBVIOUS
<1> QED
  BY <1>1 DEF Fetched

(* No live server, nothing served; nobody at the GET, nothing fetched. *)
LEMMA NothingThere ==
    ASSUME NEW p
    PROVE  /\ (\A c \in Heap : c[1] = p => ~LiveCluster(c)) => Serving(p) = {}
           /\ (\A t \in Threads : ~(pc[t] = "config" /\ arg[t] = p)) => Fetched(p) = {}
  BY DEF Serving, Fetched, LiveCluster

(* A step that changes nothing of any port is a stutter of the service. *)
LEMMA ServiceStutters ==
    ASSUME frontend' = frontend, \A p \in SafePorts : SameAt(p)
    PROVE  UNCHANGED Service!vars
<1>1. /\ [p \in SafePorts |-> Serving(p)'] = [p \in SafePorts |-> Serving(p)]
      /\ [p \in SafePorts |-> Fetched(p)'] = [p \in SafePorts |-> Fetched(p)]
  BY DEF SameAt
<1>2. [p \in SafePorts |-> frontend'[p]] = [p \in SafePorts |-> frontend[p]]
  OBVIOUS
<1> QED
  BY <1>1, <1>2 DEF Service!vars

(* A step that changes one port is the operation of the service on it. *)
LEMMA ServiceOperation ==
    ASSUME frontend' = frontend, NEW p \in SafePorts,
           \A q \in SafePorts \ {p} : SameAt(q),
           \/ Serving(p)' = {} /\ Fetched(p)' = Fetched(p)
           \/ /\ Serving(p) = {} /\ Fetched(p) = {} /\ frontend[p] # {}
              /\ Serving(p)' = Serving(p) /\ Fetched(p)' = {frontend[p]}
           \/ /\ Serving(p) = {} /\ Fetched(p) # {}
              /\ Serving(p)' = Fetched(p) /\ Fetched(p)' = {}
           \/ Serving(p)' = Serving(p) /\ Fetched(p)' = {}
    PROVE  Service!Next
<1> DEFINE Fr == [q \in SafePorts |-> frontend[q]]
           Sv == [q \in SafePorts |-> Serving(q)]
           Ft == [q \in SafePorts |-> Fetched(q)]
<1>1. [q \in SafePorts |-> Serving(q)'] = [Sv EXCEPT ![p] = Serving(p)']
  BY DEF SameAt
<1>2. [q \in SafePorts |-> Fetched(q)'] = [Ft EXCEPT ![p] = Fetched(p)']
  BY DEF SameAt
<1>3. Fr' = Fr /\ Fr[p] = frontend[p] /\ Sv[p] = Serving(p) /\ Ft[p] = Fetched(p)
  OBVIOUS
<1>4. Serving(p)' = Serving(p) => Sv' = Sv
  BY DEF SameAt
<1>5. Fetched(p)' = Fetched(p) => Ft' = Ft
  BY DEF SameAt
<1>6. CASE Serving(p)' = {} /\ Fetched(p)' = Fetched(p)
  <2>1. Service!Stop(p)
    BY <1>1, <1>3, <1>5, <1>6 DEF Service!Stop
  <2> QED
    BY <2>1 DEF Service!Next
<1>7. CASE /\ Serving(p) = {} /\ Fetched(p) = {} /\ frontend[p] # {}
           /\ Serving(p)' = Serving(p) /\ Fetched(p)' = {frontend[p]}
  <2>1. Service!Read(p)
    BY <1>2, <1>3, <1>4, <1>7 DEF Service!Read
  <2> QED
    BY <2>1 DEF Service!Next
<1>8. CASE Serving(p) = {} /\ Fetched(p) # {} /\ Serving(p)' = Fetched(p) /\ Fetched(p)' = {}
  <2>1. Service!Start(p)
    BY <1>1, <1>2, <1>3, <1>8 DEF Service!Start
  <2> QED
    BY <2>1 DEF Service!Next
<1>9. CASE Serving(p)' = Serving(p) /\ Fetched(p)' = {}
  <2>1. Service!Abandon(p)
    BY <1>2, <1>3, <1>4, <1>9 DEF Service!Abandon
  <2> QED
    BY <2>1 DEF Service!Next
<1> QED
  BY <1>6, <1>7, <1>8, <1>9

-----------------------------------------------------------------------------
(* A process that has just started serves nothing ... *)
LEMMA ServiceInit == Init => Service!Init
<1> SUFFICES ASSUME Init PROVE Service!Init
  OBVIOUS
<1>1. \A p \in SafePorts : Serving(p) = {}
  BY NothingThere DEF Init, Nil, LiveCluster
<1>2. \A p \in SafePorts : Fetched(p) = {}
  BY NothingThere DEF Init, FreshPc
<1>3. [p \in SafePorts |-> frontend[p]] \in [SafePorts -> SUBSET Backends]
  BY DEF Init, SafePorts
<1> QED
  BY <1>1, <1>2, <1>3 DEF Service!Init, Service!Nothing

(* ... and so does one that crashed. *)
LEMMA ServiceCrash == Crash => Service!Restart
<1> SUFFICES ASSUME Crash PROVE Service!Restart
  OBVIOUS
<1>1. frontend' = frontend /\ impl' = Nil(Heap) /\ pc' = FreshPc
  BY DEF Crash, redis
<1>2. \A p \in SafePorts : Serving(p)' = {}
  <2>1. \A c \in Heap : impl'[c] = None
    BY <1>1 DEF Nil
  <2> QED
    BY <2>1 DEF Serving
<1>3. \A p \in SafePorts : Fetched(p)' = {}
  <2>1. \A t \in Threads : pc'[t] # "config"
    BY <1>1 DEF FreshPc
  <2> QED
    BY <2>1 DEF Fetched
<1>4. [p \in SafePorts |-> frontend'[p]] = [p \in SafePorts |-> frontend[p]]
  BY <1>1
<1> QED
  BY <1>2, <1>3, <1>4 DEF Service!Restart, Service!Nothing

(* Outside the sections only the lists in Redis change. *)
LEMMA ServiceQuiet ==
    ASSUME ServersInv, Quiet, frontend' \in [Ports -> SUBSET Backends]
    PROVE  Service!Edit
<1>1. UNCHANGED <<backends, impl, obj, stopping, serve>>
  BY DEF Quiet, objects, servers
<1>2. \A t \in Threads : pc[t] = "config" \/ pc'[t] = "config"
                           => pc'[t] = pc[t] /\ arg'[t] = arg[t]
  BY DEF Quiet, InSection, Busy
<1>3. \A p \in SafePorts : Serving(p)' = Serving(p)
  BY <1>1 DEF Serving, Live
<1>4. \A p \in SafePorts : Fetched(p)' = Fetched(p)
  BY <1>1, <1>2, FetchedSame
<1>5. [p \in SafePorts |-> frontend'[p]] \in [SafePorts -> SUBSET Backends]
  BY DEF SafePorts
<1> QED
  BY <1>3, <1>4, <1>5 DEF Service!Edit

(* The list of a frontend is edited by the environment only. *)
LEMMA OutsideFrontend ==
    ASSUME TypeOK, Outside
    PROVE  frontend' \in [Ports -> SUBSET Backends]
<1>1. CASE Boot \/ (\E l \in Listeners : Listen(l)) \/ (\E t \in Threads : ClusterMutex(t))
  BY <1>1 DEF TypeOK, Boot, GetFrontends, DeployNext, StartListeners, Listen, Subscribe, Receive,
              Spawn, ClusterMutex, MutexCheck, MutexStore, MutexLoad, redis
<1>2. CASE Environment
  BY <1>2 DEF TypeOK, Environment, EditFrontend, EditConfig, Publish, Disconnect, redis
<1> QED
  BY <1>1, <1>2 DEF Outside

(* A goroutine that neither was at the GET nor gets there, and touches     *)
(* neither lists nor servers, changes nothing for the requests.            *)
LEMMA ServiceKeeps ==
    ASSUME NEW t \in Threads,
           pc[t] # "config", pc'[t] # "config",
           \A u \in Threads \ {t} : pc'[u] = pc[u] /\ arg'[u] = arg[u] /\ obj'[u] = obj[u],
           UNCHANGED <<frontend, backends, impl, stopping, serve>>
    PROVE  UNCHANGED Service!vars
<1>1. \A p : Serving(p)' = Serving(p)
  BY DEF Serving, Live
<1>2. \A p : Fetched(p)' = Fetched(p)
  BY FetchedSame
<1> QED
  BY <1>1, <1>2, ServiceStutters DEF SameAt

(* The cluster that is allocated had no server. *)
LEMMA ServiceNew ==
    ASSUME ServersInv, NEW t \in Threads, MakeNew(t)
    PROVE  UNCHANGED Service!vars
<1> USE DEF ServersInv, ServersOK
<1>1. PICK c \in Heap : /\ c[1] = arg[t] /\ FreeObject(c)
                        /\ obj' = [obj EXCEPT ![t] = c]
                        /\ backends' = [backends EXCEPT ![c] = {}]
                        /\ impl' = [impl EXCEPT ![c] = None]
  BY DEF MakeNew, Lowest
<1>2. /\ pc[t] = "lookup" /\ clusters[arg[t]] = None
      /\ pc' = [pc EXCEPT ![t] = "refresh"]
      /\ UNCHANGED <<frontend, arg, stopping, serve>>
  BY DEF MakeNew, Goto, redis, servers
<1>3. ServersTypes
  BY DEF ExclusionInv, TypeInv, TypeOK, ServersTypes
<1>4. /\ pc'[t] = "refresh"
      /\ \A u \in Threads \ {t} : pc'[u] = pc[u] /\ obj'[u] = obj[u]
  BY <1>1, <1>2, <1>3 DEF ServersTypes
<1>5. /\ impl'[c] = None
      /\ \A d \in Heap \ {c} : impl'[d] = impl[d] /\ backends'[d] = backends[d]
  BY <1>1, <1>3 DEF ServersTypes
<1>6. c[1] \in SafePorts => impl[c] = None
  BY <1>1 DEF FreeObject, OwnersOK
<1>7. \A u \in Threads : pc[u] = "config" => obj[u] \in Heap \ {c}
  BY <1>1 DEF FreeObject, ExclusionInv, TypeInv, ControlOK, WithObject, Busy
<1>8. \A d \in Heap : d[1] \in SafePorts =>
         (LiveCluster(d)' <=> LiveCluster(d)) /\ (LiveCluster(d) => backends'[d] = backends[d])
  BY <1>2, <1>5, <1>6 DEF LiveCluster, Live
<1>9. \A p \in SafePorts : Serving(p)' = Serving(p)
  BY <1>8, ServingSame
<1>10. \A p \in SafePorts : Fetched(p)' = Fetched(p)
  BY <1>2, <1>4, <1>5, <1>7, FetchedSame
<1> QED
  BY <1>2, <1>9, <1>10, ServiceStutters DEF SameAt

(* A live server of a safe port is that of one cluster, the one that was   *)
(* just filled or the registered one.                                      *)
LEMMA LiveOwner ==
    ASSUME ServersInv, NEW c \in Heap, c[1] \in SafePorts, LiveCluster(c)
    PROVE  \/ \E t \in Threads : pc[t] = "register" /\ arg[t] = c[1]
           \/ \A t \in Threads : InSection(t) /\ arg[t] = c[1] => pc[t] \in Untouched
<1>1. impl[c] \in Heap /\ impl[c][1] = c[1]
  BY DEF LiveCluster, ServersInv, ServersOK, PlacesOK, ExclusionInv, TypeInv, TypeOK
<1>2. Started(impl[c]) \/ Registered(impl[c])
  BY <1>1 DEF LiveCluster, ServersInv, ServersOK, LiveOK
<1> QED
  BY <1>1, <1>2 DEF Started, Registered, Untouched

(* The port of a goroutine that is past the shutdown serves nothing, and   *)
(* nothing was fetched for it but by that goroutine.                       *)
LEMMA NothingServed ==
    ASSUME ServersInv, NEW t \in Threads, pc[t] \in {"drain", "refresh", "lrange", "config"},
           arg[t] \in SafePorts
    PROVE  /\ Serving(arg[t]) = {}
           /\ \A u \in Threads : pc[u] = "config" /\ arg[u] = arg[t] => u = t
<1>1. InSection(t)
  BY DEF InSection, Busy
<1>2. \A u \in Threads : InSection(u) /\ arg[u] = arg[t] => u = t
  BY <1>1, SafeMakes
<1>3. ASSUME NEW c \in Heap, c[1] = arg[t], LiveCluster(c) PROVE FALSE
  BY <1>1, <1>2, <1>3, LiveOwner DEF InSection, Busy, Untouched
<1>4. Serving(arg[t]) = {}
  BY <1>3, NothingThere
<1> QED
  BY <1>2, <1>4 DEF InSection, Busy

(* Shutdown takes the one live server of the port away. *)
LEMMA ServiceShutdown ==
    ASSUME ServersInv, NEW t \in Threads, Shutdown(t)
    PROVE  Service!Next \/ UNCHANGED Service!vars
<1> USE DEF ServersInv, ServersOK
<1> DEFINE old == impl[obj[t]]
<1>1. /\ pc[t] = "shutdown" /\ old # None
      /\ pc' = [pc EXCEPT ![t] = "drain"]
      /\ stopping' = [stopping EXCEPT ![old] = TRUE]
      /\ serve' = [serve EXCEPT ![old] = IF @ = "listening" THEN "closed" ELSE @]
      /\ UNCHANGED <<frontend, arg, obj, clusters, backends, impl>>
  BY DEF Shutdown, Goto, objects, redis
<1>2. ServersTypes /\ obj[t] \in Heap /\ old \in Heap /\ InSection(t) /\ arg[t] \in Ports
  BY <1>1 DEF ExclusionInv, TypeInv, TypeOK, ControlOK, WithObject, Busy, ServersTypes, InSection,
              Placed
<1>3. pc'[t] = "drain" /\ \A u \in Threads \ {t} : pc'[u] = pc[u]
  BY <1>1, <1>2 DEF ServersTypes
<1>4. \A s \in Heap : (Live(s)' <=> Live(s) /\ s # old)
  BY <1>1, <1>2 DEF Live, ServersTypes
<1>5. old[1] = arg[t]
  BY <1>1, <1>2, ThreadsDistinct DEF PlacesOK
<1>6. \A p \in SafePorts : Fetched(p)' = Fetched(p)
  BY <1>1, <1>3, FetchedSame
<1>7. ASSUME NEW p \in SafePorts, p # arg[t] PROVE Serving(p)' = Serving(p)
  <2>1. \A c \in Heap : c[1] = p /\ impl[c] # None => impl[c] \in Heap /\ impl[c] # old
    BY <1>2, <1>5, <1>7 DEF PlacesOK, ServersTypes
  <2>2. \A c \in Heap : c[1] = p => (LiveCluster(c)' <=> LiveCluster(c))
    BY <2>1, <1>1, <1>4 DEF LiveCluster
  <2> QED
    BY <2>2, <1>1, ServingSame
<1>8. ASSUME arg[t] \in SafePorts PROVE Serving(arg[t])' = {}
  <2>1. ASSUME NEW c \in Heap, c[1] = arg[t], LiveCluster(c)' PROVE FALSE
    <3>1. impl[c] # None /\ impl[c] \in Heap /\ impl[c] # old
      BY <2>1, <1>1, <1>2, <1>4 DEF LiveCluster, ServersTypes
    <3>2. ASSUME NEW u \in Threads, pc[u] = "register", obj[u] = c PROVE FALSE
      <4>1. InSection(u) /\ arg[u] = arg[t]
        BY <2>1, <3>2, ThreadsDistinct DEF PlacesOK, InSection, Busy
      <4> QED
        BY <4>1, <3>2, <1>1, <1>2, <1>8, SafeMakes
    <3>3. clusters[arg[t]] = c /\ c # None
      BY <2>1, <3>1, <3>2, <1>8, ThreadsDistinct DEF OwnersOK
    <3>4. obj[t] = c
      BY <3>3, <1>1, <1>8 DEF SameCluster, WithObject, Busy
    <3> QED
      BY <3>1, <3>4
  <2> QED
    BY <2>1, <1>1 DEF Serving, LiveCluster
<1>9. CASE arg[t] \in SafePorts
  BY <1>1, <1>6, <1>7, <1>8, <1>9, ServiceOperation DEF SameAt
<1>10. CASE arg[t] \notin SafePorts
  BY <1>1, <1>6, <1>7, <1>10, ServiceStutters DEF SameAt
<1> QED
  BY <1>9, <1>10

(* The list is read when no server of the port is live. *)
LEMMA ServiceRead ==
    ASSUME ServersInv, NEW t \in Threads, LRange(t)
    PROVE  Service!Next \/ UNCHANGED Service!vars
<1> USE DEF ServersInv, ServersOK
<1>1. PICK to \in {"unlock", "config"} :
         /\ pc' = [pc EXCEPT ![t] = to]
         /\ to = "config" => frontend[arg[t]] # {}
  BY DEF LRange, RefreshFails, Goto, NoBackends, NewBackends
<1>2. /\ pc[t] = "lrange"
      /\ backends' = [backends EXCEPT ![obj[t]] = frontend[arg[t]]]
      /\ UNCHANGED <<frontend, arg, obj, clusters, impl, stopping, serve>>
  BY DEF LRange, NewBackends, servers, redis
<1>3. ServersTypes /\ obj[t] \in Heap /\ arg[t] \in Ports /\ InSection(t)
  BY <1>2 DEF ExclusionInv, TypeInv, TypeOK, ControlOK, WithObject, Placed, Busy, ServersTypes,
              InSection
<1>4. pc'[t] = to /\ \A u \in Threads \ {t} : pc'[u] = pc[u]
  BY <1>1, <1>3 DEF ServersTypes
<1>5. /\ backends'[obj[t]] = frontend[arg[t]]
      /\ \A c \in Heap \ {obj[t]} : backends'[c] = backends[c]
  BY <1>2, <1>3 DEF ServersTypes
<1>6. obj[t][1] = arg[t]
  BY <1>3, ThreadsDistinct DEF PlacesOK
<1>7. \A c \in Heap : LiveCluster(c)' <=> LiveCluster(c)
  BY <1>2 DEF LiveCluster, Live
<1>8. ASSUME NEW p \in SafePorts, p # arg[t] PROVE SameAt(p)
  <2>1. Serving(p)' = Serving(p)
    BY <1>5, <1>6, <1>7, <1>8, ServingSame
  <2>2. \A u \in Threads : pc[u] = "config" /\ arg[u] = p => obj[u] \in Heap \ {obj[t]}
    BY <1>6, <1>8, ThreadsDistinct
       DEF PlacesOK, ExclusionInv, TypeInv, ControlOK, WithObject, Busy
  <2>3. Fetched(p)' = Fetched(p)
    BY <1>2, <1>4, <1>5, <1>8, <2>2, FetchedSame
  <2> QED
    BY <2>1, <2>3 DEF SameAt
<1>9. CASE arg[t] \in SafePorts
  <2>1. /\ Serving(arg[t]) = {}
        /\ \A u \in Threads : pc[u] = "config" /\ arg[u] = arg[t] => u = t
    BY <1>2, <1>9, NothingServed
  <2>2. Fetched(arg[t]) = {}
    BY <2>1, <1>2, NothingThere
  <2>3. \A c \in Heap : c[1] = arg[t] => ~LiveCluster(c)'
    BY <2>1, <1>7 DEF Serving, LiveCluster
  <2>4. Serving(arg[t])' = {}
    BY <2>3, <1>2 DEF Serving, LiveCluster
  <2>5. CASE to = "unlock"
    <3>1. \A u \in Threads : ~(pc'[u] = "config" /\ arg'[u] = arg[t])
      BY <2>1, <2>5, <1>2, <1>4
    <3>2. Fetched(arg[t])' = {}
      BY <3>1, <1>2 DEF Fetched
    <3>3. \A p \in SafePorts : SameAt(p)
      BY <2>1, <2>2, <2>4, <3>2, <1>2, <1>8 DEF SameAt
    <3> QED
      BY <3>3, <1>2, ServiceStutters
  <2>6. CASE to = "config"
    <3>1. {u \in Threads : pc'[u] = "config" /\ arg[u] = arg[t]} = {t}
      BY <2>1, <2>6, <1>2, <1>4
    <3>2. Fetched(arg[t])' = {frontend[arg[t]]}
      BY <3>1, <1>2, <1>5 DEF Fetched
    <3>3. frontend' = frontend /\ arg'[t] = arg[t] /\ frontend[arg[t]] # {}
          /\ Serving(arg[t])' = Serving(arg[t])
      BY <1>1, <1>2, <2>1, <2>4, <2>6
    <3> QED
      BY <2>1, <2>2, <3>2, <3>3, <1>8, <1>9, ServiceOperation
  <2> QED
    BY <2>5, <2>6
<1>10. CASE arg[t] \notin SafePorts
  BY <1>2, <1>8, <1>10, ServiceStutters
<1> QED
  BY <1>9, <1>10

(* The server that is started is the only one of the port, and picks from  *)
(* what was fetched.                                                       *)
LEMMA ServiceStart ==
    ASSUME ServersInv, NEW t \in Threads, pc[t] = "config", StartServer(t), frontend' = frontend
    PROVE  Service!Next \/ UNCHANGED Service!vars
<1> USE DEF ServersInv, ServersOK
<1>1. PICK new \in Heap : /\ new[1] = arg[t] /\ FreeServer(new)
                          /\ impl' = [impl EXCEPT ![obj[t]] = new]
                          /\ stopping' = [stopping EXCEPT ![new] = FALSE]
                          /\ serve' = [serve EXCEPT ![new] = "spawned"]
  BY DEF StartServer, Lowest
<1>2. /\ pc' = [pc EXCEPT ![t] = "register"]
      /\ UNCHANGED <<arg, obj, clusters, backends>>
  BY DEF StartServer, Goto
<1>3. ServersTypes /\ obj[t] \in Heap /\ arg[t] \in Ports /\ InSection(t)
  BY DEF ExclusionInv, TypeInv, TypeOK, ControlOK, WithObject, Placed, Busy, ServersTypes,
         InSection
<1>4. pc'[t] = "register" /\ \A u \in Threads \ {t} : pc'[u] = pc[u]
  BY <1>2, <1>3 DEF ServersTypes
<1>5. /\ impl'[obj[t]] = new
      /\ \A c \in Heap \ {obj[t]} : impl'[c] = impl[c]
  BY <1>1, <1>3 DEF ServersTypes
<1>6. /\ Live(new)'
      /\ \A s \in Heap \ {new} : Live(s)' <=> Live(s)
  BY <1>1, <1>3 DEF Live, ServersTypes
<1>7. obj[t][1] = arg[t]
  BY <1>3, ThreadsDistinct DEF PlacesOK
<1>8. ASSUME NEW p \in SafePorts, p # arg[t] PROVE SameAt(p)
  <2>1. \A c \in Heap : c[1] = p => c # obj[t] /\ (impl[c] # None => impl[c] \in Heap \ {new})
    BY <1>1, <1>3, <1>7, <1>8 DEF PlacesOK, ServersTypes
  <2>2. \A c \in Heap : c[1] = p => (LiveCluster(c)' <=> LiveCluster(c))
    BY <2>1, <1>5, <1>6 DEF LiveCluster
  <2>3. Serving(p)' = Serving(p)
    BY <2>2, <1>2, ServingSame
  <2>4. Fetched(p)' = Fetched(p)
    BY <1>2, <1>4, <1>8, FetchedSame
  <2> QED
    BY <2>3, <2>4 DEF SameAt
<1>9. CASE arg[t] \in SafePorts
  <2>1. /\ Serving(arg[t]) = {}
        /\ \A u \in Threads : pc[u] = "config" /\ arg[u] = arg[t] => u = t
    BY <1>9, NothingServed
  <2>2. {u \in Threads : pc[u] = "config" /\ arg[u] = arg[t]} = {t}
    BY <2>1
  <2>3. Fetched(arg[t]) = {backends[obj[t]]}
    BY <2>2 DEF Fetched
  <2>4. \A u \in Threads : ~(pc'[u] = "config" /\ arg[u] = arg[t])
    BY <2>1, <1>4
  <2>5. Fetched(arg[t])' = {}
    BY <2>4, <1>2 DEF Fetched
  <2>6. ASSUME NEW c \in Heap, c[1] = arg[t], LiveCluster(c)' PROVE c = obj[t]
    <3>1. ~LiveCluster(c)
      BY <2>1, <2>6 DEF Serving, LiveCluster
    <3>2. ASSUME c # obj[t] PROVE FALSE
      <4>1. impl[c] = new
        BY <2>6, <3>1, <3>2, <1>3, <1>5, <1>6 DEF LiveCluster, ServersTypes
      <4>2. FreeObject(c) /\ c[1] \in SafePorts /\ impl[c] # None
        BY <4>1, <2>6, <1>1, <1>9, ThreadsDistinct DEF FreeServer
      <4> QED
        BY <4>2 DEF FreeObject, OwnersOK
    <3> QED
      BY <3>2
  <2>7. LiveCluster(obj[t])'
    <3>1. impl'[obj[t]] # None /\ Live(new)' /\ obj' = obj
      BY <1>1, <1>2, <1>5, <1>6, ThreadsDistinct
    <3> QED
      BY <3>1, <1>5 DEF LiveCluster, Live
  <2>8. {c \in Heap : c[1] = arg[t] /\ LiveCluster(c)'} = {obj[t]}
    BY <2>6, <2>7, <1>2, <1>3, <1>7
  <2>9. Serving(arg[t])' = {backends[obj[t]]}
    BY <2>8, <1>2 DEF Serving, LiveCluster
  <2> QED
    BY <2>1, <2>3, <2>5, <2>9, <1>2, <1>8, <1>9, ServiceOperation
<1>10. CASE arg[t] \notin SafePorts
  BY <1>8, <1>10, ServiceStutters
<1> QED
  BY <1>9, <1>10

(* A refresh that finds an unknown protocol gives up what it fetched. *)
LEMMA ServiceAbandon ==
    ASSUME ServersInv, NEW t \in Threads, GetConfigUnsupported(t)
    PROVE  Service!Next \/ UNCHANGED Service!vars
<1>1. /\ pc[t] = "config" /\ pc' = [pc EXCEPT ![t] = "unlock"]
      /\ UNCHANGED <<frontend, arg, obj, backends, impl, stopping, serve>>
  BY DEF GetConfigUnsupported, RefreshFails, Goto, redis, servers
<1>2. pc'[t] = "unlock" /\ \A u \in Threads \ {t} : pc'[u] = pc[u]
  BY <1>1 DEF ServersInv, ExclusionInv, TypeInv, TypeOK
<1>3. \A p : Serving(p)' = Serving(p)
  BY <1>1 DEF Serving, Live
<1>4. \A p \in SafePorts : p # arg[t] => Fetched(p)' = Fetched(p)
  BY <1>1, <1>2, FetchedSame
<1>5. CASE arg[t] \in SafePorts
  <2>1. \A u \in Threads : ~(pc'[u] = "config" /\ arg[u] = arg[t])
    BY <1>1, <1>2, <1>5, NothingServed
  <2>2. Fetched(arg[t])' = {}
    BY <2>1, <1>1 DEF Fetched
  <2>3. Serving(arg[t])' = Serving(arg[t])
    BY <1>1, <1>3
  <2> QED
    BY <2>2, <2>3, <1>1, <1>3, <1>4, <1>5, ServiceOperation DEF SameAt
<1>6. CASE arg[t] \notin SafePorts
  BY <1>1, <1>3, <1>4, <1>6, ServiceStutters DEF SameAt
<1> QED
  BY <1>5, <1>6

(* The goroutine of a server either leaves it as live as it was, or finds  *)
(* the port taken and gives up the one live server.                        *)
LEMMA ServiceServe ==
    ASSUME ServersInv, NEW s \in Heap, ServeCheck(s) \/ ServeListen(s) \/ ServeTrack(s)
    PROVE  Service!Next \/ UNCHANGED Service!vars
<1> USE DEF ServersInv, ServersOK
<1>1. UNCHANGED <<frontend, pc, arg, obj, clusters, backends, impl, stopping>>
  BY DEF ServeCheck, ServeListen, ServeTrack, ServeAdvances, threads, objects, redis
<1>2. ServersTypes
  BY DEF ExclusionInv, TypeInv, TypeOK, ServersTypes
<1>3. \A u \in Heap \ {s} : Live(u)' <=> Live(u)
  BY <1>1, <1>2 DEF ServeCheck, ServeListen, ServeTrack, ServeAdvances, Live, ServersTypes
<1>4. Live(s)' => Live(s)
  BY <1>1, <1>2 DEF ServeCheck, ServeListen, ServeTrack, ServeAdvances, Live, ServersTypes
<1>5. \A p \in SafePorts : Fetched(p)' = Fetched(p)
  BY <1>1, FetchedSame
<1>6. ASSUME NEW p \in SafePorts, p # s[1] PROVE SameAt(p)
  <2>1. \A c \in Heap : c[1] = p /\ impl[c] # None => impl[c] \in Heap \ {s}
    BY <1>2, <1>6 DEF PlacesOK, ServersTypes
  <2>2. \A c \in Heap : c[1] = p => (LiveCluster(c)' <=> LiveCluster(c))
    BY <2>1, <1>1, <1>3 DEF LiveCluster
  <2>3. Serving(p)' = Serving(p)
    BY <2>2, <1>1, ServingSame
  <2> QED
    BY <2>3, <1>5 DEF SameAt
<1>7. CASE Live(s)' <=> Live(s)
  <2>1. \A c \in Heap : impl[c] # None => (Live(impl[c])' <=> Live(impl[c]))
    BY <1>1, <1>2, <1>3, <1>7 DEF ServersTypes
  <2>2. \A p \in SafePorts : Serving(p)' = Serving(p)
    BY <2>1, <1>1, ServingSame DEF LiveCluster
  <2> QED
    BY <2>2, <1>1, <1>5, ServiceStutters DEF SameAt
<1>8. CASE Live(s) /\ ~Live(s)' /\ s[1] \in SafePorts
  <2>1. ASSUME NEW c \in Heap, c[1] = s[1], impl[c] # None, Live(impl[c])' PROVE FALSE
    <3>1. impl[c] \in Heap /\ impl[c][1] = s[1]
      BY <2>1, <1>2 DEF PlacesOK, ServersTypes
    <3>2. impl[c] # s /\ Live(impl[c])
      BY <2>1, <3>1, <1>1, <1>3, <1>8
    <3> QED
      BY <3>1, <3>2, <1>8, OneLive DEF OneLiveServer
  <2>2. Serving(s[1])' = {}
    BY <2>1, <1>1 DEF Serving
  <2> QED
    BY <2>2, <1>1, <1>5, <1>6, <1>8, ServiceOperation
<1>9. CASE s[1] \notin SafePorts
  BY <1>1, <1>6, <1>9, ServiceStutters
<1> QED
  BY <1>4, <1>7, <1>8, <1>9

(* What a goroutine does in a section is an operation of the service, or   *)
(* nothing that a request can tell.                                        *)
LEMMA ServiceJob ==
    ASSUME ServersInv, NEW t \in Threads, RunJob(t) \/ RedisError(t)
    PROVE  Service!Next \/ UNCHANGED Service!vars
<1>1. ServersTypes /\ job \in [Threads -> {"make", "remove", "ensure", "none"}]
  BY DEF ServersInv, ExclusionInv, TypeInv, TypeOK, ServersTypes
<1> USE DEF Goto, redis, mutexes, objects, servers, threads
<1>2. ASSUME NEW to, pc[t] # "config", to # "config",
             pc' = [pc EXCEPT ![t] = to],
             \A u \in Threads \ {t} : arg'[u] = arg[u] /\ obj'[u] = obj[u],
             UNCHANGED <<frontend, backends, impl, stopping, serve>>
      PROVE  UNCHANGED Service!vars
  <2>1. pc'[t] # "config" /\ \A u \in Threads \ {t} : pc'[u] = pc[u]
    BY <1>1, <1>2 DEF ServersTypes
  <2> QED
    BY <2>1, <1>2, ServiceKeeps
<1>3. CASE Lock(t) \/ RemoveAbsent(t) \/ MakeUpdate(t) \/ Teardown(t) \/ Refresh(t)
  BY <1>2, <1>3 DEF Lock, RemoveAbsent, MakeUpdate, Teardown, Refresh
<1>4. CASE RemoveFound(t) \/ Fetch(t)
  <2>1. /\ pc[t] # "config" /\ pc' = [pc EXCEPT ![t] = "teardown"] /\ arg' = arg
        /\ obj' = [obj EXCEPT ![t] = clusters[arg[t]]]
        /\ UNCHANGED <<frontend, backends, impl, stopping, serve>>
    BY <1>4 DEF RemoveFound, Fetch, BeforeRefresh
  <2>2. \A u \in Threads \ {t} : obj'[u] = obj[u]
    BY <2>1, <1>1 DEF ServersTypes
  <2> QED
    BY <2>1, <2>2, <1>2
<1>5. CASE Drained(t) \/ DrainTimeout(t)
  <2> DEFINE to == IF job[t] = "make" THEN "refresh" ELSE "register"
  <2>1. /\ pc[t] # "config" /\ pc' = [pc EXCEPT ![t] = to]
        /\ UNCHANGED <<frontend, arg, obj, backends, impl, stopping, serve>>
    BY <1>5 DEF Drained, DrainTimeout, AfterTeardown
  <2>2. to # "config"
    OBVIOUS
  <2> HIDE DEF to
  <2> QED
    BY <2>1, <2>2, <1>2
<1>6. CASE LRangeError(t)
  BY <1>2, <1>6 DEF LRangeError, RefreshFails
<1>7. CASE Register(t) \/ Unregister(t)
  BY <1>2, <1>7 DEF Register, Unregister, Assign
<1>8. CASE Unlock(t)
  <2> DEFINE to == IF t = Main THEN "next" ELSE "idle"
  <2>1. /\ pc[t] # "config" /\ pc' = [pc EXCEPT ![t] = to]
        /\ arg' = [arg EXCEPT ![t] = None] /\ obj' = [obj EXCEPT ![t] = None]
        /\ UNCHANGED <<frontend, backends, impl, stopping, serve>>
    BY <1>8 DEF Unlock
  <2>2. to # "config" /\ \A u \in Threads \ {t} : arg'[u] = arg[u] /\ obj'[u] = obj[u]
    BY <2>1, <1>1 DEF ServersTypes
  <2> HIDE DEF to
  <2> QED
    BY <2>1, <2>2, <1>2
<1>9. CASE FetchNil(t) \/ ShutdownNil(t)
  BY <1>9, ServiceCrash DEF FetchNil, ShutdownNil, Service!Next
<1>10. CASE MakeNew(t) \/ Shutdown(t) \/ LRange(t) \/ GetConfigUnsupported(t)
  BY <1>10, ServiceNew, ServiceShutdown, ServiceRead, ServiceAbandon
<1>11. CASE GetConfig(t) \/ GetConfigError(t)
  BY <1>11, ServiceStart DEF GetConfig, GetConfigError, StartServer
<1> QED
  BY <1>3, <1>4, <1>5, <1>6, <1>7, <1>8, <1>9, <1>10, <1>11, Zenon DEF RunJob, RedisError

(* Every step of the registry is one of the service, or a stutter. *)
LEMMA ServiceStep ==
    ASSUME ServersInv, [Next]_vars
    PROVE  Service!Next \/ UNCHANGED Service!vars
<1>1. CASE Outside
  <2>1. Service!Edit
    BY <1>1, OutsideIsQuiet, OutsideFrontend, ServiceQuiet DEF ServersInv, ExclusionInv, TypeInv
  <2> QED
    BY <2>1 DEF Service!Next
<1>2. CASE Crash
  BY <1>2, ServiceCrash DEF Service!Next
<1>3. CASE UNCHANGED vars
  <2>1. UNCHANGED <<frontend, pc, arg, obj, backends, impl, stopping, serve>>
    BY <1>3 DEF vars, redis, threads, objects, servers
  <2>2. \A p \in SafePorts : SameAt(p)
    BY <2>1 DEF SameAt, Serving, Fetched, Live
  <2> QED
    BY <2>1, <2>2, ServiceStutters
<1>4. CASE (\E t \in Threads : RunJob(t) \/ RedisError(t))
  BY <1>4, ServiceJob
<1>5. CASE (\E s \in Heap : ServeCheck(s) \/ ServeListen(s) \/ ServeTrack(s))
  BY <1>5, ServiceServe
<1> QED
  BY <1>1, <1>2, <1>3, <1>4, <1>5, NextCases

(* Refinement: to the requests of its ports go-proxy is PortService.  A    *)
(* list is read after the server that used the one before was shut down,   *)
(* is not empty, is not touched while a server picks from it, and goes to  *)
(* one server (Refresh and Teardown in clusters.go, StartServer and        *)
(* ShutdownServer in http_protocol.go).                                    *)
THEOREM RegistryIsService == Spec => IsService
<1>1. ServersInv /\ [Next]_vars => [Service!Next]_(Service!vars)
  BY ServiceStep
<1>2. Init => Service!Init
  BY ServiceInit
<1>3. Spec => []ServersInv
  BY ServersInvariant
<1> QED
  BY <1>1, <1>2, <1>3, PTL DEF Spec, IsService, Service!Spec

-----------------------------------------------------------------------------
(* Where an announced change of a port may be on its way. *)
Kept(p) == Coming(p) \/ Settling(p) \/ UpToDate(p)

(* The steps outside the sections leave alone who has read the list, and   *)
(* what is registered.                                                     *)
LEMMA KeptQuiet ==
    ASSUME Quiet, NEW p \in SafePorts, frontend'[p] = frontend[p], Coming(p) => Coming(p)', Kept(p)
    PROVE  Kept(p)'
<1>1. UNCHANGED <<clusters, backends, impl, obj, stopping>>
  BY DEF Quiet, objects, servers
<1>2. \A t \in Threads : pc[t] \in {"config", "register"} => pc'[t] = pc[t] /\ arg'[t] = arg[t]
  BY DEF Quiet, InSection, Busy
<1>3. Settling(p) => Settling(p)'
  BY <1>1, <1>2 DEF Settling
<1>4. UpToDate(p) => UpToDate(p)'
  BY <1>1 DEF UpToDate
<1> QED
  BY <1>3, <1>4 DEF Kept

(* Outside the sections a port is handed on, from the startup scan to main *)
(* and from the inbox to the listener and the goroutine it starts; what    *)
(* makes the announcement void also takes it back.                         *)
LEMMA KeptOutside ==
    ASSUME ExclusionInv, Outside, NEW p \in SafePorts, Owed(p) => Kept(p)
    PROVE  Owed(p)' => Kept(p)'
<1> DEFINE Passed == /\ Owed(p) /\ frontend'[p] = frontend[p]
                     /\ Coming(p) => Coming(p)'
<1> DEFINE Goal == Owed(p)' => Passed \/ Coming(p)'
<1> USE ThreadsDistinct
    DEF ExclusionInv, TypeInv, TypeOK, ControlOK, Threads, Listeners, ThreadStates, Busy, Placed,
        PhaseOK, RemovesOK, SafePorts, Owed, ToRead, Goto, redis, pubsub, threads
<1>1. ASSUME GetFrontends PROVE Goal
  BY <1>1 DEF GetFrontends, Coming, Frontends
<1>2. ASSUME NEW q \in Ports, DeployNext(q) PROVE Goal
  BY <1>2 DEF DeployNext, Coming
<1>3. ASSUME StartListeners PROVE Goal
  BY <1>3 DEF StartListeners, Coming
<1>4. ASSUME NEW l \in Listeners, Subscribe(l) PROVE Goal
  BY <1>4 DEF Subscribe, Coming
<1>5. ASSUME NEW l \in Listeners, Receive(l) PROVE Goal
  <2> DEFINE msgs == inbox[NewListener]
  <2>1. /\ pc[l] = "receive" /\ inbox[l] \in Seq(Ports) /\ inbox[l] # <<>>
        /\ inbox' = [inbox EXCEPT ![l] = Tail(@)]
        /\ arg' = [arg EXCEPT ![l] = Head(inbox[l])]
        /\ pc' = [pc EXCEPT ![l] = AfterReceive(l)]
        /\ UNCHANGED <<frontend, supported, announced, todo>>
    BY <1>5 DEF Receive
  <2>2. \A t \in Threads \ {l} : pc'[t] = pc[t] /\ arg'[t] = arg[t]
    BY <2>1
  <2>3. (\E t \in Threads : arg[t] = p /\ pc[t] \in ToRead)
          => \E t \in Threads : arg'[t] = p /\ pc'[t] \in ToRead
    BY <2>1, <2>2
  <2>4. CASE l = DownListener
    BY <2>1, <2>3, <2>4 DEF Coming
  <2>5. CASE l = NewListener
    <3>1. pc'[l] = "mutex_check" /\ arg'[l] = Head(msgs) /\ inbox'[l] = Tail(msgs)
      BY <2>1, <2>5 DEF AfterReceive
    <3>2. ASSUME NEW i \in DOMAIN msgs, msgs[i] = p PROVE Coming(p)'
      <4>1. i \in 1 .. Len(msgs) /\ Len(Tail(msgs)) = Len(msgs) - 1
            /\ Head(msgs) = msgs[1] /\ \A j \in 1 .. Len(Tail(msgs)) : Tail(msgs)[j] = msgs[j + 1]
        BY <2>1, <2>5, <3>2
      <4>2. CASE i = 1
        BY <3>1, <3>2, <4>1, <4>2, <2>5 DEF Coming
      <4>3. CASE i # 1
        <5>1. i - 1 \in DOMAIN Tail(msgs) /\ Tail(msgs)[i - 1] = p
          BY <2>1, <2>5, <3>2, <4>1, <4>3
        <5> QED
          BY <5>1, <3>1, <2>5 DEF Coming
      <4> QED
        BY <4>2, <4>3
    <3> QED
      BY <2>1, <2>3, <3>2 DEF Coming
  <2> QED
    BY <2>4, <2>5
<1>6. ASSUME NEW l \in Listeners, NEW w \in Workers, Spawn(l, w) PROVE Goal
  BY <1>6 DEF Spawn, Coming
<1>7. ASSUME NEW t \in Threads, MutexCheck(t) PROVE Goal
  BY <1>7 DEF MutexCheck, Coming
<1>8. ASSUME NEW t \in Threads, MutexStore(t) PROVE Goal
  BY <1>8 DEF MutexStore, Coming
<1>9. ASSUME NEW t \in Threads, MutexLoad(t) PROVE Goal
  BY <1>9 DEF MutexLoad, Coming
<1>10. ASSUME NEW q \in Ports, NEW b \in SUBSET Backends, EditFrontend(q, b) PROVE Goal
  BY <1>10 DEF EditFrontend, Coming
<1>11. ASSUME NEW q \in Ports, EditConfig(q) PROVE Goal
  BY <1>11 DEF EditConfig, Coming
<1>12. ASSUME NEW l \in Listeners, NEW q \in Ports, Publish(l, q) PROVE Goal
  <2> DEFINE msgs == inbox[NewListener]
  <2>1. /\ inbox' = [inbox EXCEPT ![l] = IF subscribed[l] THEN Append(@, q) ELSE @]
        /\ announced' = [announced EXCEPT ![q] = @ \/ (l = NewListener /\ subscribed[l])]
        /\ UNCHANGED <<frontend, supported, todo, pc, arg>> /\ msgs \in Seq(Ports)
    BY <1>12 DEF Publish
  <2>2. CASE l = NewListener /\ subscribed[l]
    <3>1. inbox'[NewListener] = Append(msgs, q)
      BY <2>1, <2>2
    <3>2. /\ Len(Append(msgs, q)) = Len(msgs) + 1 /\ Append(msgs, q)[Len(msgs) + 1] = q
          /\ \A i \in 1 .. Len(msgs) : Append(msgs, q)[i] = msgs[i]
          /\ DOMAIN Append(msgs, q) = 1 .. Len(msgs) + 1 /\ DOMAIN msgs = 1 .. Len(msgs)
          /\ Len(msgs) \in Nat
      BY <2>1
    <3>3. ASSUME NEW i \in DOMAIN msgs, msgs[i] = p
          PROVE  i \in DOMAIN inbox'[NewListener] /\ inbox'[NewListener][i] = p
      BY <3>1, <3>2, <3>3
    <3>4. Coming(p) => Coming(p)'
      BY <2>1, <3>3 DEF Coming
    <3>5. Len(msgs) + 1 \in DOMAIN inbox'[NewListener] /\ inbox'[NewListener][Len(msgs) + 1] = q
      BY <3>1, <3>2
    <3>6. q = p => Coming(p)'
      BY <3>5 DEF Coming
    <3> QED
      BY <2>1, <3>4, <3>6
  <2>3. CASE ~(l = NewListener /\ subscribed[l])
    <3>1. inbox'[NewListener] = msgs /\ announced'[p] = announced[p]
      BY <2>1, <2>3
    <3> QED
      BY <2>1, <3>1 DEF Coming
  <2> QED
    BY <2>2, <2>3
<1>13. ASSUME NEW l \in Listeners, Disconnect(l) PROVE Goal
  BY <1>13 DEF Disconnect, Coming
<1> HIDE DEF ExclusionInv, TypeInv, TypeOK, ControlOK, Threads, Listeners, ThreadStates, Busy, Placed,
        PhaseOK, RemovesOK, SafePorts, Owed, ToRead, Goto, redis, pubsub, threads
<1>14. Goal
  <2> HIDE DEF Goal
  <2> QED
    BY <1>1, <1>2, <1>3, <1>4, <1>5, <1>6, <1>7, <1>8, <1>9, <1>10, <1>11, <1>12, <1>13
       DEF Outside, Boot, Listen, ClusterMutex, Environment
<1> QED
  BY <1>14, OutsideIsQuiet, KeptQuiet DEF Kept

-----------------------------------------------------------------------------
(* What a job leaves alone: Redis, the pub/sub connections, the startup    *)
(* scan, the other goroutines, and everything of the other ports.          *)
Elsewhere(t) ==
    /\ UNCHANGED <<frontend, supported, inbox, todo>>
    /\ \A u \in Threads \ {t} : pc'[u] = pc[u] /\ arg'[u] = arg[u] /\ obj'[u] = obj[u]
    /\ \A p \in Ports : p # arg[t] => announced'[p] = announced[p] /\ clusters'[p] = clusters[p]
    /\ \A c \in Heap : c[1] # arg[t] => backends'[c] = backends[c] /\ impl'[c] = impl[c]
    /\ \A s \in Heap : s[1] # arg[t] => stopping'[s] = stopping[s]

(* A job touches its own goroutine and its own port, unless it crashes the *)
(* process.                                                                *)
LEMMA JobElsewhere ==
    ASSUME ServersInv, NEW t \in Threads, RunJob(t) \/ RedisError(t)
    PROVE  Crash \/ Elsewhere(t)
<1> USE DEF Goto, redis, pubsub, mutexes, objects, servers, threads
<1>1. /\ ServersTypes /\ announced \in [Ports -> BOOLEAN]
      /\ pc[t] \in Busy => arg[t] \in Ports
      /\ pc[t] \in WithObject => obj[t] \in Heap /\ obj[t][1] = arg[t]
  BY ThreadsDistinct
     DEF ServersInv, ExclusionInv, TypeInv, TypeOK, ControlOK, ServersTypes, ServersOK, PlacesOK,
         Placed, WithObject, InSection, Busy
<1>2. ASSUME NEW to, pc' = [pc EXCEPT ![t] = to],
             UNCHANGED <<frontend, supported, inbox, todo, arg, obj, announced, clusters,
                         backends, impl, stopping>>
      PROVE  Elsewhere(t)
  BY <1>1, <1>2 DEF Elsewhere, ServersTypes
<1>3. CASE Lock(t) \/ RemoveAbsent(t) \/ MakeUpdate(t) \/ Teardown(t) \/ Refresh(t)
  BY <1>2, <1>3 DEF Lock, RemoveAbsent, MakeUpdate, Teardown, Refresh
<1>4. CASE Drained(t) \/ DrainTimeout(t) \/ GetConfigUnsupported(t)
  BY <1>2, <1>4 DEF Drained, DrainTimeout, AfterTeardown, GetConfigUnsupported, RefreshFails
<1>5. CASE RemoveFound(t) \/ Fetch(t)
  BY <1>1, <1>5 DEF RemoveFound, Fetch, Elsewhere, ServersTypes
<1>6. CASE FetchNil(t) \/ ShutdownNil(t)
  BY <1>6 DEF FetchNil, ShutdownNil
<1>7. CASE MakeNew(t)
  BY <1>1, <1>7 DEF MakeNew, Lowest, Elsewhere, ServersTypes
<1>8. CASE Shutdown(t)
  <2>1. /\ pc' = [pc EXCEPT ![t] = "drain"] /\ pc[t] = "shutdown" /\ impl[obj[t]] # None
        /\ stopping' = [stopping EXCEPT ![impl[obj[t]]] = TRUE]
        /\ UNCHANGED <<frontend, supported, inbox, todo, arg, obj, announced, clusters, backends,
                       impl>>
    BY <1>8 DEF Shutdown
  <2>2. impl[obj[t]][1] = arg[t]
    BY <2>1, <1>1 DEF WithObject, Busy, ServersInv, ServersOK, PlacesOK
  <2> QED
    BY <2>1, <2>2, <1>1 DEF Elsewhere, ServersTypes
<1>9. CASE LRange(t)
  <2>1. PICK to : pc' = [pc EXCEPT ![t] = to]
    BY <1>9 DEF LRange, RefreshFails
  <2>2. /\ pc[t] \in WithObject
        /\ backends' = [backends EXCEPT ![obj[t]] = frontend[arg[t]]]
        /\ UNCHANGED <<frontend, supported, inbox, todo, arg, obj, announced, clusters, impl,
                       stopping>>
    BY <1>9 DEF LRange, NewBackends, WithObject, Busy
  <2> QED
    BY <2>1, <2>2, <1>1 DEF Elsewhere, ServersTypes
<1>10. CASE LRangeError(t)
  <2>1. /\ pc' = [pc EXCEPT ![t] = "unlock"]
        /\ announced' = [announced EXCEPT ![arg[t]] = FALSE]
        /\ UNCHANGED <<frontend, supported, inbox, todo, arg, obj, clusters, backends, impl,
                       stopping>>
    BY <1>10 DEF LRangeError, RefreshFails
  <2> QED
    BY <2>1, <1>1 DEF Elsewhere, ServersTypes
<1>11. CASE GetConfig(t) \/ GetConfigError(t)
  <2>1. pc[t] \in WithObject /\ StartServer(t)
    BY <1>11 DEF GetConfig, GetConfigError, WithObject, Busy
  <2>2. PICK s \in Heap : /\ s[1] = arg[t]
                          /\ impl' = [impl EXCEPT ![obj[t]] = s]
                          /\ stopping' = [stopping EXCEPT ![s] = FALSE]
    BY <2>1 DEF StartServer, Lowest
  <2>3. /\ pc' = [pc EXCEPT ![t] = "register"]
        /\ UNCHANGED <<frontend, supported, inbox, todo, arg, obj, announced, clusters, backends>>
    BY <2>1 DEF StartServer
  <2> QED
    BY <2>1, <2>2, <2>3, <1>1 DEF Elsewhere, ServersTypes
<1>12. CASE Register(t) \/ Unregister(t)
  <2>1. PICK c : clusters' = [clusters EXCEPT ![arg[t]] = c]
    BY <1>12 DEF Register, Unregister, Assign
  <2>2. /\ pc' = [pc EXCEPT ![t] = "unlock"]
        /\ UNCHANGED <<frontend, supported, inbox, todo, arg, obj, announced, backends, impl,
                       stopping>>
    BY <1>12 DEF Register, Unregister, Assign
  <2> QED
    BY <2>1, <2>2, <1>1 DEF Elsewhere, ServersTypes
<1>13. CASE Unlock(t)
  <2>1. PICK to : pc' = [pc EXCEPT ![t] = to]
    BY <1>13 DEF Unlock
  <2>2. /\ arg' = [arg EXCEPT ![t] = None] /\ obj' = [obj EXCEPT ![t] = None]
        /\ UNCHANGED <<frontend, supported, inbox, todo, announced, clusters, backends, impl,
                       stopping>>
    BY <1>13 DEF Unlock
  <2> QED
    BY <2>1, <2>2, <1>1 DEF Elsewhere, ServersTypes
<1> QED
  BY <1>3, <1>4, <1>5, <1>6, <1>7, <1>8, <1>9, <1>10, <1>11, <1>12, <1>13, Zenon
     DEF RunJob, RedisError

(* ... so that what was coming for a port, settling or up to date still is *)
(* if it was not that goroutine's own doing.                               *)
LEMMA KeptElsewhere ==
    ASSUME ServersInv, NEW t \in Threads, Elsewhere(t),
           NEW p \in SafePorts, Kept(p),
           arg[t] # p
    PROVE  Kept(p)'
<1>1. /\ ServersTypes
      /\ \A u \in Threads : pc[u] \in WithObject => obj[u] \in Heap /\ obj[u][1] = arg[u]
  BY ThreadsDistinct
     DEF ServersInv, ExclusionInv, TypeInv, TypeOK, ControlOK, ServersTypes, ServersOK, PlacesOK,
         WithObject, InSection, Busy
<1>2. Coming(p) => Coming(p)'
  BY DEF Coming, Elsewhere
<1>3. Settling(p) => Settling(p)'
  <2> SUFFICES ASSUME NEW u \in Threads, arg[u] = p, backends[obj[u]] = frontend[p],
                      \/ pc[u] = "config"
                      \/ pc[u] = "register" /\ impl[obj[u]] # None /\ ~stopping[impl[obj[u]]]
               PROVE  Settling(p)'
    BY DEF Settling
  <2>1. u # t /\ obj[u] \in Heap /\ obj[u][1] = p
    BY <1>1 DEF WithObject, Busy
  <2>2. impl[obj[u]] # None => impl[obj[u]] \in Heap /\ impl[obj[u]][1] = p
    BY <2>1, <1>1 DEF ServersTypes, ServersInv, ServersOK, PlacesOK
  <2>3. /\ pc'[u] = pc[u] /\ arg'[u] = p /\ obj'[u] = obj[u] /\ frontend' = frontend
        /\ backends'[obj[u]] = backends[obj[u]] /\ impl'[obj[u]] = impl[obj[u]]
    BY <2>1 DEF Elsewhere
  <2>4. impl[obj[u]] # None => stopping'[impl[obj[u]]] = stopping[impl[obj[u]]]
    BY <2>2 DEF Elsewhere
  <2> QED
    BY <2>3, <2>4 DEF Settling
<1>4. UpToDate(p) => UpToDate(p)'
  <2> SUFFICES ASSUME UpToDate(p) PROVE UpToDate(p)'
    OBVIOUS
  <2> DEFINE c == clusters[p]
  <2>1. p \in Ports /\ c \in Heap /\ c[1] = p
    BY <1>1 DEF UpToDate, ServersTypes, SafePorts, ServersInv, ServersOK, PlacesOK
  <2>2. impl[c] \in Heap /\ impl[c][1] = p
    BY <2>1, <1>1 DEF UpToDate, ServersTypes, ServersInv, ServersOK, PlacesOK
  <2>3. /\ clusters'[p] = c /\ backends'[c] = backends[c] /\ impl'[c] = impl[c]
        /\ stopping'[impl[c]] = stopping[impl[c]] /\ frontend' = frontend
    BY <2>1, <2>2 DEF Elsewhere
  <2> QED
    BY <2>3 DEF UpToDate
<1> QED
  BY <1>2, <1>3, <1>4 DEF Kept

(* The goroutine that works on a port brings its list from Redis to the    *)
(* server, or fails in a way that takes the announcement back.             *)
LEMMA KeptHere ==
    ASSUME ServersInv, NEW t \in Threads, RunJob(t) \/ RedisError(t), Elsewhere(t),
           NEW p \in SafePorts, arg[t] = p, Owed(p) => Kept(p), Owed(p)'
    PROVE  Kept(p)'
<1> USE DEF Goto, redis, pubsub, mutexes, objects, servers, threads
<1>1. /\ ServersTypes /\ announced \in [Ports -> BOOLEAN] /\ supported \in [Ports -> BOOLEAN]
      /\ p \in Ports
      /\ pc[t] \in WithObject => obj[t] \in Heap /\ obj[t] # None
                                 /\ (clusters[p] # None => obj[t] = clusters[p])
      /\ pc[t] \in Busy => InSection(t) /\ job[t] = "make"
                           /\ \A u \in Threads : InSection(u) /\ arg[u] = p => u = t
  BY SafeMakes, ThreadsDistinct
     DEF ServersInv, ExclusionInv, TypeInv, TypeOK, ControlOK, ServersTypes, ServersOK,
         SameCluster, SafePorts, InSection
<1>2. frontend' = frontend /\ supported' = supported
  BY DEF Elsewhere
<1>3. ASSUME pc'[t] \in ToRead, arg' = arg PROVE Kept(p)'
  BY <1>3 DEF Kept, Coming
<1>4. pc[t] \notin ToRead /\ Coming(p) => Coming(p)'
  BY DEF Coming, Elsewhere
<1>5. CASE Lock(t) \/ MakeNew(t) \/ MakeUpdate(t) \/ Fetch(t) \/ Teardown(t) \/ Shutdown(t) \/ Refresh(t)
  <2>1. pc'[t] \in ToRead /\ arg' = arg
    BY <1>1, <1>5 DEF Lock, MakeNew, MakeUpdate, Fetch, BeforeRefresh, Teardown, Shutdown, Refresh,
                      ToRead, ServersTypes
  <2> QED
    BY <2>1, <1>3
<1>6. CASE Drained(t) \/ DrainTimeout(t)
  <2>1. job[t] = "make"
    BY <1>1, <1>6 DEF Drained, DrainTimeout, Busy
  <2>2. pc' = [pc EXCEPT ![t] = "refresh"] /\ arg' = arg
    BY <2>1, <1>6 DEF Drained, DrainTimeout, AfterTeardown
  <2> QED
    BY <2>2, <1>1, <1>3 DEF ToRead, ServersTypes
<1>7. CASE RemoveAbsent(t) \/ RemoveFound(t) \/ Unregister(t)
  BY <1>1, <1>7 DEF RemoveAbsent, RemoveFound, Unregister, Assign, Busy
<1>8. CASE LRange(t)
  <2>1. /\ pc[t] = "lrange" /\ obj' = obj /\ arg' = arg
        /\ backends' = [backends EXCEPT ![obj[t]] = frontend[p]]
    BY <1>8 DEF LRange, NewBackends
  <2>2. pc' = [pc EXCEPT ![t] = "config"]
    BY <1>2, <1>8 DEF LRange, NoBackends, NewBackends, Owed
  <2>3. pc'[t] = "config" /\ arg'[t] = p /\ backends'[obj'[t]] = frontend'[p]
    BY <2>1, <2>2, <1>1, <1>2 DEF WithObject, Busy, ServersTypes
  <2> QED
    BY <2>1, <2>3 DEF Kept, Settling
<1>9. CASE LRangeError(t)
  BY <1>1, <1>9 DEF LRangeError, Owed
<1>10. CASE GetConfigUnsupported(t)
  BY <1>1, <1>2, <1>10 DEF GetConfigUnsupported, Owed
<1>11. CASE GetConfig(t) \/ GetConfigError(t)
  <2>1. pc[t] = "config" /\ StartServer(t)
    BY <1>11 DEF GetConfig, GetConfigError
  <2>2. PICK s \in Heap : /\ impl' = [impl EXCEPT ![obj[t]] = s]
                          /\ stopping' = [stopping EXCEPT ![s] = FALSE]
    BY <2>1 DEF StartServer, Lowest
  <2>3. /\ pc' = [pc EXCEPT ![t] = "register"] /\ obj[t] \in Heap
        /\ UNCHANGED <<arg, obj, backends, announced>>
    BY <2>1, <1>1 DEF StartServer, WithObject, Busy
  <2>4. Kept(p)
    BY <2>3, <1>2 DEF Owed
  <2>5. Coming(p) \/ backends[obj[t]] = frontend[p]
    <3>1. UpToDate(p) => backends[obj[t]] = frontend[p]
      BY <2>1, <1>1 DEF UpToDate, WithObject, Busy
    <3>2. Settling(p) => backends[obj[t]] = frontend[p]
      BY <2>1, <1>1 DEF Settling, InSection, Busy
    <3> QED
      BY <2>4, <3>1, <3>2 DEF Kept
  <2>6. /\ pc'[t] = "register" /\ arg'[t] = p /\ impl'[obj'[t]] = s /\ s # None
        /\ ~stopping'[s] /\ backends'[obj'[t]] = backends[obj[t]]
    BY <2>2, <2>3, <1>1, ThreadsDistinct DEF ServersTypes
  <2>7. backends[obj[t]] = frontend[p] => Settling(p)'
    BY <2>6, <2>3, <1>2 DEF Settling
  <2> QED
    BY <2>1, <2>5, <2>7, <1>4 DEF Kept, ToRead
<1>12. CASE Register(t)
  <2>1. /\ pc[t] = "register" /\ clusters' = [clusters EXCEPT ![p] = obj[t]]
        /\ UNCHANGED <<arg, obj, backends, impl, stopping, announced>>
    BY <1>12 DEF Register, Assign
  <2>2. Kept(p)
    BY <2>1, <1>2 DEF Owed
  <2>3. clusters'[p] = obj[t] /\ obj[t] # None
    BY <2>1, <1>1 DEF WithObject, Busy, ServersTypes
  <2>4. UpToDate(p) => UpToDate(p)'
    BY <2>1, <2>3, <1>1, <1>2 DEF UpToDate, WithObject, Busy
  <2>5. Settling(p) => UpToDate(p)'
    <3> SUFFICES ASSUME Settling(p) PROVE UpToDate(p)'
      OBVIOUS
    <3>1. backends[obj[t]] = frontend[p] /\ impl[obj[t]] # None /\ ~stopping[impl[obj[t]]]
      BY <2>1, <1>1 DEF Settling, InSection, Busy
    <3> QED
      BY <3>1, <2>1, <2>3, <1>2 DEF UpToDate
  <2> QED
    BY <2>1, <2>2, <2>4, <2>5, <1>4 DEF Kept, ToRead
<1>13. CASE Unlock(t)
  <2>1. pc[t] = "unlock" /\ UNCHANGED <<clusters, backends, impl, stopping, announced>>
    BY <1>13 DEF Unlock
  <2>2. Kept(p)
    BY <2>1, <1>2 DEF Owed
  <2>3. UpToDate(p) => UpToDate(p)'
    BY <2>1, <1>2 DEF UpToDate
  <2>4. ~Settling(p)
    BY <2>1, <1>1 DEF Settling, InSection, Busy
  <2> QED
    BY <2>1, <2>2, <2>3, <2>4, <1>4 DEF Kept, ToRead
<1>14. CASE FetchNil(t) \/ ShutdownNil(t)
  BY <1>1, <1>14 DEF FetchNil, ShutdownNil, Crash, Owed, Const
<1> QED
  BY <1>5, <1>6, <1>7, <1>8, <1>9, <1>10, <1>11, <1>12, <1>13, <1>14, Zenon DEF RunJob, RedisError

(* The goroutine of a server stops none. *)
LEMMA KeptServe ==
    ASSUME NEW s \in Heap, ServeCheck(s) \/ ServeListen(s) \/ ServeTrack(s), NEW p \in SafePorts
    PROVE  (Owed(p)' => Owed(p)) /\ (Kept(p) => Kept(p)')
<1>1. UNCHANGED <<frontend, supported, announced, todo, inbox, pc, arg, obj, clusters, backends,
                  impl, stopping>>
  BY DEF ServeCheck, ServeListen, ServeTrack, ServeAdvances, threads, objects, redis, pubsub
<1> QED
  BY <1>1 DEF Owed, Kept, Coming, Settling, UpToDate

(* Every step keeps track of the changes that were announced. *)
LEMMA KeptStep ==
    ASSUME ServersInv, [Next]_vars, NoUpdateIsLost
    PROVE  NoUpdateIsLost'
<1> SUFFICES ASSUME NEW p \in SafePorts, Owed(p)' PROVE Kept(p)'
  BY DEF NoUpdateIsLost, Kept
<1>1. Owed(p) => Kept(p)
  BY DEF NoUpdateIsLost, Kept
<1>2. CASE Outside
  BY <1>1, <1>2, KeptOutside DEF ServersInv
<1>3. CASE Crash
  BY <1>3 DEF Crash, Owed, Const, SafePorts
<1>4. CASE UNCHANGED vars
  BY <1>1, <1>4 DEF vars, redis, pubsub, threads, objects, servers, Owed, Kept, Coming, Settling,
                    UpToDate
<1>5. ASSUME NEW t \in Threads, RunJob(t) \/ RedisError(t) PROVE Kept(p)'
  <2>1. Crash \/ Elsewhere(t)
    BY <1>5, JobElsewhere
  <2>2. CASE Elsewhere(t) /\ arg[t] = p
    BY <2>2, <1>1, <1>5, KeptHere, Zenon
  <2>3. CASE Elsewhere(t) /\ arg[t] # p
    <3>1. Owed(p)
      BY <2>3 DEF Owed, Elsewhere, SafePorts
    <3> QED
      BY <2>3, <3>1, <1>1, KeptElsewhere
  <2> QED
    BY <2>1, <2>2, <2>3, <1>3
<1>6. CASE (\E s \in Heap : ServeCheck(s) \/ ServeListen(s) \/ ServeTrack(s))
  BY <1>1, <1>6, KeptServe
<1> QED
  BY <1>2, <1>3, <1>4, <1>5, <1>6, NextCases

(* No announced change of a safe port is lost between Redis and the server *)
(* of the port (main and the listeners in main.go, MakeCluster and Refresh *)
(* in clusters.go), as long as the process and its subscription live and   *)
(* Redis answers: a crash, a broken connection and an error of LRANGE take *)
(* the announcement back.                                                  *)
THEOREM UpdatesAreNotLost == Spec => []NoUpdateIsLost
<1>1. Init => NoUpdateIsLost
  BY DEF Init, NoUpdateIsLost, Owed, Const, SafePorts
<1>2. ServersInv /\ NoUpdateIsLost /\ [Next]_vars => NoUpdateIsLost'
  BY KeptStep
<1> QED
  BY <1>1, <1>2, ServersInvariant, PTL DEF Spec
=============================================================================
