------------------------- MODULE ResponseCacheProofs -------------------------
(***************************************************************************)
(* The response cache of go-proxy, for any number of requests in flight,   *)
(* servers and backends, and any checksum.                                 *)
(***************************************************************************)
EXTENDS ResponseCache, FiniteSetTheorems, TLAPS

(* What a request has at each of its steps.                                *)
Sound(q) ==
    /\ q.pc # "idle" => q.server \in Servers
    /\ q.pc \notin {"idle", "connected"} => q.kind \in Kinds
    /\ q.pc = "forward" => q.backend \in Backends

Progress == \A r \in Requests : Sound(req[r])

(* Updates come one at a time and start the servers one after the other.   *)
UpdateInv == update # "none" => server < MaxServers

TypeInv == TypeOK /\ Progress /\ UpdateInv

(* A cache holds under a hash only responses to requests with that hash,   *)
(* but for the empty one, which is never looked up.                        *)
CacheOwn ==
    \A s \in Servers, h \in Hashes :
        cache[s][h] # NoResponse => Hash[cache[s][h].kind] = h

Own(q) ==
    /\ q.pc = "connected" => q.hash = None
    /\ q.hash # None => q.hash = Hash[q.kind]
    /\ q.pc = "store" => q.response.kind = q.kind
    /\ q.pc = "hit" => Hash[q.response.kind] = Hash[q.kind]

RequestOwn == \A r \in Requests : Own(req[r])

OwnInv == CacheOwn /\ RequestOwn

(* Every server but the last is stopped, and so is that one during an      *)
(* update: while it is not, the cluster has backends and keeps them.       *)
ServersInv ==
    /\ \A s \in Servers : s \in stopped => s <= server
    /\ \A s \in Servers : s < server => s \in stopped
    /\ update # "none" /\ server # 0 => server \in stopped
    /\ update \in {"config", "start"} => backends # {}
    /\ server # 0 /\ server \notin stopped => backends # {}

(* What live servers use is of the backends the cluster has.               *)
CacheCurrent ==
    \A s \in Servers \ stopped, h \in Keys :
        s <= server /\ cache[s][h] # NoResponse => cache[s][h].backend \in backends

Current(q) ==
    /\ q.server <= server
    /\ q.server \notin stopped =>
          /\ q.pc # "panic"
          /\ q.pc = "index" => q.count = Cardinality(backends)
          /\ q.pc = "forward" => q.backend \in backends
          /\ q.pc \in {"store", "hit"} => q.response.backend \in backends

RequestCurrent == \A r \in Requests : Current(req[r])

LiveInv == ServersInv /\ CacheCurrent /\ RequestCurrent

-----------------------------------------------------------------------------
(* What the ends of a request leave of a cache c: c, or c without the      *)
(* entries of a server.                                                    *)
LEMMA EndForms ==
    ASSUME NEW r \in Requests, NEW c, End(r, c)
    PROVE  /\ req' = [req EXCEPT ![r] = Idle]
           /\ cache' = c \/ cache' = [c EXCEPT ![req[r].server] = Empty]
  BY DEF End, Step

(* The number of backends of a cluster is one of a list of Backends.       *)
LEMMA CountType ==
    ASSUME NEW S \in SUBSET Backends
    PROVE  Cardinality(S) \in 0 .. Cardinality(Backends)
  BY BackendsAreFinite, FS_Subset, FS_CardinalityType

LEMMA IdleType == Idle \in RequestStates /\ Sound(Idle)
<1>1. Cardinality(Backends) \in Nat
  BY BackendsAreFinite, FS_CardinalityType
<1> QED
  BY <1>1, ServersArePositive DEF Idle, RequestStates, Keys, Sound

LEMMA TypeInit == Init => TypeInv
<1>1. Init => cache \in [Servers -> [Keys -> Responses \cup {NoResponse}]]
  BY DEF Init, Empty
<1>2. 0 \in 0 .. MaxServers
  BY ServersArePositive
<1> QED
  BY <1>1, <1>2, IdleType DEF Init, TypeInv, TypeOK, Progress, UpdateInv

(* A step of a request leaves it in a state that is sound.                 *)
LEMMA RequestStep ==
    ASSUME TypeInv, NEW r \in Requests, NEW q \in RequestStates, Sound(q), Step(r, q),
           UNCHANGED clusterVars,
           cache' \in [Servers -> [Keys -> Responses \cup {NoResponse}]]
    PROVE  TypeInv'
  BY DEF TypeInv, TypeOK, Progress, UpdateInv, Step, clusterVars

LEMMA EndType ==
    ASSUME TypeInv, NEW r \in Requests, NEW c \in [Servers -> [Keys -> Responses \cup {NoResponse}]],
           End(r, c), UNCHANGED clusterVars
    PROVE  TypeInv'
<1>1. Empty \in [Keys -> Responses \cup {NoResponse}]
  BY DEF Empty
<1>2. cache' \in [Servers -> [Keys -> Responses \cup {NoResponse}]]
  BY <1>1, EndForms
<1> QED
  BY <1>2, IdleType, RequestStep DEF End

(* Types are kept; only a request that is under way has a server and a     *)
(* kind, and a server is started only where there is room for one.         *)
LEMMA TypeStep == TypeInv /\ [Next]_vars => TypeInv'
<1> SUFFICES ASSUME TypeInv, [Next]_vars
             PROVE  TypeInv'
  OBVIOUS
<1>0. Empty \in [Keys -> Responses \cup {NoResponse}]
  BY DEF Empty
<1>t. /\ cache \in [Servers -> [Keys -> Responses \cup {NoResponse}]]
      /\ \A r \in Requests : req[r] \in RequestStates /\ Sound(req[r])
      /\ backends \in SUBSET Backends /\ server \in 0 .. MaxServers
  BY DEF TypeInv, TypeOK, Progress
<1>1. CASE First \/ Teardown \/ DrainTimeout \/ LRangeError \/ Unsupported
  <2>1. CASE First
    <3>1. UpdateInv'
      BY <2>1, ServersArePositive DEF First, UpdateInv
    <3> QED
      BY <2>1, <3>1 DEF TypeInv, TypeOK, Progress, First
  <2>2. CASE Teardown
    <3>1. stopped' \subseteq Servers
      BY <2>2, <1>t, ServersArePositive DEF TypeInv, TypeOK, Servers, Teardown, Stopped
    <3> QED
      BY <2>2, <3>1 DEF TypeInv, TypeOK, Progress, UpdateInv, Teardown
  <2>3. CASE DrainTimeout \/ LRangeError \/ Unsupported
    BY <2>3 DEF TypeInv, TypeOK, Progress, UpdateInv, DrainTimeout, LRangeError, Unsupported
  <2> QED
    BY <1>1, <2>1, <2>2, <2>3
<1>2. CASE \E list \in SUBSET Backends : LRange(list)
  BY <1>2 DEF TypeInv, TypeOK, Progress, UpdateInv, LRange
<1>3. CASE \E enabled \in BOOLEAN : GetConfig(enabled)
  BY <1>3 DEF TypeInv, TypeOK, Progress, UpdateInv, GetConfig
<1>4. CASE Crash
  <2>1. /\ 0 \in 0 .. MaxServers
        /\ cache' \in [Servers -> [Keys -> Responses \cup {NoResponse}]]
    BY <1>0, <1>4, ServersArePositive DEF Crash
  <2>2. req' \in [Requests -> RequestStates] /\ Progress'
    BY <1>4, IdleType DEF Crash, Progress
  <2> QED
    BY <1>4, <2>1, <2>2 DEF TypeInv, TypeOK, UpdateInv, Crash
<1>5. CASE Drained
  BY <1>0, <1>5 DEF TypeInv, TypeOK, Progress, UpdateInv, Drained
<1>6. CASE StartServer
  <2>1. server + 1 \in 0 .. MaxServers
    BY <1>6, <1>t, ServersArePositive DEF TypeInv, UpdateInv, StartServer
  <2>2. cache' \in [Servers -> [Keys -> Responses \cup {NoResponse}]]
    BY <1>0, <1>6, <1>t DEF StartServer, NewCache
  <2> QED
    BY <1>6, <2>1, <2>2 DEF TypeInv, TypeOK, Progress, UpdateInv, StartServer
<1>7. ASSUME NEW r \in Requests, Connect(r)
      PROVE  TypeInv'
  <2> DEFINE q == [Idle EXCEPT !.pc = "connected", !.server = server]
  <2>0. server \in Servers
    BY <1>7, <1>t, ServersArePositive DEF Connect, Servers
  <2>1. q \in RequestStates /\ Sound(q)
    BY <2>0, <1>t, IdleType DEF RequestStates, Sound
  <2> QED
    BY <1>7, <1>t, <2>1, RequestStep DEF Connect
<1>8. ASSUME NEW r \in Requests, NEW k \in Kinds, Arrive(r, k)
      PROVE  TypeInv'
  <2> DEFINE q == [req[r] EXCEPT !.pc = IF cacheEnabled THEN "body" ELSE "pick", !.kind = k]
  <2>1. q \in RequestStates /\ Sound(q)
    BY <1>8, <1>t DEF Arrive, At, RequestStates, Sound
  <2> QED
    BY <1>8, <1>t, <2>1, RequestStep DEF Arrive
<1>9. ASSUME NEW r \in Requests, Lookup(r)
      PROVE  TypeInv'
  <2> DEFINE h == Hash[req[r].kind]
             found == cache[req[r].server][h]
             q == [req[r] EXCEPT !.pc = IF found = NoResponse THEN "pick" ELSE "hit",
                                 !.hash = h, !.response = found]
  <2>1. h \in Keys /\ found \in Responses \cup {NoResponse}
    BY <1>9, <1>t, HashIsAFunction DEF Lookup, At, Sound, Keys
  <2> HIDE DEF h, found
  <2>2. q \in RequestStates /\ Sound(q)
    BY <1>9, <1>t, <2>1 DEF Lookup, At, RequestStates, Sound
  <2> QED
    BY <1>9, <1>t, <2>2, RequestStep DEF Lookup, h, found
<1>10. ASSUME NEW r \in Requests, NEW p \in {"pick", "panic"},
              NoBody(r) \/ OutOfRange(r), Step(r, [req[r] EXCEPT !.pc = p])
       PROVE  TypeInv'
  <2> DEFINE q == [req[r] EXCEPT !.pc = p]
  <2>1. q \in RequestStates /\ Sound(q)
    BY <1>10, <1>t DEF NoBody, OutOfRange, At, RequestStates, Sound
  <2> QED
    BY <1>10, <1>t, <2>1, RequestStep DEF NoBody, OutOfRange
<1>11. ASSUME NEW r \in Requests, Count(r)
       PROVE  TypeInv'
  <2> DEFINE n == Cardinality(backends)
             q == [req[r] EXCEPT !.pc = IF backends = {} THEN "panic" ELSE "index", !.count = n]
  <2>1. n \in 0 .. Cardinality(Backends)
    BY <1>t, CountType
  <2> HIDE DEF n
  <2>2. q \in RequestStates /\ Sound(q)
    BY <1>11, <1>t, <2>1 DEF Count, At, RequestStates, Sound
  <2> QED
    BY <1>11, <1>t, <2>2, RequestStep DEF Count, n
<1>12. ASSUME NEW r \in Requests, NEW b \in Backends, Pick(r, b)
       PROVE  TypeInv'
  <2> DEFINE q == [req[r] EXCEPT !.pc = "forward", !.backend = b]
  <2>1. q \in RequestStates /\ Sound(q)
    BY <1>12, <1>t DEF Pick, At, RequestStates, Sound
  <2> QED
    BY <1>12, <1>t, <2>1, RequestStep DEF Pick
<1>13. ASSUME NEW r \in Requests, cacheEnabled, Modify(r)
       PROVE  TypeInv'
  <2> DEFINE q == [req[r] EXCEPT !.pc = "store", !.response = Answer(r)]
  <2>1. Answer(r) \in Responses
    BY <1>13, <1>t DEF Modify, At, Sound, Answer, Responses
  <2>2. q \in RequestStates /\ Sound(q)
    BY <1>13, <1>t, <2>1 DEF Modify, At, RequestStates, Sound
  <2> QED
    BY <1>13, <1>t, <2>2, RequestStep DEF Modify
<1>14. ASSUME NEW r \in Requests,
              Hangup(r) \/ BadGateway(r) \/ (~cacheEnabled /\ Modify(r)) \/ NoResponseBody(r) \/ Finish(r)
       PROVE  TypeInv'
  BY <1>14, <1>t, EndType DEF Hangup, BadGateway, Modify, NoResponseBody, Finish
<1>15. ASSUME NEW r \in Requests, Store(r)
       PROVE  TypeInv'
  <2>1. [cache EXCEPT ![req[r].server][StoreHash(r)] = req[r].response]
           \in [Servers -> [Keys -> Responses \cup {NoResponse}]]
    BY <1>15, <1>t DEF Store, StoreHash, At, RequestStates
  <2> QED
    BY <1>15, <2>1, EndType DEF Store
<1>16. ASSUME NEW s \in Servers, NEW h \in Keys, Expire(s, h)
       PROVE  TypeInv'
  BY <1>16 DEF TypeInv, TypeOK, Progress, UpdateInv, Expire, clusterVars
<1>17. CASE UNCHANGED vars
  BY <1>17 DEF TypeInv, TypeOK, Progress, UpdateInv, vars
<1> QED
  BY <1>1, <1>2, <1>3, <1>4, <1>5, <1>6, <1>7, <1>8, <1>9, <1>10, <1>11, <1>12, <1>13, <1>14, <1>15,
     <1>16, <1>17 DEF Next, MakeCluster, Handle, Modify, NoBody, OutOfRange

(* Spec keeps the types of the cluster's fields, caches and requests.      *)
THEOREM TypeCorrect == Spec => []TypeOK
<1>1. TypeInv => TypeOK
  BY DEF TypeInv
<1> QED
  BY <1>1, TypeInit, TypeStep, PTL DEF Spec

-----------------------------------------------------------------------------
LEMMA IdleOwn == Own(Idle) /\ \A h \in Hashes : Empty[h] = NoResponse
  BY DEF Own, Idle, Empty, Keys

LEMMA OwnInit == Init => OwnInv
  BY IdleOwn DEF Init, OwnInv, CacheOwn, RequestOwn

(* The end of a request that leaves entries under their own hash.          *)
LEMMA OwnEnd ==
    ASSUME TypeInv, OwnInv, NEW r \in Requests, NEW c \in [Servers -> [Keys -> Responses \cup {NoResponse}]],
           End(r, c),
           \A s \in Servers, h \in Hashes : c[s][h] # NoResponse => Hash[c[s][h].kind] = h
    PROVE  OwnInv'
<1>1. CacheOwn'
  BY IdleOwn, EndForms DEF CacheOwn
<1>2. RequestOwn'
  BY IdleOwn, EndForms DEF OwnInv, RequestOwn, TypeInv, TypeOK
<1> QED
  BY <1>1, <1>2 DEF OwnInv

(* Only Lookup gives a request a hash, and its own; a response is stored   *)
(* under the hash of the request it was sent for.                          *)
LEMMA OwnStep == TypeInv /\ OwnInv /\ [Next]_vars => OwnInv'
<1> SUFFICES ASSUME TypeInv, OwnInv, [Next]_vars
             PROVE  OwnInv'
  OBVIOUS
<1>t. /\ cache \in [Servers -> [Keys -> Responses \cup {NoResponse}]]
      /\ req \in [Requests -> RequestStates]
      /\ \A r \in Requests : req[r] \in RequestStates /\ Sound(req[r]) /\ Own(req[r])
  BY DEF TypeInv, TypeOK, Progress, OwnInv, RequestOwn
<1>s. ASSUME NEW r \in Requests, NEW q, Step(r, q), Own(q), UNCHANGED cache
      PROVE  OwnInv'
  BY <1>s, <1>t DEF Step, OwnInv, CacheOwn, RequestOwn
<1>1. CASE UNCHANGED <<cache, req>>
  BY <1>1 DEF OwnInv, CacheOwn, RequestOwn
<1>2. CASE Crash
  BY <1>2, IdleOwn DEF Crash, OwnInv, CacheOwn, RequestOwn
<1>3. CASE Drained \/ StartServer
  <2>1. req' = req /\ \E s : cache' = [cache EXCEPT ![s] = Empty]
    BY <1>3 DEF Drained, StartServer, NewCache
  <2> QED
    BY <1>t, <2>1, IdleOwn DEF OwnInv, CacheOwn, RequestOwn
<1>4. ASSUME NEW r \in Requests, Connect(r)
      PROVE  OwnInv'
  <2>1. Own([Idle EXCEPT !.pc = "connected", !.server = server])
    BY DEF Own, Idle
  <2> QED
    BY <1>4, <1>s, <2>1 DEF Connect
<1>5. ASSUME NEW r \in Requests, NEW k \in Kinds, Arrive(r, k)
      PROVE  OwnInv'
  <2>1. Own([req[r] EXCEPT !.pc = IF cacheEnabled THEN "body" ELSE "pick", !.kind = k])
    BY <1>5, <1>t DEF Arrive, At, Own, RequestStates
  <2> QED
    BY <1>5, <1>s, <2>1 DEF Arrive
<1>6. ASSUME NEW r \in Requests, Lookup(r)
      PROVE  OwnInv'
  <2> DEFINE h == Hash[req[r].kind]
             found == cache[req[r].server][h]
             q == [req[r] EXCEPT !.pc = IF found = NoResponse THEN "pick" ELSE "hit",
                                 !.hash = h, !.response = found]
  <2>1. found # NoResponse => Hash[found.kind] = h
    BY <1>6, <1>t, HashIsAFunction DEF Lookup, At, Sound, OwnInv, CacheOwn
  <2> HIDE DEF found
  <2>2. Own(q)
    BY <1>t, <2>1 DEF Own, RequestStates
  <2> QED
    BY <1>6, <1>s, <2>2 DEF Lookup, found
<1>7. ASSUME NEW r \in Requests, NoBody(r) \/ OutOfRange(r)
      PROVE  OwnInv'
  <2>1. ASSUME NEW p \in {"pick", "panic"}
        PROVE  Own([req[r] EXCEPT !.pc = p])
    BY <1>t DEF Own, RequestStates
  <2> QED
    BY <1>7, <1>s, <2>1 DEF NoBody, OutOfRange
<1>8. ASSUME NEW r \in Requests, Count(r)
      PROVE  OwnInv'
  <2>1. ASSUME NEW p \in {"index", "panic"}, NEW n
        PROVE  Own([req[r] EXCEPT !.pc = p, !.count = n])
    BY <1>t DEF Own, RequestStates
  <2> QED
    BY <1>8, <1>s, <2>1 DEF Count
<1>9. ASSUME NEW r \in Requests, NEW b \in Backends, Pick(r, b)
      PROVE  OwnInv'
  <2>1. Own([req[r] EXCEPT !.pc = "forward", !.backend = b])
    BY <1>t DEF Own, RequestStates
  <2> QED
    BY <1>9, <1>s, <2>1 DEF Pick
<1>10. ASSUME NEW r \in Requests, cacheEnabled, Modify(r)
       PROVE  OwnInv'
  <2>1. Own([req[r] EXCEPT !.pc = "store", !.response = Answer(r)])
    BY <1>t DEF Own, RequestStates, Answer
  <2> QED
    BY <1>10, <1>s, <2>1 DEF Modify
<1>11. ASSUME NEW r \in Requests,
              Hangup(r) \/ BadGateway(r) \/ (~cacheEnabled /\ Modify(r)) \/ NoResponseBody(r) \/ Finish(r)
       PROVE  OwnInv'
  <2>1. End(r, cache)
    BY <1>11 DEF Hangup, BadGateway, Modify, NoResponseBody, Finish
  <2> QED
    BY <1>t, <2>1, OwnEnd DEF OwnInv, CacheOwn
<1>12. ASSUME NEW r \in Requests, Store(r)
       PROVE  OwnInv'
  <2> DEFINE c == [cache EXCEPT ![req[r].server][StoreHash(r)] = req[r].response]
  <2>1. req[r].pc = "store" /\ req[r].hash \in Keys /\ req[r].response \in Responses \cup {NoResponse}
    BY <1>12, <1>t DEF Store, At, RequestStates
  <2>2. c \in [Servers -> [Keys -> Responses \cup {NoResponse}]]
    BY <1>t, <2>1 DEF StoreHash
  <2>3. \A s \in Servers, h \in Hashes : c[s][h] # NoResponse => Hash[c[s][h].kind] = h
    BY <1>t, <2>1, NoneIsNoHash DEF StoreHash, Own, OwnInv, CacheOwn, Keys
  <2> QED
    BY <1>12, <2>2, <2>3, OwnEnd DEF Store
<1>13. ASSUME NEW s \in Servers, NEW h \in Keys, Expire(s, h)
       PROVE  OwnInv'
  BY <1>13, <1>t DEF Expire, OwnInv, CacheOwn, RequestOwn
<1>14. CASE First \/ Teardown \/ DrainTimeout \/ LRangeError \/ Unsupported
  BY <1>1, <1>14 DEF First, Teardown, DrainTimeout, LRangeError, Unsupported
<1>15. CASE (\E list \in SUBSET Backends : LRange(list)) \/ (\E enabled \in BOOLEAN : GetConfig(enabled))
  BY <1>1, <1>15 DEF LRange, GetConfig
<1> QED
  BY <1>1, <1>2, <1>3, <1>4, <1>5, <1>6, <1>7, <1>8, <1>9, <1>10, <1>11, <1>12, <1>13, <1>14, <1>15
     DEF Next, MakeCluster, Handle, Modify, vars

(* A response from the cache answers a request with the same checksum.     *)
THEOREM HitsAreOwn == Spec => []OwnResponse
<1>1. OwnInv => OwnResponse
  BY DEF OwnInv, RequestOwn, Own, OwnResponse, At
<1> QED
  BY <1>1, TypeInit, TypeStep, OwnInit, OwnStep, PTL DEF Spec

-----------------------------------------------------------------------------
LEMMA IdleCurrent ==
    ASSUME server \in 0 .. MaxServers
    PROVE  Current(Idle)
  BY ServersArePositive DEF Current, Idle

LEMMA LiveInit == Init => LiveInv
  BY ServersArePositive DEF Init, LiveInv, ServersInv, CacheCurrent, RequestCurrent, Current, Idle, Empty, Servers

(* While requests go on nothing happens to the cluster.                    *)
LEMMA CurrentStep ==
    ASSUME TypeInv, LiveInv, NEW r \in Requests, NEW q, Step(r, q), Current(q),
           UNCHANGED clusterVars, CacheCurrent'
    PROVE  LiveInv'
<1>1. ServersInv'
  BY DEF clusterVars, LiveInv, ServersInv
<1>2. RequestCurrent'
  BY DEF clusterVars, LiveInv, RequestCurrent, Current, TypeInv, TypeOK, Step
<1> QED
  BY <1>1, <1>2 DEF LiveInv

LEMMA CurrentEnd ==
    ASSUME TypeInv, LiveInv, NEW r \in Requests, NEW c \in [Servers -> [Keys -> Responses \cup {NoResponse}]],
           End(r, c), UNCHANGED clusterVars,
           \A s \in Servers \ stopped, h \in Keys :
              s <= server /\ c[s][h] # NoResponse => c[s][h].backend \in backends
    PROVE  LiveInv'
<1>1. CacheCurrent'
  BY EndForms DEF CacheCurrent, clusterVars, Empty
<1>2. Current(Idle) /\ Step(r, Idle)
  BY IdleCurrent DEF TypeInv, TypeOK, End
<1> QED
  BY <1>1, <1>2, CurrentStep

(* A server that is not stopped is the last one, and no update is under way*)
(* while it is: its requests find the backends unchanged and not empty.    *)
LEMMA LiveServer ==
    ASSUME TypeInv, LiveInv, NEW s \in Servers, s <= server, s \notin stopped
    PROVE  s = server /\ update = "none" /\ backends # {}
<1>1. s \in Nat /\ server \in Nat /\ s # 0
  BY ServersArePositive DEF TypeInv, TypeOK, Servers
<1> QED
  BY <1>1 DEF LiveInv, ServersInv

LEMMA LiveStep == TypeInv /\ LiveInv /\ [Next]_vars => LiveInv'
<1> SUFFICES ASSUME TypeInv, LiveInv, [Next]_vars
             PROVE  LiveInv'
  OBVIOUS
<1>t. /\ cache \in [Servers -> [Keys -> Responses \cup {NoResponse}]]
      /\ req \in [Requests -> RequestStates]
      /\ \A r \in Requests : req[r] \in RequestStates /\ Sound(req[r]) /\ Current(req[r])
      /\ backends \in SUBSET Backends /\ server \in 0 .. MaxServers /\ stopped \subseteq Servers
  BY DEF TypeInv, TypeOK, Progress, LiveInv, RequestCurrent
<1>n. server \in Nat /\ \A s \in Servers : s \in Nat /\ s # 0
  BY <1>t, ServersArePositive DEF Servers
<1>v. ASSUME NEW r \in Requests, ~At(r, "idle"), req[r].server \notin stopped
      PROVE  req[r].server = server /\ update = "none" /\ backends # {}
  BY <1>v, <1>t, LiveServer DEF Sound, Current, At
<1>s. ASSUME NEW r \in Requests, NEW q, Step(r, q), Current(q), UNCHANGED <<clusterVars, cache>>
      PROVE  LiveInv'
  <2>1. CacheCurrent'
    BY <1>s DEF LiveInv, CacheCurrent, clusterVars
  <2> QED
    BY <1>s, <2>1, CurrentStep
<1>1. CASE UNCHANGED vars
  BY <1>1 DEF LiveInv, ServersInv, CacheCurrent, RequestCurrent, Current, vars
<1>2. CASE Crash
  <2>1. ServersInv' /\ CacheCurrent'
    BY <1>2, ServersArePositive DEF Crash, ServersInv, CacheCurrent, Servers
  <2>2. RequestCurrent'
    BY <1>2 DEF Crash, RequestCurrent, Current, Idle
  <2> QED
    BY <2>1, <2>2 DEF LiveInv
<1>3. CASE First
  <2>1. server = 0 /\ server' = 0 /\ stopped' = stopped /\ req' = req /\ update' = "lrange"
    BY <1>3 DEF First
  <2>2. ServersInv'
    BY <2>1, <1>n DEF LiveInv, ServersInv
  <2>3. CacheCurrent'
    BY <2>1, <1>n DEF CacheCurrent
  <2>4. \A r \in Requests : req[r].pc = "idle"
    BY <2>1, <1>t, <1>n DEF Sound, Current
  <2>5. RequestCurrent'
    BY <2>1, <2>4, <1>t DEF RequestCurrent, Current
  <2> QED
    BY <2>2, <2>3, <2>5 DEF LiveInv
<1>4. CASE Teardown
  <2>1. stopped' = stopped \cup {server} /\ UNCHANGED <<backends, server, cache, req>> /\ update' = "drain"
    BY <1>4 DEF Teardown, Stopped
  <2>2. ServersInv'
    BY <2>1, <1>n DEF LiveInv, ServersInv
  <2> QED
    BY <2>1, <2>2 DEF LiveInv, CacheCurrent, RequestCurrent, Current
<1>5. CASE DrainTimeout \/ LRangeError \/ Unsupported \/ (\E enabled \in BOOLEAN : GetConfig(enabled))
  <2>1. UNCHANGED <<backends, server, stopped, cache, req>>
    BY <1>5 DEF DrainTimeout, LRangeError, Unsupported, GetConfig
  <2>2. ServersInv'
    BY <1>5, <2>1 DEF DrainTimeout, LRangeError, Unsupported, GetConfig, LiveInv, ServersInv
  <2> QED
    BY <2>1, <2>2 DEF LiveInv, CacheCurrent, RequestCurrent, Current
<1>6. CASE Drained
  <2>1. UNCHANGED <<backends, server, stopped, req>> /\ cache' = [cache EXCEPT ![server] = Empty]
    BY <1>6 DEF Drained
  <2>2. ServersInv'
    BY <1>6, <2>1 DEF Drained, LiveInv, ServersInv
  <2>3. CacheCurrent'
    BY <2>1, <1>t DEF LiveInv, CacheCurrent, Empty
  <2> QED
    BY <2>1, <2>2, <2>3 DEF LiveInv, RequestCurrent, Current
<1>7. ASSUME NEW list \in SUBSET Backends, LRange(list)
      PROVE  LiveInv'
  <2>1. /\ UNCHANGED <<server, stopped, cache, req>> /\ update = "lrange"
        /\ update' = IF list = {} THEN "none" ELSE "config"
        /\ backends' = list
    BY <1>7 DEF LRange
  <2>2. \A s \in Servers : s <= server => s \in stopped
    BY <2>1, LiveServer
  <2>3. ServersInv'
    BY <2>1 DEF LiveInv, ServersInv
  <2>4. CacheCurrent'
    BY <2>1, <2>2 DEF CacheCurrent
  <2>5. RequestCurrent'
    BY <2>1, <1>t, <1>v DEF RequestCurrent, Current, At
  <2> QED
    BY <2>3, <2>4, <2>5 DEF LiveInv
<1>8. CASE StartServer
  <2>1. /\ UNCHANGED <<backends, stopped, req>> /\ update = "start" /\ update' = "none"
        /\ server' = server + 1 /\ cache' = [cache EXCEPT ![server + 1] = Empty]
    BY <1>8 DEF StartServer, NewCache
  <2>2. \A s \in Servers : s <= server => s \in stopped
    BY <2>1, LiveServer
  <2>3. ServersInv'
    BY <2>1, <2>2, <1>n DEF LiveInv, ServersInv
  <2>4. CacheCurrent'
    <3> SUFFICES ASSUME NEW s \in Servers, s \notin stopped, NEW h \in Keys, s <= server + 1
                 PROVE  cache'[s][h] = NoResponse
      BY <2>1 DEF CacheCurrent
    <3>1. s = server + 1
      BY <2>2, <1>n
    <3> QED
      BY <2>1, <3>1, <1>t DEF Empty
  <2>5. RequestCurrent'
    BY <2>1, <1>t, <1>n DEF RequestCurrent, Current, RequestStates
  <2> QED
    BY <2>3, <2>4, <2>5 DEF LiveInv
<1>9. ASSUME NEW r \in Requests, Connect(r)
      PROVE  LiveInv'
  <2>1. Current([Idle EXCEPT !.pc = "connected", !.server = server])
    BY <1>n DEF Current, Idle
  <2> QED
    BY <1>9, <1>s, <2>1 DEF Connect
<1>10. ASSUME NEW r \in Requests, NEW k \in Kinds, Arrive(r, k)
       PROVE  LiveInv'
  <2>1. Current([req[r] EXCEPT !.pc = IF cacheEnabled THEN "body" ELSE "pick", !.kind = k])
    BY <1>t DEF Current, RequestStates
  <2> QED
    BY <1>10, <1>s, <2>1 DEF Arrive
<1>11. ASSUME NEW r \in Requests, Lookup(r)
       PROVE  LiveInv'
  <2> DEFINE h == Hash[req[r].kind]
             found == cache[req[r].server][h]
             q == [req[r] EXCEPT !.pc = IF found = NoResponse THEN "pick" ELSE "hit",
                                 !.hash = h, !.response = found]
  <2>1. req[r].server \in Servers /\ req[r].server <= server /\ h \in Keys
    BY <1>11, <1>t, HashIsAFunction DEF Lookup, At, Sound, Current, Keys
  <2>2. req[r].server \notin stopped /\ found # NoResponse => found.backend \in backends
    BY <2>1 DEF LiveInv, CacheCurrent
  <2> HIDE DEF h, found
  <2>3. Current(q)
    BY <1>t, <2>1, <2>2 DEF Current, RequestStates
  <2> QED
    BY <1>11, <1>s, <2>3 DEF Lookup, h, found
<1>12. ASSUME NEW r \in Requests, NoBody(r)
       PROVE  LiveInv'
  <2>1. Current([req[r] EXCEPT !.pc = "pick"])
    BY <1>t DEF Current, RequestStates
  <2> QED
    BY <1>12, <1>s, <2>1 DEF NoBody
<1>13. ASSUME NEW r \in Requests, OutOfRange(r)
       PROVE  LiveInv'
  <2>1. Cardinality(backends) \in Nat /\ Cardinality(backends) < req[r].count /\ At(r, "index")
    BY <1>13, <1>t, BackendsAreFinite, FS_Subset, FS_CardinalityType DEF OutOfRange
  <2>2. req[r].server \in stopped
    BY <2>1, <1>t DEF Current, At
  <2>3. Current([req[r] EXCEPT !.pc = "panic"])
    BY <2>2, <1>t DEF Current, RequestStates
  <2> QED
    BY <1>13, <1>s, <2>3 DEF OutOfRange
<1>14. ASSUME NEW r \in Requests, Count(r)
       PROVE  LiveInv'
  <2> DEFINE n == Cardinality(backends)
  <2>1. req[r].server \notin stopped => backends # {}
    BY <1>14, <1>v DEF Count, At
  <2>2. Current([req[r] EXCEPT !.pc = IF backends = {} THEN "panic" ELSE "index", !.count = n])
    BY <2>1, <1>t DEF Current, RequestStates
  <2> QED
    BY <1>14, <1>s, <2>2 DEF Count
<1>15. ASSUME NEW r \in Requests, NEW b \in Backends, Pick(r, b)
       PROVE  LiveInv'
  <2>1. Current([req[r] EXCEPT !.pc = "forward", !.backend = b])
    BY <1>15, <1>t DEF Pick, Current, RequestStates
  <2> QED
    BY <1>15, <1>s, <2>1 DEF Pick
<1>16. ASSUME NEW r \in Requests, cacheEnabled, Modify(r)
       PROVE  LiveInv'
  <2>1. Current([req[r] EXCEPT !.pc = "store", !.response = Answer(r)])
    BY <1>16, <1>t DEF Modify, At, Answer, Current, RequestStates
  <2> QED
    BY <1>16, <1>s, <2>1 DEF Modify
<1>17. ASSUME NEW r \in Requests,
              Hangup(r) \/ BadGateway(r) \/ (~cacheEnabled /\ Modify(r)) \/ NoResponseBody(r) \/ Finish(r)
       PROVE  LiveInv'
  <2>1. End(r, cache) /\ UNCHANGED clusterVars
    BY <1>17 DEF Hangup, BadGateway, Modify, NoResponseBody, Finish
  <2> QED
    BY <1>t, <2>1, CurrentEnd DEF LiveInv, CacheCurrent
<1>18. ASSUME NEW r \in Requests, Store(r)
       PROVE  LiveInv'
  <2> DEFINE c == [cache EXCEPT ![req[r].server][StoreHash(r)] = req[r].response]
  <2>1. /\ req[r].hash \in Keys /\ req[r].response \in Responses \cup {NoResponse}
        /\ req[r].server \notin stopped => req[r].response.backend \in backends
    BY <1>18, <1>t DEF Store, At, RequestStates, Current
  <2>2. c \in [Servers -> [Keys -> Responses \cup {NoResponse}]]
    BY <1>t, <2>1 DEF StoreHash
  <2>3. \A s \in Servers \ stopped, h \in Keys :
           s <= server /\ c[s][h] # NoResponse => c[s][h].backend \in backends
    BY <1>t, <2>1 DEF StoreHash, LiveInv, CacheCurrent
  <2> QED
    BY <1>18, <2>2, <2>3, CurrentEnd DEF Store
<1>19. ASSUME NEW s \in Servers, NEW h \in Keys, Expire(s, h)
       PROVE  LiveInv'
  <2>1. UNCHANGED <<clusterVars, req>> /\ cache' = [cache EXCEPT ![s][h] = NoResponse]
    BY <1>19 DEF Expire
  <2>2. CacheCurrent'
    BY <2>1, <1>t DEF clusterVars, LiveInv, CacheCurrent
  <2> QED
    BY <2>1, <2>2 DEF clusterVars, LiveInv, ServersInv, RequestCurrent, Current
<1> QED
  BY <1>1, <1>2, <1>3, <1>4, <1>5, <1>6, <1>7, <1>8, <1>9, <1>10, <1>11, <1>12, <1>13, <1>14, <1>15,
     <1>16, <1>17, <1>18, <1>19
     DEF Next, MakeCluster, Handle, Modify

(* Only requests of servers that were shut down can panic.                 *)
THEOREM LiveServersAnswer == Spec => []LiveServerAnswers
<1>1. LiveInv => LiveServerAnswers
  BY DEF LiveInv, RequestCurrent, Current, LiveServerAnswers, At
<1> QED
  BY <1>1, TypeInit, TypeStep, LiveInit, LiveStep, PTL DEF Spec

(* A live server hits only responses of backends the cluster still has.    *)
THEOREM HitsStayCurrent == Spec => []HitsAreCurrent
<1>1. LiveInv => HitsAreCurrent
  BY DEF LiveInv, RequestCurrent, Current, HitsAreCurrent, At
<1> QED
  BY <1>1, TypeInit, TypeStep, LiveInit, LiveStep, PTL DEF Spec

=============================================================================
