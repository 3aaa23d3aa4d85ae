------------------------- MODULE CustomBackendProofs -------------------------
(***************************************************************************)
(* What is known of the nginx module's requests, handlers and connections  *)
(* at each of their steps, for any number of workers, requests, ports,     *)
(* backends and blocks.                                                    *)
(***************************************************************************)
EXTENDS CustomBackend, TLAPS

(* A request has a backend from the moment its lookup has found one; the   *)
(* handler is only ever at the first evaluation of the variable.           *)
RequestInv ==
    \A w \in Workers, q \in Requests :
        /\ req[w][q].pc # "idle" => req[w][q].port \in AllPorts
        /\ req[w][q].pc \in {"idle", "proxy"} => req[w][q].backend = None
        /\ req[w][q].pc \in {"upstream", "header", "answered"} => req[w][q].backend \in Backends

HandlerInv ==
    \A w \in Workers :
        /\ Unblocked(w) => link[w] = "none"
        /\ handler[w].pc = "connect" => link[w] = "none"
        /\ handler[w].pc # "choose" => handler[w].attempts <= 3
        /\ ~Unblocked(w) => handler[w].req \in Requests /\ Handled(w).pc = "proxy"

TypeInv == TypeOK /\ RequestInv /\ HandlerInv

-----------------------------------------------------------------------------
LEMMA Values ==
    /\ Free \in HandlerStates /\ Idle \in RequestStates /\ Untold \in [offered : Lists, cause : BOOLEAN]
    /\ None \notin Backends /\ None \notin Requests /\ None \notin AllPorts
    /\ 0 \in 0 .. MaxEvents
  BY NoneIsNoValue, EventsAreNatural
     DEF Free, Idle, Untold, HandlerStates, RequestStates, Lists, AllPorts

LEMMA ZoneIsABlock == ZoneData \in ToSet(Blocks)
<1>1. Len(Blocks) \in DOMAIN Blocks
  BY RootIsABlock DEF ToSet
<1> QED
  BY <1>1, RootIsABlock DEF ZoneData, Last, ToSet

(* Whoever reads the configuration gets one for every block, and the zone  *)
(* has its queue.                                                          *)
ZoneReady(cf) == cf[ZoneData].shpool /\ cf[ZoneData].cache # None

LEMMA ZoneType ==
    ASSUME NEW n \in 0 .. MaxEvents, NEW cache \in {None, "queue"}
    PROVE  /\ init_zone(create_loc_conf(n), cache) \in [ToSet(Blocks) -> LocConf]
           /\ cache # None => ZoneReady(init_zone(create_loc_conf(n), cache))
<1> DEFINE cf == create_loc_conf(n)
<1>1. cf \in [ToSet(Blocks) -> LocConf]
  BY DEF create_loc_conf, LocConf
<1> HIDE DEF cf
<1> DEFINE z == [cf[ZoneData] EXCEPT !.shpool = TRUE, !.cache = IF cache # None THEN cache ELSE @]
<1>2. z \in LocConf /\ z.shpool = TRUE /\ (cache # None => z.cache # None)
  BY <1>1, ZoneIsABlock DEF LocConf
<1>3. init_zone(cf, cache) = [cf EXCEPT ![ZoneData] = z]
  BY <1>1, ZoneIsABlock DEF init_zone
<1> HIDE DEF z
<1> QED
  BY <1>1, <1>2, <1>3, ZoneIsABlock DEF ZoneReady, cf

LEMMA TypeInit == Init => TypeInv
<1> SUFFICES ASSUME Init
             PROVE  TypeInv
  OBVIOUS
<1>1. locs \in [ToSet(Blocks) -> LocConf]
  BY ZoneType, Values DEF Init
<1>2. TypeOK
  BY <1>1, Values, RootIsABlock DEF Init, TypeOK
<1>3. RequestInv /\ HandlerInv
  BY DEF Init, RequestInv, HandlerInv, Unblocked, Free, Idle
<1> QED
  BY <1>2, <1>3 DEF TypeInv

(* A step of worker w at its request q that leaves all others alone.       *)
Touches(w, q, h, l, x) ==
    /\ handler' = [handler EXCEPT ![w] = h]
    /\ link' = [link EXCEPT ![w] = l]
    /\ req' = [req EXCEPT ![w][q] = x]

(* What such a step must leave of the handler, the connection, the request.*)
Sound(q, h, l, x) ==
    /\ h \in HandlerStates /\ l \in {"none", "ok", "broken"} /\ x \in RequestStates
    /\ x.pc # "idle" => x.port \in AllPorts
    /\ x.pc \in {"idle", "proxy"} => x.backend = None
    /\ x.pc \in {"upstream", "header", "answered"} => x.backend \in Backends
    /\ h.pc \in {"free", "connect"} => l = "none"
    /\ h.pc # "choose" => h.attempts <= 3
    /\ h.pc # "free" => h.req = q /\ x.pc = "proxy"

LEMMA WorkerStep ==
    ASSUME TypeInv, NEW w \in Workers, NEW q \in Requests, NEW h, NEW l, NEW x,
           Unblocked(w) \/ handler[w].req = q,
           Sound(q, h, l, x), Touches(w, q, h, l, x),
           UNCHANGED <<frontend, redis, locs, conf, events>>,
           queue' \subseteq [port : AllPorts, list : Lists \ {{}}],
           told' \in [Workers -> [Requests -> [offered : Lists, cause : BOOLEAN]]]
    PROVE  TypeInv'
<1>1. TypeOK'
  BY DEF TypeInv, TypeOK, Sound, Touches
<1>2. \A u \in Workers, r \in Requests : req'[u][r] = IF u = w /\ r = q THEN x ELSE req[u][r]
  BY DEF TypeInv, TypeOK, Touches
<1>3. RequestInv'
  <2> SUFFICES ASSUME NEW u \in Workers, NEW r \in Requests
               PROVE  /\ req'[u][r].pc # "idle" => req'[u][r].port \in AllPorts
                      /\ req'[u][r].pc \in {"idle", "proxy"} => req'[u][r].backend = None
                      /\ req'[u][r].pc \in {"upstream", "header", "answered"} => req'[u][r].backend \in Backends
    BY DEF RequestInv
  <2>1. CASE u = w /\ r = q
    BY <1>2, <2>1 DEF Sound
  <2>2. CASE ~(u = w /\ r = q)
    BY <1>2, <2>2 DEF TypeInv, RequestInv
  <2> QED
    BY <2>1, <2>2
<1>4. \A u \in Workers : /\ handler'[u] = IF u = w THEN h ELSE handler[u]
                         /\ link'[u] = IF u = w THEN l ELSE link[u]
  BY DEF TypeInv, TypeOK, Touches
<1>5. HandlerInv'
  BY <1>2, <1>4 DEF TypeInv, HandlerInv, Sound, Unblocked, Handled
<1> QED
  BY <1>1, <1>3, <1>5 DEF TypeInv

(* A worker that starts.                                                   *)
LEMMA SpawnStep ==
    ASSUME TypeInv, NEW w \in Workers, Spawn(w), events' \in 0 .. MaxEvents,
           UNCHANGED <<frontend, redis, locs, queue>>
    PROVE  TypeInv'
<1>1. TypeOK'
  BY Values, RootIsABlock DEF TypeInv, TypeOK, Spawn
<1>2. RequestInv'
  BY DEF TypeInv, TypeOK, RequestInv, Spawn, Idle
<1>3. HandlerInv'
  BY DEF TypeInv, TypeOK, HandlerInv, Spawn, Unblocked, Handled, Free
<1> QED
  BY <1>1, <1>2, <1>3 DEF TypeInv

(* Types are kept, and what is known of a request at each of its steps.    *)
LEMMA TypeStep == TypeInv /\ [Next]_vars => TypeInv'
<1> SUFFICES ASSUME TypeInv, [Next]_vars
             PROVE  TypeInv'
  OBVIOUS
<1>t. /\ \A w \in Workers, q \in Requests :
            /\ req[w][q] \in RequestStates /\ told[w][q] \in [offered : Lists, cause : BOOLEAN]
            /\ ~Unblocked(w) => handler[w].req \in Requests
      /\ \A w \in Workers : handler[w] \in HandlerStates /\ link[w] \in {"none", "ok", "broken"}
      /\ frontend \in [AllPorts -> Lists] /\ queue \subseteq [port : AllPorts, list : Lists \ {{}}]
      /\ handler \in [Workers -> HandlerStates] /\ link \in [Workers -> {"none", "ok", "broken"}]
      /\ told \in [Workers -> [Requests -> [offered : Lists, cause : BOOLEAN]]]
      /\ req \in [Workers -> [Requests -> RequestStates]]
  BY DEF TypeInv, TypeOK, HandlerInv
<1>r. \A w \in Workers, q \in Requests :
        /\ req[w][q].pc # "idle" => req[w][q].port \in AllPorts
        /\ req[w][q].pc \in {"idle", "proxy"} => req[w][q].backend = None
        /\ req[w][q].pc \in {"upstream", "header", "answered"} => req[w][q].backend \in Backends
  BY DEF TypeInv, RequestInv
<1>h. \A w \in Workers :
        /\ Unblocked(w) => link[w] = "none"
        /\ handler[w].pc = "connect" => link[w] = "none"
        /\ handler[w].pc # "choose" => handler[w].attempts <= 3
        /\ ~Unblocked(w) => handler[w].req \in Requests /\ Handled(w).pc = "proxy"
  BY DEF TypeInv, HandlerInv
(* a step of a request that its handler is not at                          *)
<1>s. ASSUME NEW w \in Workers, NEW q \in Requests, NEW x \in RequestStates,
             Unblocked(w), req' = [req EXCEPT ![w][q] = x],
             x.pc # "idle" => x.port \in AllPorts,
             x.pc \in {"idle", "proxy"} => x.backend = None,
             x.pc \in {"upstream", "header", "answered"} => x.backend \in Backends,
             told' = told \/ told' = [told EXCEPT ![w][q] = Untold],
             UNCHANGED <<frontend, redis, locs, queue, conf, handler, link, events>>
      PROVE  TypeInv'
  <2>1. Sound(q, handler[w], link[w], x)
    BY <1>s, <1>t, <1>h DEF Sound, Unblocked
  <2>2. Touches(w, q, handler[w], link[w], x)
    <3>1. handler' = [handler EXCEPT ![w] = handler[w]]
      BY <1>s, <1>t
    <3>2. link' = [link EXCEPT ![w] = link[w]]
      BY <1>s, <1>t
    <3>3. req' = [req EXCEPT ![w][q] = x]
      BY <1>s
    <3> QED
      BY <3>1, <3>2, <3>3, Zenon DEF Touches
  <2>3. told' \in [Workers -> [Requests -> [offered : Lists, cause : BOOLEAN]]]
    <3>1. told \in [Workers -> [Requests -> [offered : Lists, cause : BOOLEAN]]]
      BY <1>t
    <3>2. CASE told' = told
      BY <3>1, <3>2
    <3>3. CASE told' = [told EXCEPT ![w][q] = Untold]
      BY <3>1, <3>3, Values
    <3> QED
      BY <1>s, <3>2, <3>3
  <2> QED
    BY <1>s, <1>t, <2>1, <2>2, <2>3, WorkerStep
<1>1. ASSUME NEW w \in Workers, NEW q \in Requests, NEW host \in Ports \cup {None}, Arrive(w, q, host)
      PROVE  TypeInv'
  <2> DEFINE x == [Idle EXCEPT !.pc = "proxy", !.port = get_port(host)]
  <2>1. x \in RequestStates /\ x.pc = "proxy" /\ x.port \in AllPorts /\ x.backend = None
    BY DEF Idle, RequestStates, AllPorts, get_port
  <2> QED
    BY <1>1, <1>s, <2>1 DEF Arrive
<1>2. ASSUME NEW w \in Workers, NEW q \in Requests, Again(w, q)
      PROVE  TypeInv'
  <2> DEFINE x == Valued(req[w][q], req[w][q].backend)
  <2>1. req[w][q].backend \in Backends /\ req[w][q].pc = "header" /\ req[w][q].port \in AllPorts
    BY <1>2, <1>t, <1>r, Values DEF Again, HasBackend, RequestStates
  <2>t. req[w][q] \in RequestStates
    BY <1>t
  <2>2. x \in RequestStates /\ x.pc = "answered" /\ x.port = req[w][q].port /\ x.backend = req[w][q].backend
    BY <2>1, <2>t DEF Valued, RequestStates
  <2> QED
    BY <1>2, <1>s, <2>1, <2>2 DEF Again
<1>3. ASSUME NEW w \in Workers, NEW q \in Requests, Upstream(w, q)
      PROVE  TypeInv'
  <2>1. PICK next \in {"header", "failed"} : req' = [req EXCEPT ![w][q].pc = next]
    BY <1>3 DEF Upstream
  <2> DEFINE x == [req[w][q] EXCEPT !.pc = next]
  <2>2. req[w][q].pc = "upstream" /\ req[w][q].backend \in Backends /\ req[w][q].port \in AllPorts
    BY <1>3, <1>r DEF Upstream
  <2>t. req[w][q] \in RequestStates
    BY <1>t
  <2>3. x \in RequestStates /\ x.pc = next /\ x.port = req[w][q].port /\ x.backend = req[w][q].backend
    BY <2>1, <2>t DEF RequestStates
  <2>4. req' = [req EXCEPT ![w][q] = x]
    BY <2>1
  <2> QED
    BY <1>3, <1>s, <2>1, <2>2, <2>3, <2>4 DEF Upstream
<1>4. ASSUME NEW w \in Workers, NEW q \in Requests, Finish(w, q)
      PROVE  TypeInv'
  <2>1. Idle \in RequestStates /\ Idle.pc = "idle" /\ Idle.backend = None
    BY Values DEF Idle
  <2> QED
    BY <1>4, <1>s, <2>1 DEF Finish
<1>5. ASSUME NEW w \in Workers, NEW q \in Requests, Enter(w, q)
      PROVE  TypeInv'
  <2> DEFINE x == req[w][q]
  <2>1. x.pc = "proxy" /\ Unblocked(w) /\ x.port \in AllPorts /\ link[w] = "none"
    BY <1>5, <1>r, <1>h, NoneIsNoValue DEF Enter, HasBackend
  <2>2. PICK h : /\ handler' = [handler EXCEPT ![w] = h]
                 /\ h \in HandlerStates /\ h.pc \in {"connect", "choose"} /\ h.req = q
                 /\ h.attempts = 0
    <3> DEFINE hit(e) == [Asks(q) EXCEPT !.pc = "choose", !.list = e.list]
    <3>1. /\ Asks(q) \in HandlerStates /\ Asks(q).pc = "connect" /\ Asks(q).req = q
          /\ Asks(q).attempts = 0
      <4>1. Free \in HandlerStates /\ Free.attempts = 0 /\ Free.list = {}
        BY Values DEF Free
      <4> QED
        BY <4>1 DEF Asks, HandlerStates
    <3>2. ASSUME NEW e \in find_cache_entry(w, x.port)
          PROVE  /\ hit(e) \in HandlerStates /\ hit(e).pc = "choose" /\ hit(e).req = q
                 /\ hit(e).attempts = 0
      <4>1. e \in queue
        BY <3>2 DEF find_cache_entry
      <4>2. e.list \in Lists
        BY <4>1, <1>t
      <4> QED
        BY <3>1, <4>2 DEF HandlerStates
    <3> HIDE DEF hit
    <3>3. handler' = [handler EXCEPT ![w] = Asks(q)]
          \/ \E e \in find_cache_entry(w, x.port) : handler' = [handler EXCEPT ![w] = hit(e)]
      BY <1>5 DEF Enter, hit
    <3> QED
      BY <3>1, <3>2, <3>3
  <2>3. queue' \subseteq queue
    BY <1>5 DEF Enter
  <2>4. told' \in [Workers -> [Requests -> [offered : Lists, cause : BOOLEAN]]]
    <3>1. Hear(Untold, frontend[x.port], redis = "up") \in [offered : Lists, cause : BOOLEAN]
      BY <2>1, <1>t DEF Hear, Untold, Lists
    <3> QED
      BY <1>5, <1>t, <3>1 DEF Enter
  <2>5. Sound(q, h, link[w], x) /\ Touches(w, q, h, link[w], x)
    <3>1. link = [link EXCEPT ![w] = link[w]] /\ req = [req EXCEPT ![w][q] = x]
      BY <1>t
    <3>2. link' = link /\ req' = req
      BY <1>5 DEF Enter
    <3>3. x \in RequestStates /\ x.backend = None /\ link[w] \in {"none", "ok", "broken"}
      BY <1>t, <1>r, <2>1
    <3> QED
      BY <2>1, <2>2, <3>1, <3>2, <3>3 DEF Sound, Touches
  <2> QED
    BY <1>5, <1>t, <2>1, <2>3, <2>4, <2>5, WorkerStep DEF Enter
(* a step of the handler                                                   *)
<1>a. ASSUME NEW w \in Workers, ~Unblocked(w), NEW h, NEW l, NEW x,
             Sound(handler[w].req, h, l, x), Touches(w, handler[w].req, h, l, x),
             UNCHANGED <<frontend, redis, locs, conf, told, events>>,
             queue' \subseteq [port : AllPorts, list : Lists \ {{}}]
      PROVE  TypeInv'
  <2>1. handler[w].req \in Requests
    BY <1>a, <1>h
  <2>2. told' \in [Workers -> [Requests -> [offered : Lists, cause : BOOLEAN]]]
    BY <1>a, <1>t
  <2> QED
    BY <1>a, <2>1, <2>2, WorkerStep
<1>f. ASSUME NEW w \in Workers, ~Unblocked(w)
      PROVE  Failed(Handled(w)) \in RequestStates /\ Failed(Handled(w)).pc = "failed"
             /\ Failed(Handled(w)).port \in AllPorts
  <2>1. Handled(w) \in RequestStates /\ Handled(w).pc = "proxy" /\ Handled(w).port \in AllPorts
    BY <1>f, <1>t, <1>r, <1>h DEF Handled
  <2> QED
    BY <2>1 DEF Failed, RequestStates
<1>6. ASSUME NEW w \in Workers, Connect(w)
      PROVE  TypeInv'
  <2> DEFINE h == [handler[w] EXCEPT !.pc = "query"]
  <2>1. ~Unblocked(w) /\ handler' = [handler EXCEPT ![w] = h]
    BY <1>6 DEF Connect, Unblocked
  <2>2. h \in HandlerStates /\ h.pc = "query" /\ h.req = handler[w].req
    <3>1. handler[w] \in HandlerStates
      BY <1>t
    <3> QED
      BY <3>1 DEF HandlerStates
  <2>3. Sound(handler[w].req, h, "ok", Handled(w))
    <3>1. h.attempts <= 3 /\ Handled(w) \in RequestStates
      BY <1>6, <1>t, <1>h, <2>1 DEF Connect, Handled, HandlerStates
    <3> HIDE DEF h
    <3> QED
      BY <1>r, <1>h, <2>1, <2>2, <3>1 DEF Sound, Handled
  <2>4. Touches(w, handler[w].req, h, "ok", Handled(w))
    BY <1>6, <1>t, <2>1 DEF Connect, Touches, Handled
  <2> QED
    BY <1>6, <1>t, <1>a, <2>1, <2>3, <2>4 DEF Connect
<1>7. ASSUME NEW w \in Workers, ConnectFails(w)
      PROVE  TypeInv'
  <2>1. ~Unblocked(w) /\ link[w] = "none"
    BY <1>7, <1>h DEF ConnectFails, Unblocked
  <2>2. Sound(handler[w].req, Free, link[w], Failed(Handled(w)))
    BY <1>f, <2>1, Values DEF Sound, Free
  <2>3. Touches(w, handler[w].req, Free, link[w], Failed(Handled(w)))
    BY <1>7, <1>t DEF ConnectFails, Return, Touches
  <2> QED
    BY <1>7, <1>t, <1>a, <2>1, <2>2, <2>3 DEF ConnectFails
<1>8. ASSUME NEW w \in Workers, Query(w)
      PROVE  TypeInv'
  <2> DEFINE n == NextAttempt(handler[w].attempts)
  <2>1. /\ ~Unblocked(w) /\ handler[w].pc = "query" /\ Handled(w).port \in AllPorts /\ Handled(w).pc = "proxy"
        /\ UNCHANGED <<frontend, redis, locs, queue, conf, told, events>>
    BY <1>8, <1>r, <1>h DEF Query, Unblocked, Handled
  <2>2. CASE Usable(w)
    <3> DEFINE h == [handler[w] EXCEPT !.pc = "choose", !.attempts = n, !.list = frontend[Handled(w).port]]
    <3>1. h \in HandlerStates /\ h.pc = "choose" /\ h.req = handler[w].req
      <4>1. handler[w] \in HandlerStates /\ n \in 0 .. 4 /\ frontend[Handled(w).port] \in Lists
        BY <2>1, <1>t, <1>h DEF NextAttempt, HandlerStates
      <4> HIDE DEF n
      <4> QED
        BY <4>1 DEF HandlerStates
    <3>2. Sound(handler[w].req, h, link[w], Handled(w))
      BY <1>t, <1>r, <1>h, <2>1, <3>1 DEF Sound, Handled
    <3>3. Touches(w, handler[w].req, h, link[w], Handled(w))
      BY <1>8, <1>t, <2>2 DEF Query, Touches, Handled
    <3> QED
      BY <1>t, <1>a, <2>1, <3>2, <3>3
  <2>3. CASE ~Usable(w) /\ GivesUp(n)
    <3>1. Sound(handler[w].req, Free, "none", Failed(Handled(w)))
      BY <1>f, <2>1, Values DEF Sound, Free
    <3>2. Touches(w, handler[w].req, Free, "none", Failed(Handled(w)))
      BY <1>8, <1>t, <2>3 DEF Query, Return, Closed, Touches
    <3> QED
      BY <1>t, <1>a, <2>1, <3>1, <3>2
  <2>4. CASE ~Usable(w) /\ ~GivesUp(n)
    <3> DEFINE h == [handler[w] EXCEPT !.attempts = n]
    <3>1. h \in HandlerStates /\ h.pc = "query" /\ h.req = handler[w].req /\ h.attempts <= 3
      <4>1. handler[w] \in HandlerStates /\ n \in 0 .. 3
        BY <2>4, <1>t, <1>h DEF NextAttempt, GivesUp, HandlerStates
      <4> HIDE DEF n
      <4> QED
        BY <2>1, <4>1 DEF HandlerStates
    <3>2. Sound(handler[w].req, h, link[w], Handled(w))
      BY <1>t, <1>r, <1>h, <2>1, <3>1 DEF Sound, Handled
    <3>3. Touches(w, handler[w].req, h, link[w], Handled(w))
      BY <1>8, <1>t, <2>4 DEF Query, Touches, Handled
    <3> QED
      BY <1>t, <1>a, <2>1, <3>2, <3>3
  <2> QED
    BY <2>2, <2>3, <2>4
<1>9. ASSUME NEW w \in Workers, Choose(w)
      PROVE  TypeInv'
  <2>1. /\ ~Unblocked(w) /\ handler[w].pc = "choose" /\ handler[w].list \in Lists
        /\ Handled(w) \in RequestStates /\ Handled(w).pc = "proxy" /\ Handled(w).port \in AllPorts
    BY <1>9, <1>t, <1>r, <1>h DEF Choose, Unblocked, Handled, HandlerStates
  <2>2. PICK x : /\ x \in RequestStates /\ x.pc \in {"failed", "upstream"} /\ x.port \in AllPorts
                 /\ x.pc = "upstream" => x.backend \in Backends
                 /\ Return(w, x)
    <3>1. ASSUME NEW b \in handler[w].list
          PROVE  LET x == Valued([Handled(w) EXCEPT !.backend = b], b)
                 IN /\ x \in RequestStates /\ x.pc = "upstream" /\ x.port \in AllPorts
                    /\ x.backend \in Backends
      BY <2>1 DEF Valued, RequestStates, Lists
    <3> QED
      BY <1>9, <1>f, <2>1, <3>1 DEF Choose
  <2>3. queue' = queue
    BY <1>9 DEF Choose, Stores
  <2>4. Sound(handler[w].req, Free, "none", x)
    BY <2>2, Values DEF Sound, Free
  <2>5. Touches(w, handler[w].req, Free, "none", x)
    BY <1>9, <2>2 DEF Choose, Return, Closed, Touches
  <2> QED
    BY <1>9, <1>t, <1>a, <2>1, <2>3, <2>4, <2>5 DEF Choose
(* a step outside the workers                                              *)
<1>o. ASSUME NEW f \in [AllPorts -> Lists], NEW answers \in BOOLEAN, Tell(f, answers)
      PROVE  told' \in [Workers -> [Requests -> [offered : Lists, cause : BOOLEAN]]]
  <2> SUFFICES ASSUME NEW w \in Workers, NEW q \in Requests
               PROVE  told'[w][q] \in [offered : Lists, cause : BOOLEAN]
    BY <1>o DEF Tell
  <2>1. Asking(w, q) => req[w][q].port \in AllPorts
    BY <1>r, <1>h DEF Asking, Unblocked, Handled
  <2>2. Asking(w, q) => Hear(told[w][q], f[req[w][q].port], answers) \in [offered : Lists, cause : BOOLEAN]
    BY <1>t, <2>1 DEF Hear, Lists
  <2> QED
    BY <1>o, <1>t, <2>2 DEF Tell
<1>10. ASSUME NEW p \in AllPorts, NEW l \in Lists, EditFrontend(p, l)
       PROVE  TypeInv'
  <2>1. frontend' \in [AllPorts -> Lists] /\ events' \in 0 .. MaxEvents
    BY <1>10, <1>t, EventsAreNatural DEF EditFrontend, Event, TypeInv, TypeOK
  <2>2. told' \in [Workers -> [Requests -> [offered : Lists, cause : BOOLEAN]]]
    BY <1>10, <1>o, <2>1 DEF EditFrontend
  <2> QED
    BY <1>10, <2>1, <2>2
       DEF EditFrontend, TypeInv, TypeOK, RequestInv, HandlerInv, Unblocked, Handled
<1>11. ASSUME NEW s \in {"up", "loading", "down", "hung"}, RedisBecomes(s)
       PROVE  TypeInv'
  <2>1. events' \in 0 .. MaxEvents
    BY <1>11, EventsAreNatural DEF RedisBecomes, Event, TypeInv, TypeOK
  <2>2. told' \in [Workers -> [Requests -> [offered : Lists, cause : BOOLEAN]]]
    BY <1>11, <1>o, <1>t DEF RedisBecomes
  <2>3. TypeOK'
    BY <1>11, <2>1, <2>2 DEF RedisBecomes, TypeInv, TypeOK
  <2> QED
    BY <1>11, <2>3 DEF RedisBecomes, TypeInv, TypeOK, RequestInv, HandlerInv, Unblocked, Handled
<1>12. CASE Reload
  <2>1. events' \in 0 .. MaxEvents /\ locs[ZoneData].cache \in {None, "queue"}
    BY <1>12, EventsAreNatural, ZoneIsABlock DEF Reload, Event, TypeInv, TypeOK, LocConf
  <2>2. locs' \in [ToSet(Blocks) -> LocConf]
    BY <1>12, <2>1, ZoneType DEF Reload
  <2> QED
    BY <1>12, <2>1, <2>2 DEF Reload, TypeInv, TypeOK, RequestInv, HandlerInv, Unblocked, Handled
<1>13. ASSUME NEW w \in Workers, Replace(w) \/ Die(w) \/ ArriveWithoutHost(w)
       PROVE  TypeInv'
  <2>1. events' \in 0 .. MaxEvents
    BY <1>13, EventsAreNatural DEF Replace, Die, ArriveWithoutHost, Event, TypeInv, TypeOK
  <2> QED
    BY <1>13, <2>1, SpawnStep DEF Replace, Die, ArriveWithoutHost
<1>14. CASE UNCHANGED vars
  BY <1>14 DEF vars, TypeInv, TypeOK, RequestInv, HandlerInv, Unblocked, Handled
<1> QED
  BY <1>1, <1>2, <1>3, <1>4, <1>5, <1>6, <1>7, <1>8, <1>9, <1>10, <1>11, <1>12, <1>13, <1>14
     DEF Next, Handler, Serve

(* The handler's locals, the connections and the requests keep their types.*)
THEOREM TypeCorrect == Spec => []TypeOK
<1>1. TypeInv => TypeOK
  BY DEF TypeInv
<1> QED
  BY <1>1, TypeInit, TypeStep, PTL DEF Spec

(* A worker that waits for requests has no connection to Redis open.       *)
THEOREM NoConnectionLeaks == Spec => []ConnectionsAreClosed
<1>1. TypeInv => ConnectionsAreClosed
  BY DEF TypeInv, HandlerInv, ConnectionsAreClosed
<1> QED
  BY <1>1, TypeInit, TypeStep, PTL DEF Spec

-----------------------------------------------------------------------------
(* The nginx module is a lookup in Redis, for any number of workers,       *)
(* requests, ports and backends, if the location that evaluates the        *)
(* variable is the last block of the configuration: it implements          *)
(* BackendLookup.                                                          *)

(* What Redis could have told request q of worker w includes what it would *)
(* tell now, and all that its handler has been told.                       *)
Heard(p, h, l, t) ==
    /\ frontend[p] \subseteq t.offered
    /\ frontend[p] = {} \/ redis # "up" => t.cause
    /\ h.pc = "choose" => h.list \subseteq t.offered
    /\ h.pc = "query" => l # "none"
    /\ l = "broken" => t.cause

KnownAt(w, q) ==
    /\ Asking(w, q) => Heard(req[w][q].port, handler[w], link[w], told[w][q])
    /\ ~Asking(w, q) /\ req[w][q].pc \in {"idle", "proxy"} => told[w][q] = Untold

KnownInv == \A w \in Workers, q \in Requests : KnownAt(w, q)

(* Nothing is ever in the queue, but every worker has one.                 *)
ZoneInv ==
    /\ queue = {} /\ ZoneReady(locs)
    /\ \A w \in Workers : conf[w].shpool /\ conf[w].cache # None

LookupInv == TypeInv /\ KnownInv /\ ZoneInv

-----------------------------------------------------------------------------
LEMMA ZoneInit == Root = ZoneData /\ Init => ZoneInv
<1> SUFFICES ASSUME Root = ZoneData, Init
             PROVE  ZoneInv
  OBVIOUS
<1>1. ZoneReady(locs)
  BY ZoneType, EventsAreNatural, NoneIsNoValue DEF Init
<1> QED
  BY <1>1, RootIsABlock DEF Init, ZoneInv, ZoneReady

LEMMA ZoneStep == Root = ZoneData /\ TypeInv /\ ZoneInv /\ [Next]_vars => ZoneInv'
<1> SUFFICES ASSUME Root = ZoneData, TypeInv, ZoneInv, [Next]_vars
             PROVE  ZoneInv'
  OBVIOUS
<1>1. ASSUME NEW w \in Workers, NEW q \in Requests, Enter(w, q)
      PROVE  queue' = {} /\ UNCHANGED <<locs, conf>>
  BY <1>1 DEF Enter, find_cache_entry, ZoneInv
<1>2. ASSUME NEW w \in Workers, Choose(w)
      PROVE  queue' = {} /\ UNCHANGED <<locs, conf>>
  BY <1>2 DEF Choose, Stores, ZoneInv
<1>3. ASSUME Reload
      PROVE  ZoneReady(locs') /\ UNCHANGED <<queue, conf>>
  <2>1. events' \in 0 .. MaxEvents /\ locs[ZoneData].cache \in {None, "queue"}
    BY <1>3, EventsAreNatural, ZoneIsABlock DEF Reload, Event, TypeInv, TypeOK, LocConf
  <2> QED
    BY <1>3, <2>1, ZoneType DEF Reload, ZoneInv, ZoneReady
<1>4. ASSUME NEW w \in Workers, Spawn(w), UNCHANGED <<locs, queue>>
      PROVE  ZoneInv'
  BY <1>4 DEF Spawn, ZoneInv, ZoneReady, TypeInv, TypeOK
<1>5. ASSUME UNCHANGED <<locs, queue, conf>>
      PROVE  ZoneInv'
  BY <1>5 DEF ZoneInv, ZoneReady
<1>6. ASSUME NEW w \in Workers, Handler(w)
      PROVE  ZoneInv'
  BY <1>2, <1>5, <1>6 DEF Handler, Connect, ConnectFails, Query, ZoneInv, ZoneReady
<1>7. ASSUME NEW w \in Workers, NEW q \in Requests, Serve(w, q)
      PROVE  ZoneInv'
  BY <1>1, <1>5, <1>7 DEF Serve, Again, Upstream, Finish, ZoneInv, ZoneReady
<1>8. ASSUME NEW w \in Workers, Replace(w) \/ Die(w) \/ ArriveWithoutHost(w)
      PROVE  ZoneInv'
  BY <1>4, <1>8 DEF Replace, Die, ArriveWithoutHost
<1>9. ASSUME NEW w \in Workers, NEW q \in Requests, NEW host \in Ports \cup {None}, Arrive(w, q, host)
      PROVE  ZoneInv'
  BY <1>5, <1>9 DEF Arrive
<1>10. ASSUME NEW p \in AllPorts, NEW l \in Lists, EditFrontend(p, l)
       PROVE  ZoneInv'
  BY <1>5, <1>10 DEF EditFrontend
<1>11. ASSUME NEW s \in {"up", "loading", "down", "hung"}, RedisBecomes(s)
       PROVE  ZoneInv'
  BY <1>5, <1>11 DEF RedisBecomes
<1>12. Reload => ZoneInv'
  BY <1>3 DEF ZoneInv, ZoneReady
<1>13. UNCHANGED vars => ZoneInv'
  BY <1>5 DEF vars
<1> QED
  BY <1>6, <1>7, <1>8, <1>9, <1>10, <1>11, <1>12, <1>13 DEF Next

-----------------------------------------------------------------------------
(* A step of worker w at its request q, with what is told of it.           *)
Moves(w, q, h, l, x, t) ==
    /\ Touches(w, q, h, l, x)
    /\ told' = [told EXCEPT ![w][q] = t]
    /\ UNCHANGED <<frontend, redis>>

(* What must be known of the request after it.                             *)
KnownAfter(h, l, x, t) ==
    /\ h.pc # "free" => Heard(x.port, h, l, t)
    /\ h.pc = "free" /\ x.pc \in {"idle", "proxy"} => t = Untold

(* The lookup of the request after it.                                     *)
StateAfter(h, x) ==
    IF h.pc # "free" THEN "asked"
    ELSE IF x.backend # None THEN "found"
    ELSE IF x.pc = "failed" THEN "failed" ELSE "none"

After(h, x, t) ==
    [state |-> StateAfter(h, x),
     port |-> IF StateAfter(h, x) = "none" THEN None ELSE x.port,
     answer |-> IF StateAfter(h, x) = "found" THEN x.backend ELSE None,
     offered |-> t.offered, cause |-> t.cause]

(* The lookups are a function of worker and request.                       *)
LEMMA LookupAt ==
    /\ DOMAIN Lookup = Workers \X Requests
    /\ \A u \in Workers, r \in Requests : Lookup[<<u, r>>] = LookupOf(u, r)
    /\ Lookup = [r \in Workers \X Requests |-> Lookup[r]]
  BY DEF Lookup

LEMMA LookupAtNext ==
    /\ \A u \in Workers, r \in Requests : Lookup'[<<u, r>>] = LookupOf(u, r)'
    /\ Lookup' = [r \in Workers \X Requests |-> Lookup'[r]]
  BY DEF Lookup

LEMMA MoveStep ==
    ASSUME TypeInv, KnownInv, NEW w \in Workers, NEW q \in Requests, NEW h, NEW l, NEW x, NEW t,
           Unblocked(w) \/ handler[w].req = q, h.pc # "free" => h.req = q,
           Moves(w, q, h, l, x, t), KnownAfter(h, l, x, t)
    PROVE  KnownInv' /\ Lookup' = [Lookup EXCEPT ![<<w, q>>] = After(h, x, t)]
<1>1. \A u \in Workers, r \in Requests :
        /\ req'[u][r] = IF u = w /\ r = q THEN x ELSE req[u][r]
        /\ told'[u][r] = IF u = w /\ r = q THEN t ELSE told[u][r]
  BY DEF TypeInv, TypeOK, Moves, Touches
<1>2. \A u \in Workers : /\ handler'[u] = IF u = w THEN h ELSE handler[u]
                         /\ link'[u] = IF u = w THEN l ELSE link[u]
  BY DEF TypeInv, TypeOK, Moves, Touches
<1>3. \A u \in Workers, r \in Requests :
        ~(u = w /\ r = q) => (Asking(u, r)' <=> Asking(u, r)) /\ (Asking(u, r) => u # w)
  BY <1>2 DEF Asking, Unblocked
<1>4. Asking(w, q)' <=> h.pc # "free"
  BY <1>2 DEF Asking
<1>5. frontend' = frontend /\ redis' = redis
  BY DEF Moves
<1>6. ASSUME NEW u \in Workers, NEW r \in Requests
      PROVE  KnownAt(u, r)'
  <2>1. CASE u = w /\ r = q
    BY <1>1, <1>2, <1>4, <1>5, <2>1 DEF KnownAt, KnownAfter, Heard
  <2>2. CASE ~(u = w /\ r = q)
    <3>1. KnownAt(u, r)
      BY DEF KnownInv
    <3> QED
      BY <1>1, <1>2, <1>3, <1>5, <2>2, <3>1 DEF KnownAt, Heard
  <2> QED
    BY <2>1, <2>2
<1>7. ASSUME NEW u \in Workers, NEW r \in Requests
      PROVE  LookupOf(u, r)' = IF u = w /\ r = q THEN After(h, x, t) ELSE LookupOf(u, r)
  <2>1. CASE u = w /\ r = q
    BY <1>1, <1>4, <2>1 DEF LookupOf, LookupState, After, StateAfter
  <2>2. CASE ~(u = w /\ r = q)
    BY <1>1, <1>3, <2>2 DEF LookupOf, LookupState
  <2> QED
    BY <2>1, <2>2
<1>8. Lookup' = [Lookup EXCEPT ![<<w, q>>] = After(h, x, t)]
  <2> DEFINE L == [Lookup EXCEPT ![<<w, q>>] = After(h, x, t)]
  <2>1. ASSUME NEW u \in Workers, NEW r \in Requests
        PROVE  Lookup'[<<u, r>>] = L[<<u, r>>]
    <3>1. Lookup'[<<u, r>>] = LookupOf(u, r)' /\ Lookup[<<u, r>>] = LookupOf(u, r)
      BY LookupAt, LookupAtNext
    <3>2. <<u, r>> \in DOMAIN Lookup
      BY LookupAt
    <3>3. L[<<u, r>>] = IF u = w /\ r = q THEN After(h, x, t) ELSE Lookup[<<u, r>>]
      BY <3>2
    <3> QED
      BY <1>7, <3>1, <3>3
  <2>2. L = [r \in Workers \X Requests |-> L[r]]
    BY LookupAt
  <2> HIDE DEF L
  <2>3. \A r \in Workers \X Requests : Lookup'[r] = L[r]
    BY <2>1
  <2>4. [r \in Workers \X Requests |-> Lookup'[r]] = [r \in Workers \X Requests |-> L[r]]
    BY <2>3
  <2> QED
    BY <2>2, <2>4, LookupAtNext DEF L
<1> QED
  BY <1>6, <1>8 DEF KnownInv

(* Where a step leaves the lookup as it is, all lookups stay.              *)
LEMMA SameLookup ==
    ASSUME NEW w \in Workers, NEW q \in Requests,
           Lookup' = [Lookup EXCEPT ![<<w, q>>] = LookupOf(w, q)]
    PROVE  Lookup' = Lookup
  BY LookupAt

LEMMA Stays ==
    ASSUME TypeInv, NEW w \in Workers, NEW q \in Requests, NEW x,
           req' = [req EXCEPT ![w][q] = x],
           UNCHANGED <<frontend, redis, handler, link, told>>
    PROVE  Moves(w, q, handler[w], link[w], x, told[w][q])
<1>1. handler' = [handler EXCEPT ![w] = handler[w]]
  BY DEF TypeInv, TypeOK
<1>2. link' = [link EXCEPT ![w] = link[w]]
  BY DEF TypeInv, TypeOK
<1>3. told' = [told EXCEPT ![w][q] = told[w][q]]
  BY DEF TypeInv, TypeOK
<1> QED
  BY <1>1, <1>2, <1>3 DEF Moves, Touches

(* A step that leaves req and told as they are.                            *)
LEMMA Works ==
    ASSUME TypeInv, NEW w \in Workers, NEW q \in Requests, NEW h, NEW l,
           handler' = [handler EXCEPT ![w] = h], link' = [link EXCEPT ![w] = l],
           UNCHANGED <<frontend, redis, req, told>>
    PROVE  Moves(w, q, h, l, req[w][q], told[w][q])
<1>1. req' = [req EXCEPT ![w][q] = req[w][q]]
  BY DEF TypeInv, TypeOK
<1>2. told' = [told EXCEPT ![w][q] = told[w][q]]
  BY DEF TypeInv, TypeOK
<1> QED
  BY <1>1, <1>2 DEF Moves, Touches

LEMMA Stutter ==
    ASSUME TypeInv, KnownInv, NEW w \in Workers, NEW q \in Requests, NEW h, NEW l, NEW x, NEW t,
           Unblocked(w) \/ handler[w].req = q, h.pc # "free" => h.req = q,
           Moves(w, q, h, l, x, t), KnownAfter(h, l, x, t),
           After(h, x, t) = LookupOf(w, q)
    PROVE  KnownInv' /\ UNCHANGED Abstract!vars
<1>1. KnownInv' /\ Lookup' = [Lookup EXCEPT ![<<w, q>>] = After(h, x, t)]
  BY MoveStep
<1>2. Lookup' = Lookup
  BY <1>1, SameLookup
<1> QED
  BY <1>1, <1>2 DEF Abstract!vars, Moves

(* The steps of a request that its handler is not at.                      *)
LEMMA ServeStep ==
    ASSUME TypeInv, KnownInv, NEW w \in Workers, NEW q \in Requests,
           \/ \E host \in Ports \cup {None} : Arrive(w, q, host)
           \/ Again(w, q) \/ Upstream(w, q)
    PROVE  KnownInv' /\ UNCHANGED Abstract!vars
<1>1. /\ handler[w].pc = "free" /\ Unblocked(w) /\ ~Asking(w, q)
      /\ UNCHANGED <<frontend, redis, handler, link, told>>
  BY DEF Arrive, Again, Upstream, Unblocked, Asking
<1>2. /\ req[w][q] \in RequestStates /\ KnownAt(w, q)
      /\ req[w][q].pc \in {"idle", "proxy"} => req[w][q].backend = None
      /\ req[w][q].pc \in {"upstream", "header", "answered"} => req[w][q].backend \in Backends
  BY DEF TypeInv, TypeOK, RequestInv, KnownInv
<1>3. ASSUME NEW x, req' = [req EXCEPT ![w][q] = x],
             x.pc \in {"idle", "proxy"} => told[w][q] = Untold,
             After(handler[w], x, told[w][q]) = LookupOf(w, q)
      PROVE  KnownInv' /\ UNCHANGED Abstract!vars
  <2>1. Moves(w, q, handler[w], link[w], x, told[w][q])
    BY <1>1, <1>3, Stays
  <2>2. KnownAfter(handler[w], link[w], x, told[w][q])
    BY <1>1, <1>3 DEF KnownAfter
  <2> QED
    BY <1>1, <1>3, <2>1, <2>2, Stutter
<1>4. ASSUME NEW host \in Ports \cup {None}, Arrive(w, q, host)
      PROVE  KnownInv' /\ UNCHANGED Abstract!vars
  <2> DEFINE x == [Idle EXCEPT !.pc = "proxy", !.port = get_port(host)]
  <2>1. x.pc = "proxy" /\ x.backend = None
    BY DEF Idle
  <2>2. req[w][q].pc = "idle" /\ req' = [req EXCEPT ![w][q] = x]
    BY <1>4 DEF Arrive
  <2> HIDE DEF x
  <2>3. told[w][q] = Untold
    BY <1>1, <1>2, <2>2 DEF KnownAt
  <2>4. After(handler[w], x, told[w][q]) = LookupOf(w, q)
    BY <1>1, <1>2, <2>1, <2>2 DEF After, StateAfter, LookupOf, LookupState
  <2> QED
    BY <1>3, <2>2, <2>3, <2>4
<1>5. ASSUME Again(w, q)
      PROVE  KnownInv' /\ UNCHANGED Abstract!vars
  <2> DEFINE x == Valued(req[w][q], req[w][q].backend)
  <2>1. req[w][q].pc = "header" /\ req[w][q].backend # None /\ req' = [req EXCEPT ![w][q] = x]
    BY <1>2, <1>5 DEF Again, HasBackend
  <2>2. x.pc = "answered" /\ x.backend = req[w][q].backend /\ x.port = req[w][q].port
    BY <1>2, <2>1 DEF Valued, RequestStates
  <2> HIDE DEF x
  <2>3. After(handler[w], x, told[w][q]) = LookupOf(w, q)
    BY <1>1, <2>1, <2>2 DEF After, StateAfter, LookupOf, LookupState
  <2> QED
    BY <1>3, <2>1, <2>2, <2>3
<1>6. ASSUME Upstream(w, q)
      PROVE  KnownInv' /\ UNCHANGED Abstract!vars
  <2>1. PICK next \in {"header", "failed"} : req' = [req EXCEPT ![w][q].pc = next]
    BY <1>6 DEF Upstream
  <2> DEFINE x == [req[w][q] EXCEPT !.pc = next]
  <2>2. req[w][q].pc = "upstream" /\ req[w][q].backend # None /\ req' = [req EXCEPT ![w][q] = x]
    BY <1>2, <1>6, <2>1, NoneIsNoValue DEF Upstream
  <2>3. x.pc = next /\ x.backend = req[w][q].backend /\ x.port = req[w][q].port
    BY <1>2 DEF RequestStates
  <2> HIDE DEF x
  <2>4. After(handler[w], x, told[w][q]) = LookupOf(w, q)
    BY <1>1, <2>2, <2>3 DEF After, StateAfter, LookupOf, LookupState
  <2> QED
    BY <1>3, <2>2, <2>3, <2>4
<1> QED
  BY <1>4, <1>5, <1>6

(* A request enters its lookup; the queue has nothing for it.              *)
LEMMA EnterStep ==
    ASSUME TypeInv, KnownInv, queue = {}, NEW w \in Workers, NEW q \in Requests, Enter(w, q)
    PROVE  KnownInv' /\ Abstract!Ask(<<w, q>>, req[w][q].port)
<1> DEFINE p == req[w][q].port
           t == Hear(Untold, frontend[p], redis = "up")
<1>1. /\ Unblocked(w) /\ ~Asking(w, q) /\ link[w] = "none"
      /\ req[w][q].pc = "proxy" /\ req[w][q].backend = None /\ told[w][q] = Untold
  <2>1. Unblocked(w) /\ req[w][q].pc \in {"proxy", "header"} /\ req[w][q].backend = None
    BY DEF Enter, HasBackend
  <2>2. req[w][q].pc = "proxy" /\ link[w] = "none"
    BY <2>1, NoneIsNoValue DEF TypeInv, RequestInv, HandlerInv
  <2> QED
    BY <2>1, <2>2 DEF KnownInv, KnownAt, Asking, Unblocked
<1>2. /\ handler' = [handler EXCEPT ![w] = Asks(q)] /\ Asks(q).req = q /\ Asks(q).pc = "connect"
      /\ told' = [told EXCEPT ![w][q] = t] /\ UNCHANGED <<frontend, redis, link, req>>
  BY DEF Enter, find_cache_entry, Asks, Free
<1>3. Moves(w, q, Asks(q), link[w], req[w][q], t)
  <2>1. link' = [link EXCEPT ![w] = link[w]]
    BY <1>2 DEF TypeInv, TypeOK
  <2>2. req' = [req EXCEPT ![w][q] = req[w][q]]
    BY <1>2 DEF TypeInv, TypeOK
  <2> QED
    BY <1>2, <2>1, <2>2 DEF Moves, Touches
<1>4. t.offered = frontend[p] /\ t.cause = (frontend[p] = {} \/ redis # "up")
  BY DEF Hear, Untold
<1>5. KnownAfter(Asks(q), link[w], req[w][q], t)
  BY <1>1, <1>2, <1>4 DEF KnownAfter, Heard
<1>6. KnownInv' /\ Lookup' = [Lookup EXCEPT ![<<w, q>>] = After(Asks(q), req[w][q], t)]
  BY <1>1, <1>2, <1>3, <1>5, MoveStep
<1>7. After(Asks(q), req[w][q], t) =
          Abstract!Told([Abstract!NoLookup EXCEPT !.state = "asked", !.port = p], frontend, redis = "up")
  <2> DEFINE o == {} \cup frontend[p]
             c == FALSE \/ frontend[p] = {} \/ ~(redis = "up")
  <2>1. t = [offered |-> o, cause |-> c]
    BY DEF Hear, Untold
  <2>2. Abstract!Told([Abstract!NoLookup EXCEPT !.state = "asked", !.port = p], frontend, redis = "up") =
          [state |-> "asked", port |-> p, answer |-> None, offered |-> o, cause |-> c]
    BY DEF Abstract!Told, Abstract!NoLookup
  <2> HIDE DEF t, p, o, c
  <2>3. After(Asks(q), req[w][q], t) = [state |-> "asked", port |-> p, answer |-> None, offered |-> o, cause |-> c]
    BY <1>2, <2>1 DEF After, StateAfter, p
  <2> QED
    BY <2>2, <2>3
<1>8. Lookup[<<w, q>>].state = "none"
  <2>1. LookupState(w, q) = "none"
    BY <1>1 DEF LookupState
  <2>2. Lookup[<<w, q>>] = LookupOf(w, q)
    BY LookupAt
  <2> QED
    BY <2>1, <2>2 DEF LookupOf
<1> QED
  BY <1>2, <1>6, <1>7, <1>8 DEF Abstract!Ask

(* Requests that are over are forgotten, one or those of a worker.         *)
LEMMA FinishStep ==
    ASSUME TypeInv, KnownInv, NEW w \in Workers, NEW q \in Requests, Finish(w, q)
    PROVE  KnownInv' /\ Abstract!Forget({<<w, q>>})
<1>1. /\ handler[w].pc = "free" /\ Unblocked(w) /\ UNCHANGED <<frontend, redis, handler, link>>
      /\ req' = [req EXCEPT ![w][q] = Idle] /\ told' = [told EXCEPT ![w][q] = Untold]
  BY DEF Finish, Unblocked
<1>2. Moves(w, q, handler[w], link[w], Idle, Untold)
  <2>1. handler' = [handler EXCEPT ![w] = handler[w]]
    BY <1>1 DEF TypeInv, TypeOK
  <2>2. link' = [link EXCEPT ![w] = link[w]]
    BY <1>1 DEF TypeInv, TypeOK
  <2> QED
    BY <1>1, <2>1, <2>2 DEF Moves, Touches
<1>3. KnownAfter(handler[w], link[w], Idle, Untold)
  BY <1>1 DEF KnownAfter
<1>4. KnownInv' /\ Lookup' = [Lookup EXCEPT ![<<w, q>>] = After(handler[w], Idle, Untold)]
  BY <1>1, <1>2, <1>3, MoveStep
<1>5. After(handler[w], Idle, Untold) = Abstract!NoLookup
  BY <1>1 DEF After, StateAfter, Idle, Untold, Abstract!NoLookup
<1>6. Lookup' = [r \in Workers \X Requests |->
                    IF r \in {<<w, q>>} THEN Abstract!NoLookup ELSE Lookup[r]]
  BY <1>4, <1>5, LookupAt
<1> QED
  BY <1>1, <1>4, <1>6 DEF Abstract!Forget

LEMMA SpawnForgets ==
    ASSUME TypeInv, KnownInv, NEW w \in Workers, Spawn(w), UNCHANGED <<frontend, redis>>
    PROVE  KnownInv' /\ Abstract!Forget({w} \X Requests)
<1>1. \A u \in Workers, r \in Requests :
         /\ req'[u][r] = IF u = w THEN Idle ELSE req[u][r]
         /\ told'[u][r] = IF u = w THEN Untold ELSE told[u][r]
         /\ handler'[u] = IF u = w THEN Free ELSE handler[u]
         /\ link'[u] = IF u = w THEN "none" ELSE link[u]
  BY DEF Spawn, TypeInv, TypeOK
<1>2. \A u \in Workers, r \in Requests :
         /\ u = w => ~Asking(u, r)'
         /\ u # w => (Asking(u, r)' <=> Asking(u, r))
  BY <1>1 DEF Asking, Free
<1>3. ASSUME NEW u \in Workers, NEW r \in Requests
      PROVE  KnownAt(u, r)'
  <2>1. CASE u = w
    BY <1>1, <1>2, <2>1 DEF KnownAt
  <2>2. CASE u # w
    <3>1. KnownAt(u, r)
      BY DEF KnownInv
    <3> QED
      BY <1>1, <1>2, <2>2, <3>1 DEF KnownAt, Heard
  <2> QED
    BY <2>1, <2>2
<1>4. ASSUME NEW u \in Workers, NEW r \in Requests
      PROVE  LookupOf(u, r)' = IF u = w THEN Abstract!NoLookup ELSE LookupOf(u, r)
  <2>1. CASE u = w
    <3>1. req'[u][r].backend = None /\ req'[u][r].pc = "idle" /\ ~Asking(u, r)'
      BY <1>1, <1>2, <2>1 DEF Idle
    <3>2. told'[u][r].offered = {} /\ told'[u][r].cause = FALSE
      BY <1>1, <2>1 DEF Untold
    <3>3. LookupState(u, r)' = "none"
      BY <3>1 DEF LookupState
    <3> QED
      BY <2>1, <3>2, <3>3 DEF LookupOf, Abstract!NoLookup
  <2>2. CASE u # w
    BY <1>1, <1>2, <2>2 DEF LookupOf, LookupState
  <2> QED
    BY <2>1, <2>2
<1>5. Lookup' = [r \in Workers \X Requests |->
                    IF r \in {w} \X Requests THEN Abstract!NoLookup ELSE Lookup[r]]
  <2>1. ASSUME NEW u \in Workers, NEW r \in Requests
        PROVE  Lookup'[<<u, r>>] = IF <<u, r>> \in {w} \X Requests THEN Abstract!NoLookup ELSE Lookup[<<u, r>>]
    <3>1. Lookup'[<<u, r>>] = LookupOf(u, r)' /\ Lookup[<<u, r>>] = LookupOf(u, r)
      BY LookupAt, LookupAtNext
    <3> QED
      BY <1>4, <3>1
  <2>2. \A r \in Workers \X Requests :
           Lookup'[r] = IF r \in {w} \X Requests THEN Abstract!NoLookup ELSE Lookup[r]
    BY <2>1
  <2> QED
    BY <2>2, LookupAtNext
<1> QED
  BY <1>3, <1>5 DEF KnownInv, Abstract!Forget

-----------------------------------------------------------------------------
(* The handler's steps.                                                    *)
LEMMA ConnectStep ==
    ASSUME TypeInv, KnownInv, NEW w \in Workers, Connect(w)
    PROVE  KnownInv' /\ UNCHANGED Abstract!vars
<1> DEFINE q == handler[w].req
           h == [handler[w] EXCEPT !.pc = "query"]
<1>1. /\ handler[w] \in HandlerStates /\ handler[w].pc = "connect" /\ q \in Requests
      /\ Asking(w, q) /\ KnownAt(w, q) /\ link[w] = "none"
  BY DEF Connect, Unblocked, Asking, TypeInv, TypeOK, HandlerInv, KnownInv
<1>2. h.pc = "query" /\ h.req = q
  BY <1>1 DEF HandlerStates
<1>3. handler' = [handler EXCEPT ![w] = h] /\ link' = [link EXCEPT ![w] = "ok"]
  BY DEF Connect
<1> HIDE DEF h
<1>4. Moves(w, q, h, "ok", req[w][q], told[w][q])
  BY <1>1, <1>3, Works DEF Connect
<1>5. KnownAfter(h, "ok", req[w][q], told[w][q])
  BY <1>1, <1>2 DEF KnownAfter, KnownAt, Heard
<1>6. After(h, req[w][q], told[w][q]) = LookupOf(w, q)
  BY <1>1, <1>2 DEF After, StateAfter, LookupOf, LookupState
<1> QED
  BY <1>1, <1>2, <1>4, <1>5, <1>6, Stutter

(* An error is returned: there is a cause for it.                          *)
LEMMA FailStep ==
    ASSUME TypeInv, KnownInv, NEW w \in Workers, ~Unblocked(w), NEW l \in {"none", "ok", "broken"},
           Return(w, Failed(Handled(w))), link' = [link EXCEPT ![w] = l],
           UNCHANGED <<frontend, redis, told>>, told[w][handler[w].req].cause
    PROVE  KnownInv' /\ handler[w].req \in Requests /\ Abstract!Fail(<<w, handler[w].req>>)
<1> DEFINE q == handler[w].req
           x == Failed(Handled(w))
<1>1. /\ q \in Requests /\ Asking(w, q) /\ req[w][q] \in RequestStates
      /\ req[w][q].pc = "proxy" /\ req[w][q].backend = None
  BY DEF Unblocked, Asking, Handled, TypeInv, TypeOK, HandlerInv, RequestInv
<1>2. x.pc = "failed" /\ x.backend = None /\ x.port = req[w][q].port
  BY <1>1 DEF Failed, Handled, RequestStates
<1>3. req' = [req EXCEPT ![w][q] = x] /\ handler' = [handler EXCEPT ![w] = Free] /\ Free.pc = "free"
  BY DEF Return, Free
<1>u. handler[w].req = q
  OBVIOUS
<1> HIDE DEF x, q
<1>4. told' = [told EXCEPT ![w][q] = told[w][q]]
  BY <1>1 DEF TypeInv, TypeOK
<1>5. Moves(w, q, Free, l, x, told[w][q])
  BY <1>3, <1>4 DEF Moves, Touches
<1>6. KnownAfter(Free, l, x, told[w][q])
  BY <1>2, <1>3 DEF KnownAfter
<1>7. KnownInv' /\ Lookup' = [Lookup EXCEPT ![<<w, q>>] = After(Free, x, told[w][q])]
  BY <1>1, <1>3, <1>5, <1>6, <1>u, MoveStep
<1>8. LookupOf(w, q).state = "asked" /\ LookupOf(w, q).cause = told[w][q].cause
  BY <1>1 DEF LookupOf, LookupState
<1>9. After(Free, x, told[w][q]) = [LookupOf(w, q) EXCEPT !.state = "failed"]
  BY <1>1, <1>2, <1>3 DEF After, StateAfter, LookupOf, LookupState
<1> QED
  BY <1>1, <1>7, <1>8, <1>9, <1>u, LookupAt DEF Abstract!Fail

LEMMA QueryStep ==
    ASSUME TypeInv, KnownInv, NEW w \in Workers, Query(w)
    PROVE  /\ KnownInv'
           /\ \/ UNCHANGED Abstract!vars
              \/ \E q \in Requests : Abstract!Fail(<<w, q>>)
<1> DEFINE q == handler[w].req
           n == NextAttempt(handler[w].attempts)
<1>1. /\ handler[w] \in HandlerStates /\ handler[w].pc = "query" /\ q \in Requests /\ ~Unblocked(w)
      /\ Asking(w, q) /\ Heard(req[w][q].port, handler[w], link[w], told[w][q])
      /\ link[w] \in {"ok", "broken"}
  <2>1. /\ handler[w] \in HandlerStates /\ handler[w].pc = "query" /\ q \in Requests /\ ~Unblocked(w)
        /\ Asking(w, q) /\ link[w] \in {"none", "ok", "broken"}
    BY DEF Query, Unblocked, Asking, TypeInv, TypeOK, HandlerInv
  <2> QED
    BY <2>1 DEF KnownInv, KnownAt, Heard
<1>2. ASSUME NEW h, handler' = [handler EXCEPT ![w] = h], UNCHANGED <<link, req>>,
             h.pc \in {"query", "choose"}, h.req = q, h.pc = "choose" => h.list = frontend[req[w][q].port]
      PROVE  KnownInv' /\ UNCHANGED Abstract!vars
  <2>1. link' = [link EXCEPT ![w] = link[w]]
    BY <1>2 DEF TypeInv, TypeOK
  <2>2. Moves(w, q, h, link[w], req[w][q], told[w][q])
    BY <1>1, <1>2, <2>1, Works DEF Query
  <2>3. KnownAfter(h, link[w], req[w][q], told[w][q])
    BY <1>1, <1>2 DEF KnownAfter, Heard
  <2>4. After(h, req[w][q], told[w][q]) = LookupOf(w, q)
    BY <1>1, <1>2 DEF After, StateAfter, LookupOf, LookupState
  <2> QED
    BY <1>1, <1>2, <2>2, <2>3, <2>4, Stutter
<1>3. CASE Usable(w)
  <2> DEFINE h == [handler[w] EXCEPT !.pc = "choose", !.attempts = n, !.list = frontend[Handled(w).port]]
  <2>1. h.pc = "choose" /\ h.req = q /\ h.list = frontend[req[w][q].port]
    BY <1>1 DEF HandlerStates, Handled
  <2>2. handler' = [handler EXCEPT ![w] = h] /\ UNCHANGED <<link, req>>
    BY <1>3 DEF Query
  <2> HIDE DEF h, q
  <2> QED
    BY <1>2, <2>1, <2>2
<1>4. CASE ~Usable(w) /\ GivesUp(n)
  <2>1. told[w][q].cause
    BY <1>1, <1>4 DEF Usable, Handled, Heard
  <2>2. Return(w, Failed(Handled(w))) /\ link' = [link EXCEPT ![w] = "none"]
    BY <1>4 DEF Query, Closed
  <2>3. KnownInv' /\ Abstract!Fail(<<w, q>>)
    BY <1>1, <2>1, <2>2, FailStep DEF Query
  <2> QED
    BY <1>1, <2>3
<1>5. CASE ~Usable(w) /\ ~GivesUp(n)
  <2> DEFINE h == [handler[w] EXCEPT !.attempts = n]
  <2>1. h.pc = "query" /\ h.req = q
    BY <1>1 DEF HandlerStates
  <2>2. handler' = [handler EXCEPT ![w] = h] /\ UNCHANGED <<link, req>>
    BY <1>5 DEF Query
  <2> HIDE DEF h, q
  <2> QED
    BY <1>2, <2>1, <2>2
<1> QED
  BY <1>3, <1>4, <1>5

LEMMA ChooseStep ==
    ASSUME TypeInv, KnownInv, ZoneInv, NEW w \in Workers, Choose(w)
    PROVE  KnownInv' /\ \E q \in Requests : Abstract!Find(<<w, q>>)
<1> DEFINE q == handler[w].req
<1>1. /\ q \in Requests /\ Asking(w, q) /\ req[w][q] \in RequestStates /\ handler[w].list \in Lists
      /\ req[w][q].pc = "proxy" /\ handler[w].list \subseteq told[w][q].offered
  BY DEF Choose, Unblocked, Asking, Handled, TypeInv, TypeOK, HandlerInv, HandlerStates, KnownInv, KnownAt, Heard
<1>2. PICK b \in handler[w].list : Return(w, Valued([Handled(w) EXCEPT !.backend = b], b))
  BY DEF Choose, ZoneInv
<1> DEFINE x == Valued([Handled(w) EXCEPT !.backend = b], b)
<1>3. x.pc = "upstream" /\ x.backend = b /\ x.port = req[w][q].port
  BY <1>1 DEF Valued, Handled, RequestStates
<1>4. b # None
  BY <1>1, NoneIsNoValue DEF Lists
<1>5. req' = [req EXCEPT ![w][q] = x] /\ handler' = [handler EXCEPT ![w] = Free] /\ Free.pc = "free"
  BY <1>2 DEF Return, Free
<1>u. handler[w].req = q
  OBVIOUS
<1> HIDE DEF x, q
<1>6. told' = [told EXCEPT ![w][q] = told[w][q]]
  BY <1>1 DEF TypeInv, TypeOK, Choose
<1>7. Moves(w, q, Free, "none", x, told[w][q])
  BY <1>5, <1>6 DEF Moves, Touches, Choose, Closed
<1>8. KnownAfter(Free, "none", x, told[w][q])
  BY <1>3, <1>5 DEF KnownAfter
<1>9. KnownInv' /\ Lookup' = [Lookup EXCEPT ![<<w, q>>] = After(Free, x, told[w][q])]
  BY <1>1, <1>5, <1>7, <1>8, <1>u, MoveStep
<1>10. LookupOf(w, q).state = "asked" /\ LookupOf(w, q).offered = told[w][q].offered
  BY <1>1 DEF LookupOf, LookupState
<1>11. After(Free, x, told[w][q]) = [LookupOf(w, q) EXCEPT !.state = "found", !.answer = b]
  <2> DEFINE L == LookupOf(w, q)
             M == [state |-> "found", port |-> req[w][q].port, answer |-> None,
                   offered |-> told[w][q].offered, cause |-> told[w][q].cause]
  <2>1. LookupState(w, q) = "asked"
    BY <1>1 DEF LookupState
  <2>2. [L EXCEPT !.state = "found"] = M
    BY <2>1 DEF LookupOf
  <2>3. [M EXCEPT !.answer = b] = After(Free, x, told[w][q])
    BY <1>3, <1>4, <1>5 DEF After, StateAfter
  <2> HIDE DEF L, M
  <2>4. [L EXCEPT !.state = "found", !.answer = b] = [[L EXCEPT !.state = "found"] EXCEPT !.answer = b]
    OBVIOUS
  <2> QED
    BY <2>2, <2>3, <2>4 DEF L
<1>12. Abstract!Find(<<w, q>>)
  BY <1>1, <1>2, <1>9, <1>10, <1>11, LookupAt DEF Abstract!Find, Choose
<1> QED
  BY <1>1, <1>9, <1>12

-----------------------------------------------------------------------------
(* Redis changes, and every lookup under way may be told.                  *)
LEMMA TellStep ==
    ASSUME TypeInv, KnownInv, frontend' \in [AllPorts -> Lists],
           Tell(frontend', redis' = "up"), UNCHANGED <<handler, req>>,
           \A w \in Workers : link'[w] = link[w] \/ (redis' = "down" /\ link[w] = "ok" /\ link'[w] = "broken")
    PROVE  KnownInv' /\ Abstract!Change(frontend', redis' = "up")
<1>1. ASSUME NEW w \in Workers, NEW q \in Requests
      PROVE  /\ (Asking(w, q)' <=> Asking(w, q)) /\ LookupState(w, q)' = LookupState(w, q)
             /\ told'[w][q] = IF Asking(w, q) THEN Hear(told[w][q], frontend'[req[w][q].port], redis' = "up")
                              ELSE told[w][q]
  BY DEF Tell, Asking, LookupState
<1>2. ASSUME NEW w \in Workers, NEW q \in Requests
      PROVE  KnownAt(w, q)'
  <2>1. KnownAt(w, q)
    BY DEF KnownInv
  <2>2. CASE Asking(w, q)
    <3> DEFINE p == req[w][q].port
    <3>1. /\ told'[w][q].offered = told[w][q].offered \cup frontend'[p]
          /\ told[w][q].cause \/ frontend'[p] = {} \/ redis' # "up" => told'[w][q].cause
      <4> DEFINE k == told[w][q]
                 list == frontend'[p]
      <4>1. told'[w][q] = Hear(k, list, redis' = "up")
        BY <1>1, <2>2
      <4> HIDE DEF k, list
      <4>2. Hear(k, list, redis' = "up").offered = k.offered \cup list
        BY DEF Hear
      <4>3. k.cause \/ list = {} \/ redis' # "up" => Hear(k, list, redis' = "up").cause
        BY DEF Hear
      <4> QED
        BY <4>1, <4>2, <4>3 DEF k, list
    <3>2. Heard(p, handler[w], link[w], told[w][q])
      BY <2>1, <2>2 DEF KnownAt
    <3>3. link'[w] = link[w] \/ (redis' = "down" /\ link[w] = "ok" /\ link'[w] = "broken")
      OBVIOUS
    <3> HIDE DEF p
    <3>4. Heard(p, handler[w], link[w], told[w][q])'
      BY <3>1, <3>2, <3>3 DEF Heard, p
    <3> QED
      BY <1>1, <2>2, <3>4 DEF KnownAt, p
  <2>3. CASE ~Asking(w, q)
    BY <1>1, <2>1, <2>3 DEF KnownAt
  <2> QED
    BY <2>2, <2>3
<1>3. ASSUME NEW w \in Workers, NEW q \in Requests
      PROVE  LookupOf(w, q)' = Abstract!Told(LookupOf(w, q), frontend', redis' = "up")
  <2>1. CASE Asking(w, q)
    <3> DEFINE p == req[w][q].port
               o == told[w][q].offered \cup frontend'[p]
               c == told[w][q].cause \/ frontend'[p] = {} \/ ~(redis' = "up")
    <3>1. LookupState(w, q) = "asked"
      BY <2>1 DEF LookupState
    <3> DEFINE L == LookupOf(w, q)
               M == [state |-> "asked", port |-> p, answer |-> None, offered |-> o, cause |-> told[w][q].cause]
    <3>2. L.state = "asked" /\ L.port = p /\ L.offered = told[w][q].offered /\ L.cause = told[w][q].cause
      BY <3>1 DEF LookupOf
    <3>m. [L EXCEPT !.offered = o] = M
      <4> DEFINE k == told[w][q]
                 R == [state |-> "asked", port |-> p, answer |-> None, offered |-> k.offered, cause |-> k.cause]
      <4>1. L = R
        BY <3>1 DEF LookupOf
      <4>2. [R EXCEPT !.offered = o] = M
        <5> HIDE DEF o, p
        <5> QED
          OBVIOUS
      <4> HIDE DEF L, R
      <4> QED
        BY <4>1, <4>2
    <3>3. told'[w][q] = [offered |-> o, cause |-> c]
      BY <1>1, <2>1 DEF Hear
    <3>4. Abstract!Told(LookupOf(w, q), frontend', redis' = "up") =
            [state |-> "asked", port |-> p, answer |-> None, offered |-> o, cause |-> c]
      <4>1. [M EXCEPT !.cause = c] = [state |-> "asked", port |-> p, answer |-> None, offered |-> o, cause |-> c]
        <5> HIDE DEF o, c, p
        <5> QED
          OBVIOUS
      <4> HIDE DEF L, M, p, o, c
      <4>2. Abstract!Told(L, frontend', redis' = "up") = [L EXCEPT !.offered = o, !.cause = c]
        BY <3>2 DEF Abstract!Told, o, c
      <4>3. [L EXCEPT !.offered = o, !.cause = c] = [[L EXCEPT !.offered = o] EXCEPT !.cause = c]
        OBVIOUS
      <4> QED
        BY <3>m, <4>1, <4>2, <4>3 DEF L
    <3> HIDE DEF o, c
    <3>5. LookupOf(w, q)' = [state |-> "asked", port |-> p, answer |-> None, offered |-> o, cause |-> c]
      BY <1>1, <3>1, <3>3 DEF LookupOf
    <3> QED
      BY <3>4, <3>5
  <2>2. CASE ~Asking(w, q)
    <3>1. LookupState(w, q) # "asked"
      BY <2>2 DEF LookupState
    <3>2. LookupOf(w, q)' = LookupOf(w, q)
      BY <1>1, <2>2 DEF LookupOf
    <3> QED
      BY <3>1, <3>2 DEF LookupOf, Abstract!Told
  <2> QED
    BY <2>1, <2>2
<1>4. Lookup' = [r \in Workers \X Requests |-> Abstract!Told(Lookup[r], frontend', redis' = "up")]
  <2>1. ASSUME NEW w \in Workers, NEW q \in Requests
        PROVE  Lookup'[<<w, q>>] = Abstract!Told(Lookup[<<w, q>>], frontend', redis' = "up")
    <3>1. Lookup'[<<w, q>>] = LookupOf(w, q)' /\ Lookup[<<w, q>>] = LookupOf(w, q)
      BY LookupAt, LookupAtNext
    <3> QED
      BY <1>3, <3>1
  <2>2. \A r \in Workers \X Requests :
           Lookup'[r] = Abstract!Told(Lookup[r], frontend', redis' = "up")
    BY <2>1
  <2> QED
    BY <2>2, LookupAtNext
<1> QED
  BY <1>2, <1>4 DEF KnownInv, Abstract!Change

LEMMA LookupStep ==
    LookupInv /\ [Next]_vars => KnownInv' /\ [Abstract!Next]_(Abstract!vars)
<1> SUFFICES ASSUME LookupInv, [Next]_vars
             PROVE  KnownInv' /\ (Abstract!Next \/ UNCHANGED Abstract!vars)
  OBVIOUS
<1>t. TypeInv /\ KnownInv /\ ZoneInv
  BY DEF LookupInv
<1>1. ASSUME NEW w \in Workers, Handler(w)
      PROVE  KnownInv' /\ (Abstract!Next \/ UNCHANGED Abstract!vars)
  <2>1. ASSUME ConnectFails(w)
        PROVE  KnownInv' /\ \E q \in Requests : Abstract!Fail(<<w, q>>)
    <3>1. ~Unblocked(w) /\ handler[w].req \in Requests /\ told[w][handler[w].req].cause
      BY <1>t, <2>1 DEF ConnectFails, Unblocked, Asking, TypeInv, HandlerInv, KnownInv, KnownAt, Heard
    <3>2. link' = [link EXCEPT ![w] = link[w]] /\ link[w] \in {"none", "ok", "broken"}
      BY <1>t, <2>1 DEF ConnectFails, TypeInv, TypeOK
    <3> QED
      BY <1>t, <2>1, <3>1, <3>2, FailStep DEF ConnectFails
  <2>2. \A q \in Requests : Abstract!Fail(<<w, q>>) \/ Abstract!Find(<<w, q>>) => Abstract!Next
    BY DEF Abstract!Next
  <2> QED
    BY <1>t, <1>1, <2>1, <2>2, ConnectStep, QueryStep, ChooseStep DEF Handler
<1>2. ASSUME NEW w \in Workers, NEW q \in Requests, Serve(w, q)
      PROVE  KnownInv' /\ (Abstract!Next \/ UNCHANGED Abstract!vars)
  <2>1. ASSUME Enter(w, q)
        PROVE  KnownInv' /\ Abstract!Next
    <3>1. req[w][q].port \in AllPorts
      BY <1>t, <2>1, NoneIsNoValue DEF Enter, TypeInv, RequestInv
    <3>2. KnownInv' /\ Abstract!Ask(<<w, q>>, req[w][q].port)
      BY <1>t, <2>1, EnterStep DEF ZoneInv
    <3> QED
      BY <3>1, <3>2 DEF Abstract!Next
  <2>2. ASSUME Finish(w, q)
        PROVE  KnownInv' /\ Abstract!Next
    <3>1. KnownInv' /\ Abstract!Forget({<<w, q>>})
      BY <1>t, <2>2, FinishStep
    <3>2. {<<w, q>>} \in SUBSET (Workers \X Requests)
      OBVIOUS
    <3> QED
      BY <3>1, <3>2 DEF Abstract!Next
  <2> QED
    BY <1>t, <1>2, <2>1, <2>2, ServeStep DEF Serve
<1>3. ASSUME NEW w \in Workers, NEW q \in Requests, NEW host \in Ports \cup {None}, Arrive(w, q, host)
      PROVE  KnownInv' /\ UNCHANGED Abstract!vars
  BY <1>t, <1>3, ServeStep
<1>4. ASSUME NEW w \in Workers, Replace(w) \/ Die(w) \/ ArriveWithoutHost(w)
      PROVE  KnownInv' /\ Abstract!Next
  <2>1. KnownInv' /\ Abstract!Forget({w} \X Requests)
    BY <1>t, <1>4, SpawnForgets DEF Replace, Die, ArriveWithoutHost
  <2>2. {w} \X Requests \in SUBSET (Workers \X Requests)
    OBVIOUS
  <2> QED
    BY <2>1, <2>2 DEF Abstract!Next
<1>c. ASSUME KnownInv' /\ Abstract!Change(frontend', redis' = "up"), frontend' \in [AllPorts -> Lists]
      PROVE  KnownInv' /\ Abstract!Next
  BY <1>c DEF Abstract!Next, Lists
<1>5. ASSUME NEW p \in AllPorts, NEW l \in Lists, EditFrontend(p, l)
      PROVE  KnownInv' /\ Abstract!Next
  <2>1. frontend' \in [AllPorts -> Lists]
    BY <1>t, <1>5 DEF EditFrontend, TypeInv, TypeOK
  <2>2. redis' = redis /\ link' = link /\ UNCHANGED <<handler, req>> /\ Tell(frontend', redis = "up")
    BY <1>5 DEF EditFrontend
  <2> QED
    BY <1>c, <1>t, <2>1, <2>2, TellStep
<1>6. ASSUME NEW s \in {"up", "loading", "down", "hung"}, RedisBecomes(s)
      PROVE  KnownInv' /\ Abstract!Next
  <2>1. frontend' = frontend /\ redis' = s /\ UNCHANGED <<handler, req>> /\ Tell(frontend, s = "up")
    BY <1>6 DEF RedisBecomes
  <2>2. frontend' \in [AllPorts -> Lists]
    BY <1>t, <2>1 DEF TypeInv, TypeOK
  <2>3. \A w \in Workers : link'[w] = link[w] \/ (redis' = "down" /\ link[w] = "ok" /\ link'[w] = "broken")
    BY <1>6, <2>1 DEF RedisBecomes
  <2> QED
    BY <1>c, <1>t, <2>1, <2>2, <2>3, TellStep
<1>7. ASSUME UNCHANGED <<frontend, redis, handler, link, req, told>>
      PROVE  KnownInv' /\ UNCHANGED Abstract!vars
  <2>1. KnownInv'
    BY <1>t, <1>7 DEF KnownInv, KnownAt, Heard, Asking
  <2>2. Lookup' = Lookup
    BY <1>7 DEF Lookup, LookupOf, LookupState, Asking
  <2> QED
    BY <1>7, <2>1, <2>2 DEF Abstract!vars
<1> QED
  BY <1>1, <1>2, <1>3, <1>4, <1>5, <1>6, <1>7 DEF Next, Reload, vars

LEMMA LookupInit == Init => KnownInv /\ Abstract!Init
<1> SUFFICES ASSUME Init
             PROVE  KnownInv /\ Abstract!Init
  OBVIOUS
<1>1. ASSUME NEW w \in Workers, NEW q \in Requests
      PROVE  KnownAt(w, q) /\ LookupOf(w, q) = Abstract!NoLookup
  BY DEF Init, KnownAt, Asking, LookupOf, LookupState, Free, Idle, Untold, Abstract!NoLookup
<1>2. Lookup = [r \in Workers \X Requests |-> Abstract!NoLookup]
  BY <1>1 DEF Lookup
<1> QED
  BY <1>1, <1>2 DEF Init, KnownInv, Lists, Abstract!Init

(* The handler is a lookup in Redis if the variable is evaluated in the    *)
(* block that is read last, as the configuration of the repository has it. *)
THEOREM Refinement ==
    ASSUME Root = ZoneData
    PROVE  Spec => IsLookup
<1>1. Init => LookupInv /\ Abstract!Init
  BY TypeInit, ZoneInit, LookupInit DEF LookupInv
<1>2. LookupInv /\ [Next]_vars => LookupInv' /\ [Abstract!Next]_(Abstract!vars)
  BY TypeStep, ZoneStep, LookupStep DEF LookupInv
<1> QED
  BY <1>1, <1>2, PTL DEF Spec, IsLookup, Abstract!Spec

(* Only an evaluation that finds the backend of the first one answers a    *)
(* request at its header: the handler is never entered again.              *)
THEOREM HeaderIsBackend == Spec => HeaderNamesBackend
<1> DEFINE Names(w, q) == req[w][q].pc = "header" /\ req'[w][q].pc = "answered"
                          => req'[w][q].header = req[w][q].backend
           A == \A w \in Workers, q \in Requests : Names(w, q)
<1>1. ASSUME TypeInv, [Next]_vars
      PROVE  A
  <2> SUFFICES ASSUME NEW u \in Workers, NEW r \in Requests,
                      req[u][r].pc = "header", req'[u][r].pc = "answered"
               PROVE  req'[u][r].header = req[u][r].backend
    OBVIOUS
  <2>t. /\ req[u][r] \in RequestStates /\ req[u][r].backend # None
        /\ req \in [Workers -> [Requests -> RequestStates]]
    BY <1>1, NoneIsNoValue DEF TypeInv, TypeOK, RequestInv
  <2>1. \A x : \A w \in Workers, q \in Requests : req' = [req EXCEPT ![w][q] = x] => w = u /\ q = r
    BY <2>t
  <2>2. ASSUME NEW w \in Workers, Handler(w)
        PROVE  FALSE
    <3>1. handler[w].req \in Requests /\ Handled(w).pc = "proxy"
      BY <1>1, <2>2 DEF Handler, Connect, ConnectFails, Query, Choose, Unblocked, TypeInv, HandlerInv
    <3>2. PICK x : req' = [req EXCEPT ![w][handler[w].req] = x] \/ UNCHANGED req
      BY <2>2 DEF Handler, Connect, ConnectFails, Query, Choose, Return
    <3> QED
      BY <2>1, <3>1, <3>2 DEF Handled
  <2>3. ASSUME NEW w \in Workers, NEW q \in Requests, Again(w, q)
        PROVE  req'[u][r].header = req[u][r].backend
    <3>1. w = u /\ q = r
      BY <2>1, <2>3 DEF Again
    <3> QED
      BY <2>3, <2>t, <3>1 DEF Again, Valued, RequestStates
  <2>4. ASSUME NEW w \in Workers, NEW q \in Requests,
               Enter(w, q) \/ Upstream(w, q) \/ Finish(w, q)
               \/ \E host \in Ports \cup {None} : Arrive(w, q, host)
        PROVE  FALSE
    <3>1. CASE Enter(w, q)
      BY <3>1 DEF Enter
    <3>2. CASE Upstream(w, q)
      <4>1. PICK next \in {"header", "failed"} : req' = [req EXCEPT ![w][q].pc = next]
        BY <3>2 DEF Upstream
      <4> QED
        BY <2>t, <4>1, <3>2 DEF Upstream, RequestStates
    <3>3. CASE Finish(w, q)
      BY <2>1, <3>3 DEF Finish
    <3>4. CASE \E host \in Ports \cup {None} : Arrive(w, q, host)
      BY <2>1, <3>4 DEF Arrive
    <3> QED
      BY <2>4, <3>1, <3>2, <3>3, <3>4
  <2>5. ASSUME NEW w \in Workers, Spawn(w)
        PROVE  FALSE
    BY <2>5, <2>t DEF Spawn, Idle
  <2>6. req' # req
    OBVIOUS
  <2> QED
    BY <1>1, <2>2, <2>3, <2>4, <2>5, <2>6
       DEF Next, Serve, Replace, Die, ArriveWithoutHost, EditFrontend, RedisBecomes, Reload, vars
<1>2. TypeInv /\ [Next]_vars => [A]_vars
  BY <1>1
<1>3. Spec => [][A]_vars
  BY <1>2, TypeInit, TypeStep, PTL DEF Spec
<1> QED
  BY <1>3 DEF HeaderNamesBackend

=============================================================================
