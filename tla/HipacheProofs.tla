---------------------------- MODULE HipacheProofs ----------------------------
(***************************************************************************)
(* Theorems about the two hipaches.  go-hipache: types, and the bound on   *)
(* stale backends, for any set of URLs, any number of requests in flight   *)
(* and any lifetime of an entry.  nginx-hipache, as the instance Lua:      *)
(* types, and with them the size and the order of the caches, for any      *)
(* number of workers, requests and ports and any capacity.                 *)
(***************************************************************************)
EXTENDS HipacheCache, SequenceTheorems, TLAPS

(* A reply is no older than it waited, an entry no older than it lived     *)
(* plus the longest a reply may wait.                                      *)
FrontendIsNow == since[frontend] = 0

ReplyAge ==
    \A r \in Requests : req[r].pc = "reply" => since[req[r].list] <= req[r].waited

EntryAge ==
    cache # None => since[cache.list] + cache.left <= TTL + MaxFill

StaleInv == TypeOK /\ FrontendIsNow /\ ReplyAge /\ EntryAge

-----------------------------------------------------------------------------
(* The first state has no reply and no entry. *)
LEMMA StaleInit == Init => StaleInv
<1> SUFFICES ASSUME Init
             PROVE  StaleInv
  OBVIOUS
<1>1. {} \in Lists /\ Far \in Nat /\ 0 \in 0 .. Far /\ Far \in 0 .. Far /\ 0 \in 0 .. MaxEdits /\ 0 \in 0 .. MaxFill
  BY TicksAreNaturals, EditsAreNatural DEF Lists, Far
<1>2. since \in [Lists -> 0 .. Far]
  BY <1>1 DEF Init
<1>3. req \in [Requests -> [pc : {"idle", "cache", "redis", "reply"}, skip : BOOLEAN,
                           list : Lists, waited : 0 .. MaxFill]]
  BY <1>1 DEF Init, Idle
<1>4. FrontendIsNow /\ ReplyAge /\ EntryAge
  BY DEF Init, Idle, FrontendIsNow, ReplyAge, EntryAge
<1> QED
  BY <1>1, <1>2, <1>3, <1>4 DEF Init, StaleInv, TypeOK

(* No step makes a reply or an entry older than its bound: Store turns the *)
(* age of a reply into the allowance MaxFill, and time ages both in step.  *)
LEMMA StaleStep == StaleInv /\ [Next]_vars => StaleInv'
<1> SUFFICES ASSUME StaleInv, [Next]_vars
             PROVE  StaleInv'
  OBVIOUS
<1> USE TicksAreNaturals, EditsAreNatural, NoneIsNoEntry
<1> USE DEF StaleInv, TypeOK, FrontendIsNow, ReplyAge, EntryAge, Entries, Lists, Far
<1>1. ASSUME NEW r \in Requests, NEW skip \in BOOLEAN, Arrive(r, skip)
      PROVE  StaleInv'
  <2>1. TypeOK'
    BY <1>1 DEF Arrive, Idle
  <2>2. (FrontendIsNow /\ ReplyAge)'
    BY <1>1 DEF Arrive, Idle
  <2>3. EntryAge'
    BY <1>1 DEF Arrive, Idle
  <2> QED
    BY <2>1, <2>2, <2>3
<1>2. ASSUME NEW r \in Requests, CacheHit(r)
      PROVE  StaleInv'
  <2>1. TypeOK'
    BY <1>2 DEF CacheHit, AfterHit, Finish, Idle
  <2>2. (FrontendIsNow /\ ReplyAge)'
    BY <1>2 DEF CacheHit, AfterHit, Finish, Idle
  <2>3. EntryAge'
    BY <1>2 DEF CacheHit, AfterHit, Finish, Idle
  <2> QED
    BY <2>1, <2>2, <2>3
<1>3. ASSUME NEW r \in Requests, CacheMiss(r)
      PROVE  StaleInv'
  <2>1. TypeOK'
    BY <1>3 DEF CacheMiss
  <2>2. (FrontendIsNow /\ ReplyAge)'
    BY <1>3 DEF CacheMiss
  <2>3. EntryAge'
    BY <1>3 DEF CacheMiss
  <2> QED
    BY <2>1, <2>2, <2>3
<1>4. ASSUME NEW r \in Requests, LRange(r)
      PROVE  StaleInv'
  <2>1. TypeOK'
    BY <1>4 DEF LRange
  <2>2. (FrontendIsNow /\ ReplyAge)'
    BY <1>4 DEF LRange
  <2>3. EntryAge'
    BY <1>4 DEF LRange
  <2> QED
    BY <2>1, <2>2, <2>3
<1>5. ASSUME NEW r \in Requests, RedisError(r)
      PROVE  StaleInv'
  <2>1. TypeOK'
    BY <1>5 DEF RedisError, Finish, Idle
  <2>2. (FrontendIsNow /\ ReplyAge)'
    BY <1>5 DEF RedisError, Finish, Idle
  <2>3. EntryAge'
    BY <1>5 DEF RedisError, Finish, Idle
  <2> QED
    BY <2>1, <2>2, <2>3
<1>6. ASSUME NEW r \in Requests, Store(r)
      PROVE  StaleInv'
  <2>1. TypeOK'
    BY <1>6 DEF Store, Lifetime, Finish, Idle
  <2>2. (FrontendIsNow /\ ReplyAge)'
    BY <1>6 DEF Store, Lifetime, Finish, Idle
  <2>3. EntryAge'
    BY <1>6 DEF Store, Lifetime, Finish, Idle
  <2> QED
    BY <2>1, <2>2, <2>3
<1>7. ASSUME NEW r \in Requests, Bypass(r)
      PROVE  StaleInv'
  <2>1. TypeOK'
    BY <1>7 DEF Bypass, Finish, Idle
  <2>2. (FrontendIsNow /\ ReplyAge)'
    BY <1>7 DEF Bypass, Finish, Idle
  <2>3. EntryAge'
    BY <1>7 DEF Bypass, Finish, Idle
  <2> QED
    BY <2>1, <2>2, <2>3
<1>8. ASSUME Tick
      PROVE  StaleInv'
  <2>1. TypeOK'
    BY <1>8 DEF Tick, Aged
  <2>2. (FrontendIsNow /\ ReplyAge)'
    BY <1>8 DEF Tick, Aged
  <2>3. EntryAge'
    BY <1>8 DEF Tick, Aged
  <2> QED
    BY <2>1, <2>2, <2>3
<1>9. ASSUME NEW l \in Lists, EditFrontend(l)
      PROVE  StaleInv'
  <2>1. TypeOK'
    BY <1>9 DEF EditFrontend
  <2>2. (FrontendIsNow /\ ReplyAge)'
    BY <1>9 DEF EditFrontend
  <2>3. EntryAge'
    BY <1>9 DEF EditFrontend
  <2> QED
    BY <2>1, <2>2, <2>3
<1>10. ASSUME UNCHANGED vars
      PROVE  StaleInv'
  <2>1. TypeOK'
    BY <1>10 DEF vars
  <2>2. (FrontendIsNow /\ ReplyAge)'
    BY <1>10 DEF vars
  <2>3. EntryAge'
    BY <1>10 DEF vars
  <2> QED
    BY <2>1, <2>2, <2>3
<1> QED
  BY <1>1, <1>2, <1>3, <1>4, <1>5, <1>6, <1>7, <1>8, <1>9, <1>10 DEF Next, Handle

(* Ages, lifetimes and waits stay within the scale of the model, and the   *)
(* entry is always a list that a frontend may have.                        *)
THEOREM TypeCorrect == Spec => []TypeOK
<1>1. StaleInv => TypeOK
  BY DEF StaleInv
<1> QED
  BY <1>1, StaleInit, StaleStep, PTL DEF Spec

(* No request is sent by a list that ceased to be the frontend more than   *)
(* TTL + MaxFill ticks ago.                                                *)
THEOREM StalenessIsBounded == Spec => []BoundedStaleness
<1>1. StaleInv => BoundedStaleness
  BY TicksAreNaturals DEF StaleInv, TypeOK, ReplyAge, EntryAge, BoundedStaleness, OnOffer, Entries, Lists, Far
<1> QED
  BY <1>1, StaleInit, StaleStep, PTL DEF Spec

-----------------------------------------------------------------------------
(* nginx-hipache. *)
CONSTANTS Workers, Ports, Capacity

VARIABLES luaFrontend, luaDead, luaCache, luaReq, luaEdits

Lua == INSTANCE LuaCache WITH
    frontend <- luaFrontend, dead <- luaDead, cache <- luaCache, req <- luaReq, edits <- luaEdits

Entry == [port : Ports, list : Lua!Lists]

(* What a cache of a worker is: no more entries than Capacity, and one for *)
(* a port at most.                                                         *)
IsQueue(s) ==
    /\ s \in Seq(Entry)
    /\ \A i \in DOMAIN s, j \in DOMAIN s : s[i].port = s[j].port => i = j

(* What is left of a list without its element at one place. *)
LEMMA RemoveOne ==
    ASSUME NEW E, NEW s \in Seq(E), NEW k \in 1 .. Len(s)
    PROVE  LET r == SubSeq(s, 1, k - 1) \o SubSeq(s, k + 1, Len(s))
           IN  /\ r \in Seq(E) /\ Len(r) = Len(s) - 1
               /\ \A i \in 1 .. Len(r) : r[i] = IF i < k THEN s[i] ELSE s[i + 1]
<1> DEFINE a == SubSeq(s, 1, k - 1)
           b == SubSeq(s, k + 1, Len(s))
<1>1. a \in Seq(E) /\ Len(a) = k - 1 /\ \A i \in 1 .. k - 1 : a[i] = s[i]
  BY SubSeqProperties
<1>2. b \in Seq(E) /\ Len(b) = Len(s) - k /\ \A i \in 1 .. Len(s) - k : b[i] = s[k + i]
  <2>1. \A i \in k + 1 .. Len(s) : s[i] \in E
    OBVIOUS
  <2>2. /\ b \in Seq(E)
        /\ Len(b) = IF k + 1 <= Len(s) THEN Len(s) - (k + 1) + 1 ELSE 0
        /\ \A i \in 1 .. Len(s) - (k + 1) + 1 : b[i] = s[(k + 1) + i - 1]
    BY <2>1, SubSeqProperties
  <2> HIDE DEF b
  <2>3. k \in Nat /\ Len(s) \in Nat /\ k <= Len(s)
    OBVIOUS
  <2>4. Len(b) = Len(s) - k
    <3>1. CASE k + 1 <= Len(s)
      <4>1. Len(b) = Len(s) - (k + 1) + 1
        BY <2>2, <3>1
      <4>2. \A n \in Nat : n - (k + 1) + 1 = n - k
        BY <2>3
      <4> QED
        BY <2>3, <4>1, <4>2
    <3>2. CASE ~(k + 1 <= Len(s))
      <4>1. Len(b) = 0 /\ Len(s) = k
        BY <2>2, <2>3, <3>2
      <4> QED
        BY <2>3, <4>1
    <3> QED
      BY <3>1, <3>2
  <2>5. ASSUME NEW i \in 1 .. Len(s) - k PROVE b[i] = s[k + i]
    <3>1. i \in 1 .. Len(s) - (k + 1) + 1 /\ (k + 1) + i - 1 = k + i
      BY <2>3
    <3> QED
      BY <2>2, <3>1
  <2> QED
    BY <2>2, <2>4, <2>5
<1> HIDE DEF a, b
<1>3. a \o b \in Seq(E) /\ Len(a \o b) = Len(s) - 1
  <2>1. a \o b \in Seq(E) /\ Len(a \o b) = Len(a) + Len(b)
    BY <1>1, <1>2, ConcatProperties
  <2>2. Len(s) \in Nat /\ k \in Nat
    OBVIOUS
  <2>3. (k - 1) + (Len(s) - k) = Len(s) - 1
    BY <2>2
  <2> QED
    BY <1>1, <1>2, <2>1, <2>3
<1>4. ASSUME NEW i \in 1 .. Len(s) - 1
      PROVE  (a \o b)[i] = IF i < k THEN s[i] ELSE s[i + 1]
  <2>1. CASE i < k
    BY <2>1, <1>1, <1>2, ConcatProperties
  <2>2. CASE ~(i < k)
    <3>1. (a \o b)[i] = b[i - (k - 1)]
      BY <2>2, <1>1, <1>2, ConcatProperties
    <3>2. i - (k - 1) \in 1 .. Len(s) - k /\ k + (i - (k - 1)) = i + 1
      BY <2>2
    <3> QED
      BY <2>2, <3>1, <3>2, <1>2
  <2> QED
    BY <2>1, <2>2
<1> QED
  BY <1>3, <1>4 DEF a, b

(* What is left when the entry of a port is taken out. *)
LEMMA OthersAreOthers ==
    ASSUME NEW s, IsQueue(s), NEW p \in Ports
    PROVE  /\ IsQueue(Lua!Others(s, p)) /\ Len(Lua!Others(s, p)) <= Len(s)
           /\ \A i \in DOMAIN Lua!Others(s, p) : Lua!Others(s, p)[i].port # p
<1> USE DEF IsQueue
<1>1. CASE Lua!Places(s, p) = {}
  BY <1>1 DEF Lua!Others, Lua!Places
<1>2. CASE Lua!Places(s, p) # {}
  <2> DEFINE at == CHOOSE i \in Lua!Places(s, p) : TRUE
             r == Lua!Others(s, p)
  <2>1. at \in 1 .. Len(s) /\ s[at].port = p
    BY <1>2 DEF Lua!Places
  <2>2. r = SubSeq(s, 1, at - 1) \o SubSeq(s, at + 1, Len(s))
    BY <1>2 DEF Lua!Others, Lua!RemoveAt
  <2> HIDE DEF at, r
  <2>3. /\ r \in Seq(Entry) /\ Len(r) = Len(s) - 1
        /\ \A i \in 1 .. Len(r) : r[i] = IF i < at THEN s[i] ELSE s[i + 1]
    BY <2>1, <2>2, RemoveOne
  <2>4. ASSUME NEW i \in DOMAIN r PROVE r[i].port # p
    BY <2>1, <2>3, <2>4
  <2>5. ASSUME NEW i \in DOMAIN r, NEW j \in DOMAIN r, r[i].port = r[j].port PROVE i = j
    <3> DEFINE from(n) == IF n < at THEN n ELSE n + 1
    <3>1. i \in 1 .. Len(s) - 1 /\ j \in 1 .. Len(s) - 1 /\ Len(s) \in Nat
      BY <2>3, <2>5
    <3>2. r[i] = s[from(i)] /\ r[j] = s[from(j)]
      BY <2>3, <3>1
    <3>3. from(i) \in DOMAIN s /\ from(j) \in DOMAIN s
      BY <2>1, <3>1
    <3>4. from(i) = from(j)
      BY <2>5, <3>2, <3>3
    <3> QED
      BY <2>1, <3>1, <3>4
  <2> QED
    BY <2>3, <2>4, <2>5 DEF r
<1> QED
  BY <1>1, <1>2

(* An entry that is used or set comes first, and the cache keeps its size. *)
LEMMA InFrontIsQueue ==
    ASSUME Capacity \in Nat \ {0},
           NEW s, IsQueue(s), Len(s) <= Capacity, NEW p \in Ports, NEW l \in Lua!Lists
    PROVE  IsQueue(Lua!InFront(s, p, l)) /\ Len(Lua!InFront(s, p, l)) <= Capacity
<1> DEFINE rest == Lua!Others(s, p)
           n == IF Len(rest) < Capacity THEN Len(rest) ELSE Capacity - 1
           kept == SubSeq(rest, 1, n)
           e == [port |-> p, list |-> l]
<1>1. /\ rest \in Seq(Entry) /\ Len(rest) <= Capacity /\ Len(rest) \in Nat
      /\ \A i \in 1 .. Len(rest), j \in 1 .. Len(rest) : rest[i].port = rest[j].port => i = j
      /\ \A i \in 1 .. Len(rest) : rest[i].port # p
  <2>1. IsQueue(rest) /\ Len(rest) <= Len(s) /\ \A i \in DOMAIN rest : rest[i].port # p
    BY OthersAreOthers
  <2> HIDE DEF rest
  <2>2. Len(rest) \in Nat /\ DOMAIN rest = 1 .. Len(rest) /\ Len(s) \in Nat
    BY <2>1 DEF IsQueue
  <2> QED
    BY <2>1, <2>2 DEF IsQueue
<1>2. Lua!InFront(s, p, l) = <<e>> \o kept
  BY DEF Lua!InFront
<1>3. e \in Entry /\ e.port = p
  BY DEF Entry
<1> HIDE DEF rest, e
<1>4. n \in Nat /\ n <= Len(rest) /\ n + 1 <= Capacity
  BY <1>1
<1> HIDE DEF n
<1>5. kept \in Seq(Entry) /\ Len(kept) = n /\ \A i \in 1 .. n : kept[i] = rest[i]
  <2>1. \A i \in 1 .. n : rest[i] \in Entry
    BY <1>1, <1>4
  <2>2. /\ kept \in Seq(Entry)
        /\ Len(kept) = IF 1 <= n THEN n - 1 + 1 ELSE 0
        /\ \A i \in 1 .. n - 1 + 1 : kept[i] = rest[1 + i - 1]
    BY <2>1, <1>4, SubSeqProperties
  <2> HIDE DEF kept
  <2> QED
    BY <2>2, <1>4
<1> HIDE DEF kept
<1> DEFINE new == <<e>> \o kept
<1>6. /\ new \in Seq(Entry) /\ Len(new) = 1 + n
      /\ \A i \in 1 .. 1 + n : new[i] = IF i <= 1 THEN e ELSE kept[i - 1]
  <2>1. <<e>> \in Seq(Entry) /\ Len(<<e>>) = 1 /\ <<e>>[1] = e
    BY <1>3
  <2>2. /\ new \in Seq(Entry) /\ Len(new) = Len(<<e>>) + Len(kept)
        /\ \A i \in 1 .. Len(<<e>>) + Len(kept) :
              new[i] = IF i <= Len(<<e>>) THEN <<e>>[i] ELSE kept[i - Len(<<e>>)]
    BY <2>1, <1>5, ConcatProperties
  <2> HIDE DEF new
  <2>3. \A i \in 1 .. 1 + n : i <= 1 => i = 1
    BY <1>4
  <2> QED
    BY <2>1, <2>2, <2>3, <1>4, <1>5
<1> HIDE DEF new
<1>7. ASSUME NEW i \in 1 .. 1 + n, NEW j \in 1 .. 1 + n, new[i].port = new[j].port
      PROVE  i = j
  <2>1. \A m \in 1 .. 1 + n : m # 1 =>
           m - 1 \in 1 .. Len(rest) /\ new[m] = rest[m - 1] /\ new[m].port # p
    <3> SUFFICES ASSUME NEW m \in 1 .. 1 + n, m # 1
                 PROVE  m - 1 \in 1 .. Len(rest) /\ new[m] = rest[m - 1] /\ new[m].port # p
      OBVIOUS
    <3>1. m - 1 \in 1 .. n /\ m - 1 \in 1 .. Len(rest) /\ ~(m <= 1)
      BY <1>1, <1>4
    <3> QED
      BY <3>1, <1>1, <1>5, <1>6
  <2>2. new[1].port = p
    BY <1>3, <1>4, <1>6
  <2>3. CASE i = 1 \/ j = 1
    BY <2>1, <2>2, <2>3, <1>7
  <2>4. CASE i # 1 /\ j # 1
    <3>1. i - 1 = j - 1
      BY <2>1, <2>4, <1>1, <1>7
    <3> QED
      BY <3>1, <1>4
  <2> QED
    BY <2>3, <2>4
<1>8. DOMAIN new = 1 .. 1 + n
  BY <1>4, <1>6
<1> QED
  BY <1>2, <1>4, <1>6, <1>7, <1>8 DEF IsQueue, new

(* A request that talks to Redis is for a port. *)
Asked ==
    \A w \in Workers, q \in Requests : luaReq[w][q].pc # "idle" => luaReq[w][q].port \in Ports

LuaInv == Lua!TypeOK /\ Asked

Slots == [pc : {"idle", "redis", "reply"}, port : Ports \cup {None}, list : Lua!Lists]

(* The types, said with IsQueue. *)
LEMMA LuaTypes ==
    Lua!TypeOK <=>
        /\ luaFrontend \in [Ports -> Lua!Lists] /\ luaDead \in [Ports -> Lua!Lists]
        /\ luaCache \in [Workers -> Seq(Entry)]
        /\ \A w \in Workers : IsQueue(luaCache[w]) /\ Len(luaCache[w]) <= Capacity
        /\ luaReq \in [Workers -> [Requests -> Slots]]
        /\ luaEdits \in 0 .. MaxEdits
  BY DEF Lua!TypeOK, IsQueue, Entry, Slots

(* A hit and a save put an entry in front, in one worker. *)
LEMMA LuaUse ==
    ASSUME Capacity \in Nat \ {0}, Lua!TypeOK,
           NEW w \in Workers, NEW p \in Ports, NEW l \in Lua!Lists, Lua!Use(w, p, l)
    PROVE  /\ luaCache' \in [Workers -> Seq(Entry)]
           /\ \A x \in Workers : IsQueue(luaCache'[x]) /\ Len(luaCache'[x]) <= Capacity
<1> DEFINE new == Lua!InFront(luaCache[w], p, l)
<1>1. luaCache' = [luaCache EXCEPT ![w] = new]
  BY DEF Lua!Use
<1>2. IsQueue(new) /\ Len(new) <= Capacity
  BY InFrontIsQueue, LuaTypes
<1>3. new \in Seq(Entry)
  BY <1>2 DEF IsQueue
<1> HIDE DEF new
<1> QED
  BY <1>1, <1>2, <1>3, LuaTypes

(* A request moves on in one slot of one worker. *)
LEMMA LuaMove ==
    ASSUME LuaInv, NEW w \in Workers, NEW q \in Requests,
           NEW to \in Slots, to.pc # "idle" => to.port \in Ports, Lua!Move(w, q, to)
    PROVE  luaReq' \in [Workers -> [Requests -> Slots]] /\ Asked'
<1>1. luaReq \in [Workers -> [Requests -> Slots]]
  BY LuaTypes DEF LuaInv
<1>2. luaReq' = [luaReq EXCEPT ![w][q] = to]
  BY DEF Lua!Move
<1>3. luaReq' \in [Workers -> [Requests -> Slots]]
  BY <1>1, <1>2
<1>4. \A x \in Workers, r \in Requests :
         luaReq'[x][r] = IF x = w /\ r = q THEN to ELSE luaReq[x][r]
  BY <1>1, <1>2
<1> QED
  BY <1>3, <1>4 DEF LuaInv, Asked

(* Every worker starts with no entry and no request. *)
LEMMA LuaInit == Capacity \in Nat \ {0} /\ Lua!Init => LuaInv
<1> SUFFICES ASSUME Capacity \in Nat \ {0}, Lua!Init
             PROVE  LuaInv
  OBVIOUS
<1>1. {} \in Lua!Lists /\ <<>> \in Seq(Entry) /\ IsQueue(<<>>) /\ Len(<<>>) <= Capacity
  BY DEF Lua!Lists, IsQueue
<1>2. Lua!Idle \in Slots
  BY <1>1 DEF Lua!Idle, Slots
<1>3. Lua!TypeOK
  BY <1>1, <1>2, EditsAreNatural, LuaTypes DEF Lua!Init
<1>4. Asked
  BY DEF Lua!Init, Lua!Idle, Asked
<1> QED
  BY <1>3, <1>4 DEF LuaInv

(* No step breaks the order or the size of a cache. *)
LEMMA LuaStep ==
    ASSUME Capacity \in Nat \ {0}, LuaInv, [Lua!Next]_(Lua!vars)
    PROVE  LuaInv'
<1> DEFINE Cache == luaCache \in [Workers -> Seq(Entry)]
                    /\ \A w \in Workers : IsQueue(luaCache[w]) /\ Len(luaCache[w]) <= Capacity
           Req == luaReq \in [Workers -> [Requests -> Slots]] /\ Asked
           Rest == /\ luaFrontend \in [Ports -> Lua!Lists] /\ luaDead \in [Ports -> Lua!Lists]
                   /\ luaEdits \in 0 .. MaxEdits
<1>1. Cache /\ Req /\ Rest
  BY LuaTypes DEF LuaInv
<1>2. LuaInv' <=> Cache' /\ Req' /\ Rest'
  BY LuaTypes DEF LuaInv, Asked, Lua!TypeOK, IsQueue, Entry, Slots
<1>3. /\ UNCHANGED luaCache => Cache'
      /\ UNCHANGED luaReq => Req'
      /\ UNCHANGED <<luaFrontend, luaDead, luaEdits>> => Rest'
  BY <1>1 DEF Asked
<1> HIDE DEF Cache, Req, Rest
<1>4. Lua!Idle \in Slots /\ Lua!Idle.pc = "idle"
  BY DEF Lua!Idle, Slots, Lua!Lists
<1>5. ASSUME NEW w \in Workers, NEW q \in Requests, NEW p \in Ports, Lua!Hit(w, q, p)
      PROVE  LuaInv'
  <2>1. PICK l \in Lua!Cached(w, p) : Lua!Use(w, p, l)
    BY <1>5 DEF Lua!Hit
  <2>2. PICK i \in DOMAIN luaCache[w] : l = luaCache[w][i].list
    BY <2>1 DEF Lua!Cached, Lua!Places
  <2>3. luaCache[w] \in Seq(Entry)
    BY <1>1 DEF Cache
  <2>4. l \in Lua!Lists
    <3>1. luaCache[w][i] \in Entry
      BY <2>3
    <3> QED
      BY <2>2, <3>1 DEF Entry
  <2>5. Cache'
    BY <2>1, <2>4, LuaUse DEF LuaInv, Cache
  <2> QED
    BY <2>5, <1>2, <1>3, <1>5 DEF Lua!Hit
<1>6. ASSUME NEW w \in Workers, NEW q \in Requests, NEW p \in Ports, Lua!Miss(w, q, p)
      PROVE  LuaInv'
  <2>1. [pc |-> "redis", port |-> p, list |-> {}] \in Slots
    BY DEF Slots, Lua!Lists
  <2>2. Req'
    BY <2>1, <1>6, LuaMove DEF Lua!Miss, Req
  <2> QED
    BY <2>2, <1>2, <1>3, <1>6 DEF Lua!Miss
<1>7. ASSUME NEW w \in Workers, NEW q \in Requests, Lua!Exec(w, q)
      PROVE  LuaInv'
  <2> DEFINE old == luaReq[w][q]
             to == [old EXCEPT !.pc = "reply", !.list = Lua!Reply(old.port)]
  <2>1. old \in Slots /\ old.port \in Ports
    BY <1>1, <1>7 DEF Req, Asked, Lua!Exec
  <2>2. Lua!Reply(old.port) \in Lua!Lists
    BY <2>1, <1>1 DEF Rest, Lua!Reply
  <2>3. to \in Slots /\ to.port = old.port
    BY <2>1, <2>2 DEF Slots
  <2>4. Lua!Move(w, q, to)
    BY <1>7 DEF Lua!Exec
  <2> HIDE DEF to
  <2>5. Req'
    BY <2>1, <2>3, <2>4, LuaMove DEF Req
  <2> QED
    BY <2>5, <1>2, <1>3, <1>7 DEF Lua!Exec
<1>8. ASSUME NEW w \in Workers, NEW q \in Requests, Lua!Save(w, q)
      PROVE  LuaInv'
  <2>1. luaReq[w][q].port \in Ports /\ luaReq[w][q].list \in Lua!Lists
    BY <1>1, <1>8 DEF Req, Asked, Slots, Lua!Save
  <2>2. Cache'
    BY <2>1, <1>8, LuaUse DEF LuaInv, Lua!Save, Cache
  <2>3. Req'
    BY <1>4, <1>8, LuaMove DEF Lua!Save, Req
  <2> QED
    BY <2>2, <2>3, <1>2, <1>3, <1>8 DEF Lua!Save
<1>9. ASSUME NEW w \in Workers, NEW q \in Requests, Lua!NotFound(w, q) \/ Lua!Fail(w, q)
      PROVE  LuaInv'
  <2>1. Req'
    BY <1>4, <1>9, LuaMove DEF Lua!NotFound, Lua!Fail, Req
  <2> QED
    BY <2>1, <1>2, <1>3, <1>9 DEF Lua!NotFound, Lua!Fail
<1>10. ASSUME NEW w \in Workers, Lua!Respawn(w)
       PROVE  LuaInv'
  <2>1. luaCache' = [luaCache EXCEPT ![w] = <<>>]
        /\ luaReq' = [luaReq EXCEPT ![w] = [q \in Requests |-> Lua!Idle]]
    BY <1>10 DEF Lua!Respawn
  <2>2. <<>> \in Seq(Entry) /\ IsQueue(<<>>) /\ Len(<<>>) <= Capacity
    BY DEF IsQueue
  <2>3. Cache'
    BY <2>1, <2>2, <1>1 DEF Cache
  <2>4. luaReq' \in [Workers -> [Requests -> Slots]]
    BY <2>1, <1>1, <1>4 DEF Req
  <2>5. Asked'
    BY <2>1, <1>1, <1>4 DEF Req, Asked
  <2> QED
    BY <2>3, <2>4, <2>5, <1>2, <1>3, <1>10 DEF Lua!Respawn, Req
<1>11. ASSUME NEW p \in Ports, NEW l \in Lua!Lists, NEW d \in Lua!Lists, Lua!EditRedis(p, l, d)
       PROVE  LuaInv'
  <2>1. Rest'
    BY <1>1, <1>11, EditsAreNatural DEF Rest, Lua!EditRedis
  <2> QED
    BY <2>1, <1>2, <1>3, <1>11 DEF Lua!EditRedis
<1>12. CASE UNCHANGED Lua!vars
  BY <1>2, <1>3, <1>12 DEF Lua!vars
<1> QED
  BY <1>5, <1>6, <1>7, <1>8, <1>9, <1>10, <1>11, <1>12 DEF Lua!Next, Lua!Answer

(* The caches of the workers of nginx-hipache never hold more entries than *)
(* they were made for, nor two for one port, however the requests of a     *)
(* worker overlap (hipache.lua:13, 61).                                    *)
THEOREM LuaTypeCorrect ==
    ASSUME Capacity \in Nat \ {0}
    PROVE  Lua!Spec => []Lua!TypeOK
<1>1. Lua!Init => LuaInv
  BY LuaInit
<1>2. LuaInv /\ [Lua!Next]_(Lua!vars) => LuaInv'
  BY LuaStep
<1>3. LuaInv => Lua!TypeOK
  BY DEF LuaInv
<1> QED
  BY <1>1, <1>2, <1>3, PTL DEF Lua!Spec

=============================================================================
