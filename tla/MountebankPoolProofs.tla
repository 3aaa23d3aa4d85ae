------------------------ MODULE MountebankPoolProofs ------------------------
(***************************************************************************)
(* Theorems about the watcher's calls on the lists of Redis, for any       *)
(* number of containers, calls in flight, changes and faults.              *)
(***************************************************************************)
EXTENDS MountebankPool, DataLemmas

(* A call that has started is for a container. *)
ContainersOK == \A k \in Calls : call[k].pc # "idle" => call[k].container \in Containers

(* A call that is alone shares its container with no other. *)
AloneOK ==
    \A j, k \in Calls :
        j # k /\ call[j].pc # "idle" /\ call[k].pc # "idle" /\ call[j].container = call[k].container
            => ~call[k].alone

(* What a lone call for container c has made of the lists p and f when it  *)
(* is at step l.                                                           *)
Progress(l, p, f, c) ==
    /\ l = "add_lrem_front" => Copies(p, c) = 0
    /\ l = "add_rpush_pool" => Copies(p, c) = 0 /\ Copies(f, c) = 0
    /\ l = "add_rpush_front" => Copies(p, c) = 1 /\ Copies(f, c) = 0
    /\ l = "add_publish" => Copies(p, c) = 1 /\ Copies(f, c) = 1
    /\ l = "drop_lrem_front" => Copies(p, c) = 0

ProgressOK ==
    \A k \in Calls : call[k].alone => Progress(call[k].pc, pool, front, call[k].container)

PoolInv == TypeOK /\ ContainersOK /\ AloneOK /\ ProgressOK

-----------------------------------------------------------------------------
(* The first state: empty lists, no events, no calls. *)
LEMMA InitiallyOK == Init => PoolInv
<1> SUFFICES ASSUME Init
             PROVE  PoolInv
  OBVIOUS
<1>1. TypeOK
  <2>1. <<>> \in Seq(Containers) /\ <<>> \in Seq(Events)
    OBVIOUS
  <2> QED
    BY <2>1, BoundsAreNumbers DEF Init, TypeOK, Idle, CallStates, Statuses
<1>2. \A k \in Calls : call[k].pc = "idle"
  BY DEF Init, Idle
<1>3. ContainersOK /\ AloneOK /\ ProgressOK
  BY <1>2 DEF ContainersOK, AloneOK, ProgressOK, Progress
<1> QED
  BY <1>1, <1>3 DEF PoolInv

(* The invariant is about the lists, the calls and the events; a step that *)
(* leaves lists and calls alone has to keep the types only.                *)
LEMMA CallsUnchanged ==
    ASSUME PoolInv, UNCHANGED <<pool, front, call>>, TypeOK'
    PROVE  PoolInv'
BY DEF PoolInv, ContainersOK, AloneOK, ProgressOK

(* Docker adds events at the end, one after the other. *)
LEMMA DockerOK ==
    ASSUME PoolInv, NEW c \in Containers, NEW from, NEW to \in Statuses,
           NEW new \in Seq({"add", "drop"}), Change(c, from, to, new)
    PROVE  PoolInv'
<1> DEFINE more == [i \in DOMAIN new |-> [op |-> new[i], container |-> c]]
<1>1. /\ status' = [status EXCEPT ![c] = to]
      /\ events' = IF connected THEN events \o more ELSE events
      /\ missed' = IF connected \/ new = <<>> THEN missed ELSE missed \cup {c}
      /\ changes < MaxChanges /\ changes' = changes + 1
      /\ UNCHANGED <<pool, front, connected, call, faults>>
  BY DEF Change, lists
<1>2. more \in Seq(Events)
  <2>1. DOMAIN new = 1 .. Len(new) /\ Len(new) \in Nat /\ \A i \in 1 .. Len(new) : new[i] \in {"add", "drop"}
    OBVIOUS
  <2>2. more \in [1 .. Len(new) -> Events]
    BY <2>1 DEF Events
  <2> HIDE DEF more
  <2> QED
    BY <2>1, <2>2
<1> HIDE DEF more
<1>3. TypeOK
  BY DEF PoolInv
<1>4. events' \in Seq(Events)
  BY <1>1, <1>2, <1>3 DEF TypeOK
<1>5. status' \in [Containers -> Statuses]
  BY <1>1, <1>3 DEF TypeOK
<1>6. missed' \in SUBSET Containers
  BY <1>1, <1>3 DEF TypeOK
<1>7. changes' \in 0 .. MaxChanges
  BY <1>1, <1>3, BoundsAreNumbers DEF TypeOK
<1>8. TypeOK'
  BY <1>1, <1>3, <1>4, <1>5, <1>6, <1>7 DEF TypeOK
<1> QED
  BY <1>1, <1>8, CallsUnchanged

(* The end of the stream and lost chunks take events away. *)
LEMMA StreamOK ==
    ASSUME PoolInv, StreamEnds \/ Reconnect \/ \E n \in 1 .. Len(events) : DropChunk(n)
    PROVE  PoolInv'
<1>1. TypeOK
  BY DEF PoolInv
<1>2. \A i \in DOMAIN events : events[i].container \in Containers
  <2>1. events \in Seq(Events)
    BY <1>1 DEF TypeOK
  <2>2. \A i \in DOMAIN events : events[i] \in Events
    BY <2>1
  <2> QED
    BY <2>2 DEF Events
<1>3. UNCHANGED <<pool, front, call>>
  BY DEF StreamEnds, Reconnect, DropChunk, lists
<1>4. CASE StreamEnds
  <2>1. missed' \in SUBSET Containers
    BY <1>1, <1>2, <1>4 DEF StreamEnds, TypeOK
  <2>2. faults' \in 0 .. MaxFaults
    BY <1>1, <1>4, BoundsAreNumbers DEF StreamEnds, TypeOK
  <2>3. <<>> \in Seq(Events) /\ events' = <<>> /\ connected' = FALSE
    BY <1>4 DEF StreamEnds
  <2>4. TypeOK'
    BY <1>1, <1>4, <2>1, <2>2, <2>3 DEF StreamEnds, TypeOK, lists
  <2> QED
    BY <1>3, <2>4, CallsUnchanged
<1>5. CASE Reconnect
  <2>1. TypeOK'
    BY <1>1, <1>5 DEF Reconnect, TypeOK, lists
  <2> QED
    BY <1>3, <2>1, CallsUnchanged
<1>6. ASSUME NEW n \in 1 .. Len(events), DropChunk(n)
      PROVE  PoolInv'
  <2>1. events' = SubSeq(events, n + 1, Len(events)) /\ events \in Seq(Events)
    BY <1>1, <1>6 DEF DropChunk, TypeOK
  <2>2. events' \in Seq(Events)
    BY <2>1
  <2>3. missed' \in SUBSET Containers
    BY <1>1, <1>2, <1>6 DEF DropChunk, TypeOK
  <2>4. TypeOK'
    BY <1>1, <1>6, <2>2, <2>3 DEF DropChunk, TypeOK, lists
  <2> QED
    BY <1>3, <2>4, CallsUnchanged
<1> QED
  BY <1>4, <1>5, <1>6

(* A delivery starts a call, which is alone when its container has no      *)
(* other; the calls on its container are alone no more.                    *)
LEMMA DeliverOK ==
    ASSUME PoolInv, NEW k \in Calls, Deliver(k)
    PROVE  PoolInv'
<1> DEFINE e == Head(events)
<1> DEFINE start == IF e.op = "add" THEN "inspect" ELSE "drop_lrem_pool"
<1>1. /\ events # <<>> /\ call[k].pc = "idle"
      /\ call' = [j \in Calls |->
                    IF j = k THEN [pc |-> start, container |-> e.container,
                                   alone |-> \A i \in Calls : ~Overlaps(i, e.container)]
                    ELSE [call[j] EXCEPT !.alone = @ /\ ~Overlaps(j, e.container)]]
      /\ events' = Tail(events)
      /\ UNCHANGED <<pool, front, status, connected, changes, faults, missed>>
  BY DEF Deliver, lists
<1>2. TypeOK /\ ContainersOK /\ AloneOK /\ ProgressOK
  BY DEF PoolInv
<1>3. e \in Events /\ Tail(events) \in Seq(Events)
  BY <1>1, <1>2 DEF TypeOK
<1>4. e.container \in Containers /\ start \in {"inspect", "drop_lrem_pool"}
  BY <1>3 DEF Events
<1> HIDE DEF e, start
<1>5. /\ call'[k].pc = start /\ call'[k].container = e.container
      /\ call'[k].alone = \A i \in Calls : ~Overlaps(i, e.container)
  BY <1>1
<1>6. ASSUME NEW j \in Calls, j # k
      PROVE  /\ call'[j].pc = call[j].pc /\ call'[j].container = call[j].container
             /\ call'[j].alone = (call[j].alone /\ ~Overlaps(j, e.container))
             /\ call'[j] \in [pc : CallStates, container : Containers \cup {None}, alone : BOOLEAN]
  <2>1. call[j] \in [pc : CallStates, container : Containers \cup {None}, alone : BOOLEAN]
    BY <1>2 DEF TypeOK
  <2>2. call'[j] = [call[j] EXCEPT !.alone = @ /\ ~Overlaps(j, e.container)]
    BY <1>1, <1>6
  <2> QED
    BY <2>1, <2>2
<1>7. TypeOK'
  <2>1. call'[k] \in [pc : CallStates, container : Containers \cup {None}, alone : BOOLEAN]
    BY <1>1, <1>4 DEF CallStates
  <2>2. call' \in [Calls -> [pc : CallStates, container : Containers \cup {None}, alone : BOOLEAN]]
    BY <1>1, <1>6, <2>1
  <2> QED
    BY <1>1, <1>2, <1>3, <2>2 DEF TypeOK
<1>8. ContainersOK'
  BY <1>2, <1>4, <1>5, <1>6 DEF ContainersOK
<1>9. AloneOK'
  <2> SUFFICES ASSUME NEW i \in Calls, NEW j \in Calls, i # j,
                      call'[i].pc # "idle", call'[j].pc # "idle",
                      call'[i].container = call'[j].container
               PROVE  ~call'[j].alone
    BY DEF AloneOK
  <2>1. CASE j = k
    <3>1. Overlaps(i, e.container)
      BY <1>5, <1>6, <2>1 DEF Overlaps
    <3> QED
      BY <1>5, <2>1, <3>1
  <2>2. CASE i = k
    <3>1. Overlaps(j, e.container)
      BY <1>5, <1>6, <2>2 DEF Overlaps
    <3> QED
      BY <1>6, <2>2, <3>1
  <2>3. CASE i # k /\ j # k
    <3>1. ~call[j].alone
      BY <1>2, <1>6, <2>3 DEF AloneOK
    <3> QED
      BY <1>6, <2>3, <3>1
  <2> QED
    BY <2>1, <2>2, <2>3
<1>10. ProgressOK'
  BY <1>1, <1>2, <1>4, <1>5, <1>6 DEF ProgressOK, Progress
<1> QED
  BY <1>7, <1>8, <1>9, <1>10 DEF PoolInv

(* A call goes on or ends, and leaves the copies of other containers as    *)
(* they are: the invariant holds if the call has made the progress that    *)
(* belongs to its next step.                                               *)
LEMMA CallGoesOn ==
    ASSUME PoolInv, NEW k \in Calls, call[k].pc # "idle",
           NEW l \in CallStates, IF l = "idle" THEN Finish(k) ELSE Goto(k, l),
           pool' \in Seq(Containers), front' \in Seq(Containers),
           \A x \in Containers : x # call[k].container =>
              Copies(pool', x) = Copies(pool, x) /\ Copies(front', x) = Copies(front, x),
           call[k].alone => Progress(l, pool', front', call[k].container),
           UNCHANGED Rest, faults' \in 0 .. MaxFaults, missed' \in SUBSET Containers
    PROVE  PoolInv'
<1> DEFINE CallType == [pc : CallStates, container : Containers \cup {None}, alone : BOOLEAN]
<1>1. TypeOK /\ ContainersOK /\ AloneOK /\ ProgressOK
  BY DEF PoolInv
<1>2. call \in [Calls -> CallType] /\ UNCHANGED <<status, events, connected, changes>>
  BY <1>1 DEF TypeOK, Rest
<1>3. \A j \in Calls : j # k => call'[j] = call[j]
  BY <1>2 DEF Goto, Finish
<1>4. /\ call'[k].pc = l /\ call' \in [Calls -> CallType]
      /\ l # "idle" => call'[k].container = call[k].container /\ call'[k].alone = call[k].alone
  <2>1. CASE l = "idle"
    <3>1. Idle \in CallType /\ Idle.pc = "idle"
      BY DEF Idle, CallStates
    <3>2. call' = [call EXCEPT ![k] = Idle]
      BY <2>1 DEF Finish
    <3> QED
      BY <1>2, <2>1, <3>1, <3>2
  <2>2. CASE l # "idle"
    BY <1>2, <2>2 DEF Goto
  <2> QED
    BY <2>1, <2>2
<1>5. TypeOK'
  BY <1>1, <1>2, <1>4 DEF TypeOK
<1>6. ContainersOK'
  BY <1>1, <1>3, <1>4 DEF ContainersOK
<1>7. AloneOK'
  <2> SUFFICES ASSUME NEW i \in Calls, NEW j \in Calls, i # j,
                      call'[i].pc # "idle", call'[j].pc # "idle",
                      call'[i].container = call'[j].container
               PROVE  ~call'[j].alone
    BY DEF AloneOK
  <2>1. /\ call[i].pc # "idle" /\ call[j].pc # "idle"
        /\ call[i].container = call[j].container /\ call'[j].alone = call[j].alone
    BY <1>3, <1>4
  <2> QED
    BY <1>1, <2>1 DEF AloneOK
<1>8. ProgressOK'
  <2> SUFFICES ASSUME NEW j \in Calls, call'[j].alone
               PROVE  Progress(call'[j].pc, pool', front', call'[j].container)
    BY DEF ProgressOK
  <2>1. CASE call'[j].pc = "idle"
    BY <2>1 DEF Progress
  <2>2. CASE j = k /\ l # "idle"
    BY <1>4, <2>2
  <2>3. CASE j # k /\ call'[j].pc # "idle"
    <3>1. call'[j] = call[j]
      BY <1>3, <2>3
    <3>2. call[j].container # call[k].container
      BY <1>1, <2>3, <3>1 DEF AloneOK
    <3>3. call[j].container \in Containers
      BY <1>1, <2>3, <3>1 DEF ContainersOK
    <3>4. Progress(call[j].pc, pool, front, call[j].container)
      BY <1>1, <3>1 DEF ProgressOK
    <3> QED
      BY <3>1, <3>2, <3>3, <3>4 DEF Progress
  <2> QED
    BY <1>4, <2>1, <2>2, <2>3
<1> QED
  BY <1>5, <1>6, <1>7, <1>8 DEF PoolInv

(* The health check touches no list. *)
LEMMA CheckOK ==
    ASSUME PoolInv, NEW k \in Calls, Inspect(k) \/ Sleep(k) \/ Look(k) \/ Probe(k)
    PROVE  PoolInv'
<1>1. /\ call[k].pc # "idle"
      /\ UNCHANGED <<pool, front, faults, missed>> /\ UNCHANGED Rest
  BY DEF Inspect, Sleep, Look, Probe, lists
<1>2. \E l \in {"idle", "sleep", "look", "probe", "add_lrem_pool"} :
         IF l = "idle" THEN Finish(k) ELSE Goto(k, l)
  BY DEF Inspect, Sleep, Look, Probe
<1>3. PICK l \in {"idle", "sleep", "look", "probe", "add_lrem_pool"} :
         IF l = "idle" THEN Finish(k) ELSE Goto(k, l)
  BY <1>2
<1>4. TypeOK
  BY DEF PoolInv
<1>5. /\ l \in CallStates /\ Progress(l, pool', front', call[k].container)
      /\ pool' \in Seq(Containers) /\ front' \in Seq(Containers)
      /\ faults' \in 0 .. MaxFaults /\ missed' \in SUBSET Containers
  BY <1>1, <1>4 DEF CallStates, Progress, TypeOK
<1> QED
  BY <1>1, <1>3, <1>5, CallGoesOn

(* A command that changes the copies of the call's container only. *)
LEMMA CommandOK ==
    ASSUME PoolInv, NEW k \in Calls, NEW from \in AtRedis, NEW to \in CallStates, NEW p, NEW f,
           Command(k, from, p, f, to),
           p \in Seq(Containers), f \in Seq(Containers),
           \A x \in Containers : x # call[k].container =>
              Copies(p, x) = Copies(pool, x) /\ Copies(f, x) = Copies(front, x),
           call[k].alone /\ Progress(from, pool, front, call[k].container)
              => Progress(to, p, f, call[k].container)
    PROVE  PoolInv'
<1>1. /\ call[k].pc = from /\ pool' = p /\ front' = f
      /\ IF to = "idle" THEN Finish(k) ELSE Goto(k, to)
      /\ UNCHANGED Rest /\ UNCHANGED <<faults, missed>>
  BY DEF Command
<1>2. call[k].pc # "idle"
  BY <1>1 DEF AtRedis
<1>3. call[k].alone => Progress(to, pool', front', call[k].container)
  BY <1>1 DEF PoolInv, ProgressOK
<1>4. faults' \in 0 .. MaxFaults /\ missed' \in SUBSET Containers
  BY <1>1 DEF PoolInv, TypeOK
<1> QED
  BY <1>1, <1>2, <1>3, <1>4, CallGoesOn

(* The commands of add and drop. *)
LEMMA CommandsOK ==
    ASSUME PoolInv, NEW k \in Calls,
           \/ AddLremPool(k) \/ AddLremFront(k) \/ AddRpushPool(k) \/ AddRpushFront(k)
           \/ AddPublish(k) \/ DropLremPool(k) \/ DropLremFront(k)
    PROVE  PoolInv'
<1> DEFINE c == call[k].container
<1>1. pool \in Seq(Containers) /\ front \in Seq(Containers)
  BY DEF PoolInv, TypeOK
<1>2. call[k].pc # "idle"
  BY DEF AddLremPool, AddLremFront, AddRpushPool, AddRpushFront, AddPublish, DropLremPool,
         DropLremFront, Command
<1>3. c \in Containers
  BY <1>2 DEF PoolInv, ContainersOK
<1> HIDE DEF c
<1>4. ASSUME NEW list \in Seq(Containers)
      PROVE  /\ Without(list, c) \in Seq(Containers) /\ Copies(Without(list, c), c) = 0
             /\ \A x \in Containers : x # c => Copies(Without(list, c), x) = Copies(list, x)
  BY WithoutCopies
<1>5. ASSUME NEW list \in Seq(Containers)
      PROVE  /\ Append(list, c) \in Seq(Containers) /\ Copies(Append(list, c), c) = Copies(list, c) + 1
             /\ \A x \in Containers : x # c => Copies(Append(list, c), x) = Copies(list, x)
  BY <1>3, AppendCopies
<1>6. /\ "add_lrem_pool" \in AtRedis /\ "add_lrem_front" \in AtRedis /\ "add_rpush_pool" \in AtRedis
      /\ "add_rpush_front" \in AtRedis /\ "add_publish" \in AtRedis
      /\ "drop_lrem_pool" \in AtRedis /\ "drop_lrem_front" \in AtRedis
      /\ AtRedis \subseteq CallStates /\ "idle" \in CallStates
  BY DEF AtRedis, CallStates
<1>7. CASE AddLremPool(k)
  <2>1. Command(k, "add_lrem_pool", Without(pool, c), front, "add_lrem_front")
    BY <1>7 DEF AddLremPool, c
  <2>2. Progress("add_lrem_front", Without(pool, c), front, c)
    BY <1>1, <1>4 DEF Progress
  <2> QED
    BY <1>1, <1>4, <1>6, <2>1, <2>2, CommandOK DEF c
<1>8. CASE AddLremFront(k)
  <2>1. Command(k, "add_lrem_front", pool, Without(front, c), "add_rpush_pool")
    BY <1>8 DEF AddLremFront, c
  <2>2. Progress("add_lrem_front", pool, front, c)
          => Progress("add_rpush_pool", pool, Without(front, c), c)
    BY <1>1, <1>4 DEF Progress
  <2> QED
    BY <1>1, <1>4, <1>6, <2>1, <2>2, CommandOK DEF c
<1>9. CASE AddRpushPool(k)
  <2> DEFINE longer == Append(pool, c)
  <2>1. Command(k, "add_rpush_pool", longer, front, "add_rpush_front")
    BY <1>9 DEF AddRpushPool, c
  <2>2. Progress("add_rpush_pool", pool, front, c)
          => Progress("add_rpush_front", longer, front, c)
    BY <1>1, <1>5 DEF Progress
  <2>3. /\ longer \in Seq(Containers)
        /\ \A x \in Containers : x # c => Copies(longer, x) = Copies(pool, x)
    BY <1>1, <1>5
  <2> HIDE DEF longer
  <2> QED
    BY <1>1, <1>6, <2>1, <2>2, <2>3, CommandOK DEF c
<1>10. CASE AddRpushFront(k)
  <2> DEFINE longer == Append(front, c)
  <2>1. Command(k, "add_rpush_front", pool, longer, "add_publish")
    BY <1>10 DEF AddRpushFront, c
  <2>2. Progress("add_rpush_front", pool, front, c)
          => Progress("add_publish", pool, longer, c)
    BY <1>1, <1>5 DEF Progress
  <2>3. /\ longer \in Seq(Containers)
        /\ \A x \in Containers : x # c => Copies(longer, x) = Copies(front, x)
    BY <1>1, <1>5
  <2> HIDE DEF longer
  <2> QED
    BY <1>1, <1>6, <2>1, <2>2, <2>3, CommandOK DEF c
<1>11. CASE AddPublish(k)
  <2>1. Command(k, "add_publish", pool, front, "idle")
    BY <1>11 DEF AddPublish
  <2>2. Progress("idle", pool, front, c)
    BY DEF Progress
  <2> QED
    BY <1>1, <1>6, <2>1, <2>2, CommandOK DEF c
<1>12. CASE DropLremPool(k)
  <2>1. Command(k, "drop_lrem_pool", Without(pool, c), front, "drop_lrem_front")
    BY <1>12 DEF DropLremPool, c
  <2>2. Progress("drop_lrem_front", Without(pool, c), front, c)
    BY <1>1, <1>4 DEF Progress
  <2> QED
    BY <1>1, <1>4, <1>6, <2>1, <2>2, CommandOK DEF c
<1>13. CASE DropLremFront(k)
  <2>1. Command(k, "drop_lrem_front", pool, Without(front, c), "idle")
    BY <1>13 DEF DropLremFront, c
  <2>2. Progress("idle", pool, Without(front, c), c)
    BY DEF Progress
  <2> QED
    BY <1>1, <1>4, <1>6, <2>1, <2>2, CommandOK DEF c
<1> QED
  BY <1>7, <1>8, <1>9, <1>10, <1>11, <1>12, <1>13

(* A command that fails ends its call. *)
LEMMA ErrorOK ==
    ASSUME PoolInv, NEW k \in Calls, RedisError(k)
    PROVE  PoolInv'
<1>1. /\ call[k].pc \in AtRedis /\ faults < MaxFaults /\ faults' = faults + 1
      /\ missed' = missed \cup {call[k].container} /\ Finish(k)
      /\ UNCHANGED <<pool, front>> /\ UNCHANGED Rest
  BY DEF RedisError, lists
<1>2. TypeOK
  BY DEF PoolInv
<1>3. call[k].pc # "idle" /\ "idle" \in CallStates
  BY <1>1 DEF AtRedis, CallStates
<1>4. call[k].container \in Containers
  BY <1>3 DEF PoolInv, ContainersOK
<1>5. faults' \in 0 .. MaxFaults
  BY <1>1, <1>2, BoundsAreNumbers DEF TypeOK
<1>6. /\ missed' \in SUBSET Containers
      /\ pool' \in Seq(Containers) /\ front' \in Seq(Containers)
  BY <1>1, <1>2, <1>4 DEF TypeOK
<1>7. Progress("idle", pool', front', call[k].container)
  BY DEF Progress
<1> QED
  BY <1>1, <1>3, <1>5, <1>6, <1>7, CallGoesOn

(* A command sent twice adds a copy of the call's own container, and the   *)
(* call is alone no more.                                                  *)
LEMMA ResendOK ==
    ASSUME PoolInv, NEW k \in Calls, Resend(k)
    PROVE  PoolInv'
<1> DEFINE c == call[k].container
<1>1. /\ call[k].pc # "idle" /\ faults < MaxFaults /\ faults' = faults + 1
      /\ call' = [call EXCEPT ![k].alone = FALSE]
      /\ \/ pool' = Append(pool, c) /\ front' = front
         \/ front' = Append(front, c) /\ pool' = pool
      /\ UNCHANGED <<status, events, connected, changes, missed>>
  BY DEF Resend, Rest
<1>2. TypeOK /\ ContainersOK /\ AloneOK /\ ProgressOK
  BY DEF PoolInv
<1>3. c \in Containers
  BY <1>1, <1>2 DEF ContainersOK
<1>4. call \in [Calls -> [pc : CallStates, container : Containers \cup {None}, alone : BOOLEAN]]
  BY <1>2 DEF TypeOK
<1>5. /\ call' \in [Calls -> [pc : CallStates, container : Containers \cup {None}, alone : BOOLEAN]]
      /\ ~call'[k].alone /\ call'[k].pc = call[k].pc /\ call'[k].container = c
      /\ \A j \in Calls : j # k => call'[j] = call[j]
  BY <1>1, <1>4
<1>6. faults' \in 0 .. MaxFaults
  BY <1>1, <1>2, BoundsAreNumbers DEF TypeOK
<1> HIDE DEF c
<1>7. ASSUME NEW list \in Seq(Containers)
      PROVE  /\ Append(list, c) \in Seq(Containers)
             /\ \A x \in Containers : x # c => Copies(Append(list, c), x) = Copies(list, x)
  BY <1>3, AppendCopies
<1>8. pool \in Seq(Containers) /\ front \in Seq(Containers)
  BY <1>2 DEF TypeOK
<1>9. /\ pool' \in Seq(Containers) /\ front' \in Seq(Containers)
      /\ \A x \in Containers : x # c =>
            Copies(pool', x) = Copies(pool, x) /\ Copies(front', x) = Copies(front, x)
  BY <1>1, <1>7, <1>8
<1>10. TypeOK'
  BY <1>1, <1>2, <1>5, <1>6, <1>9 DEF TypeOK
<1>11. ContainersOK' /\ AloneOK'
  <2>1. /\ \A j \in Calls : call'[j].pc = call[j].pc /\ call'[j].container = call[j].container
        /\ \A j \in Calls : call'[j].alone => call[j].alone
    BY <1>5 DEF c
  <2> QED
    BY <1>2, <2>1 DEF ContainersOK, AloneOK
<1>12. ProgressOK'
  <2> SUFFICES ASSUME NEW j \in Calls, call'[j].alone
               PROVE  Progress(call'[j].pc, pool', front', call'[j].container)
    BY DEF ProgressOK
  <2>1. j # k /\ call'[j] = call[j]
    BY <1>5
  <2>2. CASE call[j].pc = "idle"
    BY <2>1, <2>2 DEF Progress
  <2>3. CASE call[j].pc # "idle"
    <3>1. call[j].container # c /\ call[j].container \in Containers
      BY <1>1, <1>2, <2>1, <2>3 DEF AloneOK, ContainersOK, c
    <3>2. Progress(call[j].pc, pool, front, call[j].container)
      BY <1>2, <2>1 DEF ProgressOK
    <3> QED
      BY <1>9, <2>1, <3>1, <3>2 DEF Progress
  <2> QED
    BY <2>2, <2>3
<1> QED
  BY <1>10, <1>11, <1>12 DEF PoolInv

(* Every step keeps the invariant. *)
LEMMA StepOK == PoolInv /\ [Next]_vars => PoolInv'
<1> SUFFICES ASSUME PoolInv, [Next]_vars
             PROVE  PoolInv'
  OBVIOUS
<1>1. ASSUME NEW c \in Containers,
             Start(c) \/ BecomesHealthy(c) \/ BecomesUnhealthy(c) \/ Pause(c) \/ Unpause(c) \/ Die(c)
      PROVE  PoolInv'
  <2>1. <<>> \in Seq({"add", "drop"}) /\ <<"add">> \in Seq({"add", "drop"})
        /\ <<"drop">> \in Seq({"add", "drop"})
    OBVIOUS
  <2>2. ASSUME NEW n \in 1 .. 2
        PROVE  [i \in 1 .. n |-> "drop"] \in Seq({"add", "drop"})
    OBVIOUS
  <2>3. CASE Start(c)
    BY <2>1, <2>3, DockerOK DEF Start, Statuses
  <2>4. CASE BecomesHealthy(c)
    BY <2>1, <2>4, DockerOK DEF BecomesHealthy, Statuses
  <2>5. CASE BecomesUnhealthy(c)
    BY <2>1, <2>5, DockerOK DEF BecomesUnhealthy, Statuses
  <2>6. CASE Pause(c)
    BY <2>1, <2>6, DockerOK DEF Pause, Statuses
  <2>7. CASE Unpause(c)
    BY <2>1, <2>7, DockerOK DEF Unpause, Statuses
  <2>8. CASE Die(c)
    BY <2>2, <2>8, DockerOK DEF Die, Statuses
  <2> QED
    BY <1>1, <2>3, <2>4, <2>5, <2>6, <2>7, <2>8
<1>2. CASE StreamEnds \/ Reconnect \/ \E n \in 1 .. Len(events) : DropChunk(n)
  BY <1>2, StreamOK
<1>3. ASSUME NEW k \in Calls, Deliver(k) \/ Add(k) \/ Drop(k) \/ RedisError(k) \/ Resend(k)
      PROVE  PoolInv'
  BY <1>3, DeliverOK, CheckOK, CommandsOK, ErrorOK, ResendOK DEF Add, Drop
<1>4. CASE UNCHANGED vars
  <2>1. TypeOK'
    BY <1>4 DEF vars, PoolInv, TypeOK
  <2> QED
    BY <1>4, <2>1, CallsUnchanged DEF vars
<1> QED
  BY <1>1, <1>2, <1>3, <1>4 DEF Next, Docker

-----------------------------------------------------------------------------
(* The invariant holds in every state of a run. *)
LEMMA InvariantHolds == Spec => []PoolInv
<1>1. Init => PoolInv
  BY InitiallyOK
<1>2. PoolInv /\ [Next]_vars => PoolInv'
  BY StepOK
<1> QED
  BY <1>1, <1>2, PTL DEF Spec

(* The lists of the watcher hold containers, its calls and the events of   *)
(* Docker are about containers.                                            *)
THEOREM TypeCorrect == Spec => []TypeOK
<1>1. PoolInv => TypeOK
  BY DEF PoolInv
<1> QED
  BY <1>1, InvariantHolds, PTL

(* addMountebankInstance, running with no other call on its container and  *)
(* none of its commands sent twice, leaves it in each list once, and       *)
(* dropMountebankInstance in neither, whatever other containers' calls do  *)
(* in between and whatever was there.                                      *)
THEOREM LoneCallsRepair == Spec => LoneCallsAreExact
<1>1. PoolInv /\ [Next]_vars =>
        [\A k \in Calls : call[k].alone =>
            LET c == call[k].container IN
            /\ AddPublish(k) => Copies(pool', c) = 1 /\ Copies(front', c) = 1
            /\ DropLremFront(k) => Copies(pool', c) = 0 /\ Copies(front', c) = 0]_vars
  <2> SUFFICES ASSUME PoolInv, NEW k \in Calls, call[k].alone
               PROVE  LET c == call[k].container IN
                      /\ AddPublish(k) => Copies(pool', c) = 1 /\ Copies(front', c) = 1
                      /\ DropLremFront(k) => Copies(pool', c) = 0 /\ Copies(front', c) = 0
    OBVIOUS
  <2> DEFINE c == call[k].container
  <2>1. Progress(call[k].pc, pool, front, c) /\ front \in Seq(Containers)
    BY DEF PoolInv, ProgressOK, TypeOK
  <2>2. ASSUME AddPublish(k)
        PROVE  Copies(pool', c) = 1 /\ Copies(front', c) = 1
    BY <2>1, <2>2 DEF AddPublish, Command, Progress
  <2>3. ASSUME DropLremFront(k)
        PROVE  Copies(pool', c) = 0 /\ Copies(front', c) = 0
    <3>1. /\ call[k].pc = "drop_lrem_front" /\ pool' = pool
          /\ front' = Without(front, c)
      BY <2>3 DEF DropLremFront, Command
    <3>2. Copies(Without(front, c), c) = 0
      BY <2>1, WithoutCopies
    <3> QED
      BY <2>1, <3>1, <3>2 DEF Progress
  <2> QED
    BY <2>2, <2>3
<1> QED
  BY <1>1, InvariantHolds, PTL DEF Spec, LoneCallsAreExact

=============================================================================
