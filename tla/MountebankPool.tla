--------------------------- MODULE MountebankPool ---------------------------
(***************************************************************************)
(* The watcher: the events of Docker about the mountebank containers       *)
(* (watchDockerEvents.js, index.js) start addMountebankInstance and        *)
(* dropMountebankInstance (mountebankPool.js), which keep two Redis lists  *)
(* of endpoints.  Both are asynchronous: their calls interleave at every   *)
(* await, and nothing keeps two calls for one container apart.             *)
(***************************************************************************)
EXTENDS RedisLists

CONSTANTS
    Containers,     \* the mountebank containers, named as their endpoints
    Calls,          \* slots for calls of add and drop in flight
    MaxChanges,     \* bound: changes of the state of a container
    MaxFaults,      \* bound: ends of the event stream, failed or repeated Redis commands
    None

ASSUME NoneIsNoContainer == None \notin Containers

ASSUME BoundsAreNumbers == MaxChanges \in Nat /\ MaxFaults \in Nat

VARIABLES
    \* Redis
    pool, front,    \* the lists mountebank_pool and frontend:2525
    \* Docker
    status,         \* status[c]: the state of container c
    events,         \* events Docker has emitted and the watcher has not seen
    \* the watcher
    connected,      \* the event stream is open
    call,           \* call[k]: the call in slot k
    \* bookkeeping
    changes, faults,
    missed          \* containers of which an event, or a call, was lost

lists == <<pool, front>>
vars == <<pool, front, status, events, connected, call, changes, faults, missed>>

(* alone: no other call is on the container, and no command of this one    *)
(* was sent twice.                                                         *)
Idle == [pc |-> "idle", container |-> None, alone |-> TRUE]

CallStates == {"idle", "inspect", "sleep", "look", "probe", "add_lrem_pool", "add_lrem_front",
               "add_rpush_pool", "add_rpush_front", "add_publish", "drop_lrem_pool",
               "drop_lrem_front"}

Statuses == {"stopped", "starting", "unhealthy", "healthy", "paused"}

Events == [op : {"add", "drop"}, container : Containers]

TypeOK ==
    /\ pool \in Seq(Containers) /\ front \in Seq(Containers)
    /\ status \in [Containers -> Statuses]
    /\ events \in Seq(Events)
    /\ connected \in BOOLEAN
    /\ call \in [Calls -> [pc : CallStates, container : Containers \cup {None}, alone : BOOLEAN]]
    /\ changes \in 0 .. MaxChanges /\ faults \in 0 .. MaxFaults
    /\ missed \in SUBSET Containers

Init ==
    /\ pool = <<>> /\ front = <<>>
    /\ status = [c \in Containers |-> "stopped"]
    /\ events = <<>> /\ connected = TRUE
    /\ call = [k \in Calls |-> Idle]
    /\ changes = 0 /\ faults = 0 /\ missed = {}

-----------------------------------------------------------------------------
(* Docker.  The health monitor runs only while a container runs and is not *)
(* paused; a container that starts, or resumes, is not healthy until the   *)
(* next probe, and each change of its health is an event.  index.js maps   *)
(* the actions to add and drop; the action of "start" has no handler.  An  *)
(* event reaches an open stream only.                                      *)
Change(c, from, to, new) ==
    /\ changes < MaxChanges
    /\ status[c] \in from
    /\ status' = [status EXCEPT ![c] = to]
    /\ events' = IF connected THEN events \o [i \in DOMAIN new |-> [op |-> new[i], container |-> c]]
                 ELSE events
    /\ missed' = IF connected \/ new = <<>> THEN missed ELSE missed \cup {c}
    /\ changes' = changes + 1
    /\ UNCHANGED <<lists, connected, call, faults>>

Start(c) == Change(c, {"stopped"}, "starting", <<>>)

BecomesHealthy(c) == Change(c, {"starting", "unhealthy"}, "healthy", <<"add">>)

BecomesUnhealthy(c) == Change(c, {"starting", "healthy"}, "unhealthy", <<"drop">>)

Pause(c) == Change(c, {"starting", "unhealthy", "healthy"}, "paused", <<"drop">>)

Unpause(c) == Change(c, {"paused"}, "unhealthy", <<"add">>)

(* "die" alone, or "kill" (or "oom") and "die"                             *)
Die(c) == \E n \in 1 .. 2 :
    Change(c, Statuses \ {"stopped"}, "stopped", [i \in 1 .. n |-> "drop"])

-----------------------------------------------------------------------------
(* The stream: an end loses what is under way, and what Docker emits until *)
(* watchDockerEventsIndef has asked for events again.                      *)
StreamEnds ==
    /\ connected
    /\ faults < MaxFaults /\ faults' = faults + 1
    /\ connected' = FALSE
    /\ events' = <<>>
    /\ missed' = missed \cup {events[i].container : i \in DOMAIN events}
    /\ UNCHANGED <<lists, status, call, changes>>

Reconnect ==
    /\ ~connected
    /\ connected' = TRUE
    /\ UNCHANGED <<lists, status, events, call, changes, faults, missed>>

(* A chunk with one event: dataListener emits it, the handler starts its   *)
(* call, which runs to its first await.                                    *)
Overlaps(k, c) == call[k].pc # "idle" /\ call[k].container = c

Deliver(k) ==
    /\ events # <<>>
    /\ call[k].pc = "idle"
    /\ LET e == Head(events) IN
       call' = [j \in Calls |->
                  IF j = k THEN [pc |-> IF e.op = "add" THEN "inspect" ELSE "drop_lrem_pool",
                                 container |-> e.container,
                                 alone |-> \A i \in Calls : ~Overlaps(i, e.container)]
                  ELSE [call[j] EXCEPT !.alone = @ /\ ~Overlaps(j, e.container)]]
    /\ events' = Tail(events)
    /\ UNCHANGED <<lists, status, connected, changes, faults, missed>>

(* A chunk with several events, or with a part of one, is no JSON, and a   *)
(* Buffer has no trim(): parseEvent gives up and the events are gone.      *)
DropChunk(n) ==
    /\ n \in 1 .. Len(events)
    /\ events' = SubSeq(events, n + 1, Len(events))
    /\ missed' = missed \cup {events[i].container : i \in 1 .. n}
    /\ UNCHANGED <<lists, status, connected, call, changes, faults>>

-----------------------------------------------------------------------------
Goto(k, l) == call' = [call EXCEPT ![k].pc = l]

Finish(k) == call' = [call EXCEPT ![k] = Idle]

Rest == <<status, events, connected, changes>>

(* A mutant of IsHealthy: the loop keeps the details it started with.      *)
IsHealthyStale(c) == FALSE

IsHealthy(c) == status[c] = "healthy"

(* findContainer and the first inspect of checkContainer: the container    *)
(* does not run, it is gone, or Docker answers with an error, and the call *)
(* ends.                                                                   *)
Inspect(k) ==
    /\ call[k].pc = "inspect"
    /\ LET s == status[call[k].container] IN
       \/ Finish(k)
       \/ s = "healthy" /\ Goto(k, "probe")
       \/ s \notin {"stopped", "healthy"} /\ Goto(k, "sleep")
    /\ UNCHANGED <<lists, Rest, faults, missed>>

(* the loop of checkContainer: attempts stays 0, so it never gives up, and *)
(* only an error of Docker ends it before the container is healthy         *)
Sleep(k) ==
    /\ call[k].pc = "sleep"
    /\ Goto(k, "look")
    /\ UNCHANGED <<lists, Rest, faults, missed>>

Look(k) ==
    /\ call[k].pc = "look"
    /\ Finish(k) \/ Goto(k, IF IsHealthy(call[k].container) THEN "probe" ELSE "sleep")
    /\ UNCHANGED <<lists, Rest, faults, missed>>

(* GET /imposters of the container: no answer within a second, an error or *)
(* an answer without imposters ends the call.                              *)
Probe(k) ==
    /\ call[k].pc = "probe"
    /\ \/ status[call[k].container] \in {"starting", "unhealthy", "healthy"} /\ Goto(k, "add_lrem_pool")
       \/ Finish(k)
    /\ UNCHANGED <<lists, Rest, faults, missed>>

(* One Redis command of a call: the lists before and after, and what is    *)
(* awaited next.                                                           *)
Command(k, from, newPool, newFront, to) ==
    /\ call[k].pc = from
    /\ pool' = newPool /\ front' = newFront
    /\ IF to = "idle" THEN Finish(k) ELSE Goto(k, to)
    /\ UNCHANGED <<Rest, faults, missed>>

AddLremPool(k) == Command(k, "add_lrem_pool", Without(pool, call[k].container), front, "add_lrem_front")

(* A mutant of AddLremFront: the old copies stay. *)
AddKeepsFront(k) == Command(k, "add_lrem_front", pool, front, "add_rpush_pool")

AddLremFront(k) == Command(k, "add_lrem_front", pool, Without(front, call[k].container), "add_rpush_pool")

(* A mutant of AddRpushPool: the endpoint has no container name. *)
AddRpushNobody(k) == Command(k, "add_rpush_pool", Append(pool, None), front, "add_rpush_front")

AddRpushPool(k) == Command(k, "add_rpush_pool", Append(pool, call[k].container), front, "add_rpush_front")

AddRpushFront(k) == Command(k, "add_rpush_front", pool, Append(front, call[k].container), "add_publish")

AddPublish(k) == Command(k, "add_publish", pool, front, "idle")

DropLremPool(k) == Command(k, "drop_lrem_pool", Without(pool, call[k].container), front, "drop_lrem_front")

DropLremFront(k) == Command(k, "drop_lrem_front", pool, Without(front, call[k].container), "idle")

AtRedis == CallStates \ {"idle", "inspect", "sleep", "look", "probe"}

(* A command that fails ends the call where it is; the error is logged.    *)
(* One that took effect before it failed is its step, followed by this.    *)
RedisError(k) ==
    /\ call[k].pc \in AtRedis
    /\ faults < MaxFaults /\ faults' = faults + 1
    /\ missed' = missed \cup {call[k].container}
    /\ Finish(k)
    /\ UNCHANGED <<lists, Rest>>

(* The connection breaks after a command took effect, and ioredis sends it *)
(* again: an RPUSH leaves two copies, LREM and PUBLISH change no list.     *)
Resend(k) ==
    /\ faults < MaxFaults /\ faults' = faults + 1
    /\ call' = [call EXCEPT ![k].alone = FALSE]
    /\ \/ call[k].pc = "add_rpush_pool" /\ pool' = Append(pool, call[k].container) /\ front' = front
       \/ call[k].pc = "add_rpush_front" /\ front' = Append(front, call[k].container) /\ pool' = pool
    /\ UNCHANGED <<Rest, missed>>

-----------------------------------------------------------------------------
Docker == \E c \in Containers :
    Start(c) \/ BecomesHealthy(c) \/ BecomesUnhealthy(c) \/ Pause(c) \/ Unpause(c) \/ Die(c)

Add(k) ==
    \/ Inspect(k) \/ Sleep(k) \/ Look(k) \/ Probe(k) \/ AddLremPool(k) \/ AddLremFront(k)
    \/ AddRpushPool(k) \/ AddRpushFront(k) \/ AddPublish(k)

Drop(k) == DropLremPool(k) \/ DropLremFront(k)

Next ==
    \/ Docker \/ StreamEnds \/ Reconnect
    \/ \E n \in 1 .. Len(events) : DropChunk(n)
    \/ \E k \in Calls : Deliver(k) \/ Add(k) \/ Drop(k) \/ RedisError(k) \/ Resend(k)

Spec == Init /\ [][Next]_vars

(* Node runs every callback that is due, and the stream is reopened.       *)
Fairness ==
    /\ WF_vars(Reconnect)
    /\ WF_vars(\E k \in Calls : Deliver(k))
    /\ \A k \in Calls : WF_vars(Add(k)) /\ WF_vars(Drop(k))

FairSpec == Spec /\ Fairness

-----------------------------------------------------------------------------
(* An add that ran with no other call on its container, none of its        *)
(* commands sent twice, leaves it in each list exactly once, and a drop    *)
(* leaves it in neither, whatever earlier overlaps, errors and repeated    *)
(* commands had left there.                                                *)
LoneCallsAreExact ==
    [][\A k \in Calls : call[k].alone =>
          LET c == call[k].container IN
          /\ AddPublish(k) => Copies(pool', c) = 1 /\ Copies(front', c) = 1
          /\ DropLremFront(k) => Copies(pool', c) = 0 /\ Copies(front', c) = 0]_vars

(* Every call for a container ends when the container stays healthy: the   *)
(* wait for its health, the requests to it and the commands to Redis.      *)
CallsEnd ==
    \A c \in Containers, k \in Calls :
        <>[](status[c] = "healthy") => <>[](call[k].container # c)

(* "updates redis when mb instances are dropped" (docker-compose.go-proxy. *)
(* yml:39): when all the events of a stopped container were handled, it is *)
(* in neither list.                                                        *)
Handled(c) ==
    /\ c \notin missed
    /\ \A i \in DOMAIN events : events[i].container # c
    /\ \A k \in Calls : call[k].container # c

StoppedLeavePool ==
    \A c \in Containers :
        status[c] = "stopped" /\ Handled(c) => Copies(pool, c) = 0 /\ Copies(front, c) = 0
=============================================================================
