------------------------------ MODULE Deployer ------------------------------
(***************************************************************************)
(* deployService (watcher/lib/deployer.js): puts an imposter on some of    *)
(* the mountebank instances and their endpoints in the list of a frontend. *)
(* The instances are worked on at once, each by deployImposter; every      *)
(* request to a mountebank and every Redis command is a step.  Several     *)
(* runs of deploy.js for the same port may overlap, fail, or be killed.    *)
(***************************************************************************)
EXTENDS RedisLists

CONSTANTS
    Instances,  \* the mountebank instances
    Pools,      \* what the instances to deploy to, as read from the pool, may be
    Deploys,    \* slots for runs of deploy.js
    MaxRuns,    \* bound: runs of deploy.js
    MaxFaults,  \* bound: failed or repeated requests, killed runs
    None        \* no instance

ASSUME PoolsOfInstances == Pools \subseteq Seq(Instances)

ASSUME BoundsAreNumbers == MaxRuns \in Nat /\ MaxFaults \in Nat

VARIABLES
    list,       \* the list frontend:<port> in Redis
    imposter,   \* imposter[i]: the run whose imposter instance i has on the port, or 0
    dep,        \* dep[d]: the run in slot d
    runs, faults,
    apart       \* since DEL of the run that did it last, no two runs were active

vars == <<list, imposter, dep, runs, faults, apart>>

Runs == 1 .. MaxRuns

NoRun == 0

(* alone: no other run was active while this one was; hurt: a request of   *)
(* it, or a command, failed or was sent again.                             *)
Idle == [pc |-> "idle", run |-> NoRun, target |-> <<>>, task |-> <<>>, alone |-> FALSE, hurt |-> FALSE]

(* A run that has failed has only its error logged (deploy.js:22): the     *)
(* process lives on with its connection to Redis, and does nothing more.   *)
ActiveStates == {"del", "tasks", "publish"}

Active(d) == dep[d].pc \in ActiveStates

TaskStates == {"delete", "post", "lrem", "rpush", "done", "failed"}

TypeOK ==
    /\ list \in Seq(Instances)
    /\ imposter \in [Instances -> Runs \cup {NoRun}]
    /\ \A d \in Deploys :
          /\ dep[d].pc \in ActiveStates \cup {"idle", "failed"}
          /\ dep[d].run \in Runs \cup {NoRun}
          /\ dep[d].target \in Pools \cup {<<>>}
          /\ dep[d].task \in [DOMAIN dep[d].target -> TaskStates]
          /\ dep[d].alone \in BOOLEAN /\ dep[d].hurt \in BOOLEAN
    /\ runs \in 0 .. MaxRuns /\ faults \in 0 .. MaxFaults
    /\ apart \in BOOLEAN

Init ==
    /\ list = <<>>
    /\ imposter = [i \in Instances |-> NoRun]
    /\ dep = [d \in Deploys |-> Idle]
    /\ runs = 0 /\ faults = 0 /\ apart = TRUE

End(d) == dep' = [dep EXCEPT ![d] = Idle]

Report(d, hurt) == dep' = [dep EXCEPT ![d] = [Idle EXCEPT !.pc = "failed", !.alone = dep[d].alone, !.hurt = hurt]]

Fault == faults < MaxFaults /\ faults' = faults + 1

-----------------------------------------------------------------------------
(* getMountebankInstances, the filter on the mode, slice(0,capacity).      *)
Start(d) ==
    /\ runs < MaxRuns /\ runs' = runs + 1
    /\ dep[d].pc = "idle"
    /\ \E t \in Pools \ {<<>>} :
          dep' = [e \in Deploys |->
                    IF e = d THEN [pc |-> "del", run |-> runs', target |-> t,
                                   task |-> [n \in DOMAIN t |-> "delete"],
                                   alone |-> \A x \in Deploys : ~Active(x), hurt |-> FALSE]
                    ELSE [dep[e] EXCEPT !.alone = @ /\ ~Active(e)]]
    /\ apart' = (apart /\ \A x \in Deploys : ~Active(x))
    /\ UNCHANGED <<list, imposter, faults>>

(* The pool cannot be read, or there are "No instances to deploy to": the  *)
(* run fails before it has done anything, and is never active.             *)
StartFails(d) ==
    /\ runs < MaxRuns /\ runs' = runs + 1
    /\ dep[d].pc = "idle"
    /\ Report(d, FALSE)
    /\ UNCHANGED <<list, imposter, faults, apart>>

(* A mutant of Cleared: the list keeps its old endpoints. *)
ClearedNot == list

Cleared == <<>>

(* DEL of the frontend, then the tasks start.                              *)
Del(d) ==
    /\ dep[d].pc = "del"
    /\ list' = Cleared
    /\ dep' = [dep EXCEPT ![d].pc = "tasks"]
    /\ apart' = (apart \/ dep[d].alone)
    /\ UNCHANGED <<imposter, runs, faults>>

-----------------------------------------------------------------------------
(* One step of the task on the n-th instance.                              *)
AtTask(d, n, l) == dep[d].pc = "tasks" /\ dep[d].task[n] = l

Task(d, n, to) == dep' = [dep EXCEPT ![d].task[n] = to] /\ UNCHANGED faults

HurtTask(d, n, to) == dep' = [dep EXCEPT ![d].task[n] = to, ![d].hurt = TRUE] /\ Fault

(* A mutant of Deleted: the imposter that was there stays. *)
DeletedNot(i) == imposter

Deleted(i) == [imposter EXCEPT ![i] = NoRun]

(* DELETE /imposters/<port>: no error when there is none.                  *)
Delete(d, n) ==
    /\ AtTask(d, n, "delete")
    /\ imposter' = Deleted(dep[d].target[n])
    /\ Task(d, n, "post")
    /\ UNCHANGED <<list, runs, apart>>

(* POST /imposters: mountebank refuses a port that is in use.              *)
Post(d, n) ==
    LET i == dep[d].target[n] IN
    /\ AtTask(d, n, "post")
    /\ \/ imposter[i] = NoRun /\ imposter' = [imposter EXCEPT ![i] = dep[d].run] /\ Task(d, n, "lrem")
       \/ imposter[i] # NoRun /\ imposter' = imposter /\ Task(d, n, "failed")
    /\ UNCHANGED <<list, runs, apart>>

(* A mutant of Endpoint: the endpoint has no instance in it.               *)
EndpointOfNobody(d, n) == None

Endpoint(d, n) == dep[d].target[n]

LRem(d, n) ==
    /\ AtTask(d, n, "lrem")
    /\ list' = Without(list, Endpoint(d, n))
    /\ Task(d, n, "rpush")
    /\ UNCHANGED <<imposter, runs, apart>>

(* RPUSH.  When its reply is lost with the connection, ioredis sends it    *)
(* again, or gives up and reports an error.                                *)
RPush(d, n) ==
    /\ AtTask(d, n, "rpush")
    /\ list' = Append(list, Endpoint(d, n))
    /\ Task(d, n, "done") \/ HurtTask(d, n, "rpush") \/ HurtTask(d, n, "failed")
    /\ UNCHANGED <<imposter, runs, apart>>

(* A request fails; the other tasks go on.  One that took effect and then  *)
(* failed is the step above, followed by this one; sending DELETE or LREM  *)
(* again changes nothing.                                                  *)
TaskFails(d, n) ==
    /\ dep[d].pc = "tasks"
    /\ dep[d].task[n] \in {"delete", "post", "lrem", "rpush"}
    /\ HurtTask(d, n, "failed")
    /\ UNCHANGED <<list, imposter, runs, apart>>

Tasks(d) == {dep[d].task[n] : n \in DOMAIN dep[d].task}

(* Promise.allSettled *)
Settled(d) == Tasks(d) \subseteq {"done", "failed"}

(* A mutant of Failed: the failure of a task does not stop the publish.    *)
FailedNever(d) == FALSE

Failed(d) == "failed" \in Tasks(d)

Settle(d) ==
    /\ dep[d].pc = "tasks"
    /\ Settled(d)
    /\ \/ Failed(d) /\ Report(d, dep[d].hurt)
       \/ ~Failed(d) /\ dep' = [dep EXCEPT ![d].pc = "publish"]
    /\ UNCHANGED <<list, imposter, runs, faults, apart>>

-----------------------------------------------------------------------------
(* PUBLISH; then process.exit.                                             *)
Publish(d) ==
    /\ dep[d].pc = "publish"
    /\ End(d)
    /\ UNCHANGED <<list, imposter, runs, faults, apart>>

(* DEL or PUBLISH fails, DEL perhaps after it has emptied the list.        *)
CommandFails(d) ==
    /\ dep[d].pc \in {"del", "publish"}
    /\ Fault
    /\ Report(d, TRUE)
    /\ \/ list' = list
       \/ dep[d].pc = "del" /\ list' = Cleared
    /\ UNCHANGED <<imposter, runs, apart>>

(* The process is killed: a fault, unless it had failed anyway.            *)
Kill(d) ==
    /\ dep[d].pc # "idle"
    /\ IF dep[d].pc = "failed" THEN UNCHANGED faults ELSE Fault
    /\ End(d)
    /\ UNCHANGED <<list, imposter, runs, apart>>

Deploy(d) ==
    \/ Del(d) \/ Settle(d) \/ Publish(d)
    \/ \E n \in DOMAIN dep[d].task : Delete(d, n) \/ Post(d, n) \/ LRem(d, n) \/ RPush(d, n)

Fails(d) == CommandFails(d) \/ Kill(d) \/ \E n \in DOMAIN dep[d].task : TaskFails(d, n)

Next == \E d \in Deploys : Start(d) \/ StartFails(d) \/ Deploy(d) \/ Fails(d)

Spec == Init /\ [][Next]_vars

(* mountebank and Redis answer, sooner or later: the requests of           *)
(* deployImposter have no timeout.                                         *)
Fairness == \A d \in Deploys : WF_vars(Deploy(d))

FairSpec == Spec /\ Fairness

-----------------------------------------------------------------------------
(* An endpoint in the list has an imposter behind it at every moment,      *)
(* through failures and killed runs, as long as runs do not overlap, and   *)
(* again from the first DEL of a run that is alone after they did: the     *)
(* list is emptied before the first imposter is deleted, and an endpoint   *)
(* comes back after its imposter.                                          *)
ListedIsDeployed ==
    apart => \A n \in DOMAIN list : imposter[list[n]] # NoRun

(* A run that no other overlaps publishes a list that has every instance,  *)
(* and nothing else, with its own imposter behind it, whatever earlier     *)
(* runs have left, those included that overlapped, failed or were killed;  *)
(* and it has them once, if no command was sent again.                     *)
PublishedIsComplete ==
    \A d \in Deploys : dep[d].pc = "publish" /\ dep[d].alone =>
        /\ {list[n] : n \in DOMAIN list} = {dep[d].target[n] : n \in DOMAIN dep[d].target}
        /\ \A n \in DOMAIN list : imposter[list[n]] = dep[d].run
        /\ ~dep[d].hurt => Len(list) = Len(dep[d].target)

(* A run that is not killed comes to its publish, or to the report of its  *)
(* failure; it fails only for a request of its own that failed, or because *)
(* another run overlapped it, never for what earlier runs have left.       *)
RunsSettle ==
    \A d \in Deploys :
        Active(d) ~> \/ dep[d].pc \in {"publish", "idle"}
                     \/ dep[d].pc = "failed" /\ (dep[d].hurt \/ ~dep[d].alone)
=============================================================================
