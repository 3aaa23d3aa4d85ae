--------------------------- MODULE DeployerProofs ---------------------------
(***************************************************************************)
(* Theorems about deployService, for any number of instances, runs and     *)
(* faults.                                                                 *)
(***************************************************************************)
EXTENDS Deployer, DataLemmas

(* No instance is in a pool twice.  The watcher may leave one there twice  *)
(* when calls on it overlap; the two tasks on it would then delete each    *)
(* other's imposter.                                                       *)
PoolsAreClean == \A t \in Pools : \A m, n \in DOMAIN t : t[m] = t[n] => m = n

PcStates == {"idle", "del", "tasks", "publish", "failed"}

RunType ==
    [pc : PcStates, run : Runs \cup {NoRun}, target : Pools \cup {<<>>}, task : Seq(TaskStates),
     alone : BOOLEAN, hurt : BOOLEAN]

(* A run has one task for each instance it deploys to. *)
ControlOK ==
    /\ dep \in [Deploys -> RunType]
    /\ \A d \in Deploys : Len(dep[d].task) = Len(dep[d].target)

StoreOK ==
    /\ list \in Seq(Instances)
    /\ imposter \in [Instances -> Runs \cup {NoRun}]
    /\ runs \in 0 .. MaxRuns /\ faults \in 0 .. MaxFaults
    /\ apart \in BOOLEAN

(* Before the frontend is deleted no task has started, and a run that      *)
(* publishes has done all of them; an active run has its number.           *)
TasksOK ==
    \A d \in Deploys :
        /\ Active(d) => dep[d].run \in Runs
        /\ \A n \in DOMAIN dep[d].task :
              /\ dep[d].pc = "del" => dep[d].task[n] = "delete"
              /\ dep[d].pc = "publish" => dep[d].task[n] = "done"

RunInv == ControlOK /\ StoreOK /\ TasksOK

(* A run that is alone is the only one that is active. *)
AloneOK == \A d, e \in Deploys : d # e /\ Active(d) /\ Active(e) => ~dep[d].alone

(* Where runs are apart, the active one is alone. *)
ApartOK == apart => \A d \in Deploys : Active(d) => dep[d].alone

Done(d) == {n \in DOMAIN dep[d].task : dep[d].task[n] = "done"}

(* The list is the work of run d: it holds instances whose tasks have come *)
(* to their RPUSH, with the imposters of the run, and those of all tasks   *)
(* that are done; nothing is in it twice unless a command was sent again.  *)
OwnWork(d) ==
    /\ \A m \in DOMAIN list : \E n \in DOMAIN dep[d].task :
          /\ list[m] = dep[d].target[n] /\ imposter[dep[d].target[n]] = dep[d].run
          /\ dep[d].task[n] \in {"rpush", "done", "failed"}
    /\ \A n \in Done(d) : \E m \in DOMAIN list : list[m] = dep[d].target[n]
    /\ \A n \in DOMAIN dep[d].task :
          dep[d].task[n] \in {"lrem", "rpush", "done"} => imposter[dep[d].target[n]] = dep[d].run
    /\ ~dep[d].hurt => Len(list) = Cardinality(Done(d))

WorkOK == \A d \in Deploys : dep[d].alone /\ dep[d].pc \in {"tasks", "publish"} => OwnWork(d)

DeployInv == RunInv /\ AloneOK /\ ApartOK /\ WorkOK /\ ListedIsDeployed

-----------------------------------------------------------------------------
(* The tasks of a run.                                                     *)

(* A run deploys to instances, one for each task. *)
LEMMA Targets ==
    ASSUME ControlOK, NEW d \in Deploys
    PROVE  /\ DOMAIN dep[d].task = 1 .. Len(dep[d].target) /\ Len(dep[d].target) \in Nat
           /\ DOMAIN dep[d].task = DOMAIN dep[d].target
           /\ \A n \in DOMAIN dep[d].task :
                 dep[d].target[n] \in Instances /\ dep[d].task[n] \in TaskStates
           /\ PoolsAreClean =>
                 \A m, n \in DOMAIN dep[d].task : dep[d].target[m] = dep[d].target[n] => m = n
<1>1. /\ dep[d].target \in Pools \cup {<<>>} /\ dep[d].task \in Seq(TaskStates)
      /\ Len(dep[d].task) = Len(dep[d].target)
  BY DEF ControlOK, RunType
<1>2. dep[d].target \in Seq(Instances)
  <2>1. <<>> \in Seq(Instances)
    OBVIOUS
  <2> QED
    BY <1>1, <2>1, PoolsOfInstances
<1>3. /\ DOMAIN dep[d].task = 1 .. Len(dep[d].task) /\ DOMAIN dep[d].target = 1 .. Len(dep[d].target)
      /\ Len(dep[d].target) \in Nat
  BY <1>1, <1>2
<1>4. \A n \in DOMAIN dep[d].task : dep[d].target[n] \in Instances /\ dep[d].task[n] \in TaskStates
  BY <1>1, <1>2, <1>3
<1>5. ASSUME PoolsAreClean
      PROVE  \A m, n \in DOMAIN dep[d].task : dep[d].target[m] = dep[d].target[n] => m = n
  <2>1. CASE dep[d].target \in Pools
    BY <1>1, <1>3, <1>5, <2>1 DEF PoolsAreClean
  <2>2. CASE dep[d].target = <<>>
    BY <1>1, <1>3, <2>2
  <2> QED
    BY <1>1, <2>1, <2>2
<1> QED
  BY <1>1, <1>3, <1>4, <1>5

(* A step of the n-th task of run d leaves the other tasks and runs alone. *)
LEMMA TaskMoves ==
    ASSUME ControlOK, NEW d \in Deploys, NEW n \in DOMAIN dep[d].task, NEW to \in TaskStates,
           Task(d, n, to) \/ HurtTask(d, n, to)
    PROVE  /\ ControlOK'
           /\ \A e \in Deploys : e # d => dep'[e] = dep[e]
           /\ dep'[d].pc = dep[d].pc /\ dep'[d].target = dep[d].target
           /\ dep'[d].run = dep[d].run /\ dep'[d].alone = dep[d].alone
           /\ dep[d].hurt => dep'[d].hurt
           /\ HurtTask(d, n, to) => dep'[d].hurt
           /\ DOMAIN dep'[d].task = DOMAIN dep[d].task
           /\ dep'[d].task[n] = to
           /\ \A m \in DOMAIN dep[d].task : m # n => dep'[d].task[m] = dep[d].task[m]
<1>1. dep \in [Deploys -> RunType] /\ \A e \in Deploys : Len(dep[e].task) = Len(dep[e].target)
  BY DEF ControlOK
<1> DEFINE task == [dep[d].task EXCEPT ![n] = to]
<1>2. /\ task \in Seq(TaskStates) /\ Len(task) = Len(dep[d].task) /\ DOMAIN task = DOMAIN dep[d].task
      /\ task[n] = to /\ \A m \in DOMAIN dep[d].task : m # n => task[m] = dep[d].task[m]
  <2>1. dep[d].task \in Seq(TaskStates)
    BY <1>1 DEF RunType
  <2> QED
    BY <2>1
<1>3. PICK h \in {dep[d].hurt, TRUE} :
         /\ dep' = [dep EXCEPT ![d] = [dep[d] EXCEPT !.task = task, !.hurt = h]]
         /\ HurtTask(d, n, to) => h = TRUE
  <2>1. CASE HurtTask(d, n, to)
    <3>1. dep' = [dep EXCEPT ![d] = [dep[d] EXCEPT !.task = task, !.hurt = TRUE]]
      BY <1>1, <2>1 DEF HurtTask
    <3> QED
      BY <3>1
  <2>2. CASE Task(d, n, to) /\ ~HurtTask(d, n, to)
    <3>1. dep' = [dep EXCEPT ![d] = [dep[d] EXCEPT !.task = task]]
      BY <1>1, <2>2 DEF Task
    <3>2. [dep[d] EXCEPT !.task = task] = [dep[d] EXCEPT !.task = task, !.hurt = dep[d].hurt]
      BY <1>1 DEF RunType
    <3> QED
      BY <2>2, <3>1, <3>2
  <2> QED
    BY <2>1, <2>2
<1> HIDE DEF task
<1>4. /\ \A e \in Deploys : e # d => dep'[e] = dep[e]
      /\ dep'[d] = [dep[d] EXCEPT !.task = task, !.hurt = h]
  BY <1>1, <1>3
<1>5. /\ dep'[d].pc = dep[d].pc /\ dep'[d].target = dep[d].target /\ dep'[d].task = task
      /\ dep'[d].run = dep[d].run /\ dep'[d].alone = dep[d].alone /\ dep'[d].hurt = h
      /\ dep'[d] \in RunType
  BY <1>1, <1>2, <1>3, <1>4 DEF RunType
<1>6. dep' \in [Deploys -> RunType]
  <2>1. dep' = [e \in Deploys |-> dep'[e]]
    BY <1>1, <1>3
  <2> QED
    BY <1>1, <1>4, <1>5, <2>1
<1>7. ControlOK'
  BY <1>1, <1>2, <1>4, <1>5, <1>6 DEF ControlOK
<1> QED
  BY <1>2, <1>3, <1>4, <1>5, <1>7

(* A run ends, or fails, and leaves the others alone. *)
Stops(d) ==
    \E r \in RunType :
        /\ r.pc \in {"idle", "failed"} /\ r.task = <<>> /\ r.target = <<>>
        /\ dep' = [dep EXCEPT ![d] = r]

LEMMA EndStops ==
    ASSUME ControlOK, NEW d \in Deploys
    PROVE  /\ End(d) => Stops(d)
           /\ \A h \in BOOLEAN : Report(d, h) => Stops(d)
<1>1. <<>> \in Seq(TaskStates)
  OBVIOUS
<1>2. /\ Idle \in RunType /\ Idle.pc = "idle" /\ Idle.task = <<>> /\ Idle.target = <<>>
  BY <1>1 DEF Idle, RunType, PcStates
<1>3. ASSUME NEW h \in BOOLEAN, Report(d, h)
      PROVE  Stops(d)
  <2> DEFINE r == [Idle EXCEPT !.pc = "failed", !.alone = dep[d].alone, !.hurt = h]
  <2>1. dep[d].alone \in BOOLEAN
    BY DEF ControlOK, RunType
  <2>2. r \in RunType /\ r.pc = "failed" /\ r.task = <<>> /\ r.target = <<>>
    BY <1>1, <2>1 DEF Idle, RunType, PcStates
  <2>3. dep' = [dep EXCEPT ![d] = r]
    BY <1>3 DEF Report
  <2> HIDE DEF r
  <2> QED
    BY <2>2, <2>3 DEF Stops
<1> QED
  BY <1>2, <1>3 DEF End, Stops

LEMMA StopMoves ==
    ASSUME ControlOK, NEW d \in Deploys, Stops(d)
    PROVE  /\ ControlOK'
           /\ dep'[d].pc \in {"idle", "failed"} /\ dep'[d].task = <<>>
           /\ \A e \in Deploys : e # d => dep'[e] = dep[e]
<1>1. PICK r \in RunType :
         /\ r.pc \in {"idle", "failed"} /\ r.task = <<>> /\ r.target = <<>>
         /\ dep' = [dep EXCEPT ![d] = r]
  BY DEF Stops
<1> QED
  BY <1>1 DEF ControlOK

(* So does a run that goes on to its next part. *)
LEMMA PartMoves ==
    ASSUME ControlOK, NEW d \in Deploys, NEW l \in PcStates,
           dep' = [dep EXCEPT ![d].pc = l]
    PROVE  /\ ControlOK'
           /\ dep'[d].pc = l /\ dep'[d].task = dep[d].task /\ dep'[d].target = dep[d].target
           /\ dep'[d].run = dep[d].run /\ dep'[d].alone = dep[d].alone /\ dep'[d].hurt = dep[d].hurt
           /\ \A e \in Deploys : e # d => dep'[e] = dep[e]
<1>1. dep \in [Deploys -> RunType] /\ \A e \in Deploys : Len(dep[e].task) = Len(dep[e].target)
  BY DEF ControlOK
<1>2. /\ \A e \in Deploys : e # d => dep'[e] = dep[e]
      /\ dep'[d] = [dep[d] EXCEPT !.pc = l]
  BY <1>1
<1>3. /\ dep'[d].pc = l /\ dep'[d].task = dep[d].task /\ dep'[d].target = dep[d].target
      /\ dep'[d].run = dep[d].run /\ dep'[d].alone = dep[d].alone /\ dep'[d].hurt = dep[d].hurt
      /\ dep'[d] \in RunType
  BY <1>1, <1>2 DEF RunType
<1>4. dep' \in [Deploys -> RunType]
  <2>1. dep' = [e \in Deploys |-> dep'[e]]
    BY <1>1
  <2> QED
    BY <1>1, <1>2, <1>3, <2>1
<1> QED
  BY <1>1, <1>2, <1>3, <1>4 DEF ControlOK

-----------------------------------------------------------------------------
(* Types and the order of a run, whatever the pools.                       *)

(* One step of the n-th task, with what it does to the stores. *)
TaskStep(d, n, to) ==
    /\ dep[d].pc = "tasks" /\ dep[d].task[n] \in TaskStates \ {"done", "failed"}
    /\ Task(d, n, to) \/ HurtTask(d, n, to)
    /\ to \in TaskStates
    /\ UNCHANGED <<runs, apart>>

(* The steps of a task are such steps. *)
LEMMA TaskSteps ==
    ASSUME NEW d \in Deploys, NEW n \in DOMAIN dep[d].task
    PROVE  /\ Delete(d, n) => TaskStep(d, n, "post")
           /\ Post(d, n) => TaskStep(d, n, "lrem") \/ TaskStep(d, n, "failed")
           /\ LRem(d, n) => TaskStep(d, n, "rpush")
           /\ RPush(d, n) => TaskStep(d, n, "done") \/ TaskStep(d, n, "rpush") \/ TaskStep(d, n, "failed")
           /\ TaskFails(d, n) => TaskStep(d, n, "failed")
BY DEF Delete, Post, LRem, RPush, TaskFails, AtTask, TaskStep, TaskStates

(* The stores keep their types in a step of a task, ... *)
LEMMA TaskStoreOK ==
    ASSUME RunInv, NEW d \in Deploys, NEW n \in DOMAIN dep[d].task,
           Delete(d, n) \/ Post(d, n) \/ LRem(d, n) \/ RPush(d, n) \/ TaskFails(d, n)
    PROVE  StoreOK'
<1>1. dep[d].target[n] \in Instances
  BY Targets DEF RunInv
<1>2. StoreOK
  BY DEF RunInv
<1>3. PICK to \in TaskStates : TaskStep(d, n, to)
  BY TaskSteps DEF TaskStates
<1>4. faults' \in 0 .. MaxFaults /\ runs' \in 0 .. MaxRuns /\ apart' \in BOOLEAN
  BY <1>2, <1>3, BoundsAreNumbers DEF StoreOK, TaskStep, Task, HurtTask, Fault
<1>5. CASE Delete(d, n)
  BY <1>1, <1>2, <1>4, <1>5 DEF StoreOK, Delete, Deleted
<1>6. CASE Post(d, n)
  <2>1. dep[d].run \in Runs
    BY <1>6 DEF Post, AtTask, RunInv, TasksOK, Active, ActiveStates
  <2> QED
    BY <1>1, <1>2, <1>4, <1>6, <2>1 DEF StoreOK, Post
<1>7. CASE LRem(d, n)
  <2>1. Without(list, dep[d].target[n]) \in Seq(Instances)
    BY <1>2, WithoutCopies DEF StoreOK
  <2> QED
    BY <1>2, <1>4, <1>7, <2>1 DEF StoreOK, LRem, Endpoint
<1>8. CASE RPush(d, n)
  <2>1. Append(list, dep[d].target[n]) \in Seq(Instances)
    BY <1>1, <1>2, AppendCopies DEF StoreOK
  <2> QED
    BY <1>2, <1>4, <1>8, <2>1 DEF StoreOK, RPush, Endpoint
<1>9. CASE TaskFails(d, n)
  BY <1>2, <1>4, <1>9 DEF StoreOK, TaskFails
<1> QED
  BY <1>5, <1>6, <1>7, <1>8, <1>9

(* ... and the order of a run is kept. *)
LEMMA TaskRunOK ==
    ASSUME RunInv, NEW d \in Deploys, NEW n \in DOMAIN dep[d].task,
           Delete(d, n) \/ Post(d, n) \/ LRem(d, n) \/ RPush(d, n) \/ TaskFails(d, n)
    PROVE  RunInv'
<1>1. PICK to \in TaskStates : TaskStep(d, n, to)
  BY TaskSteps DEF TaskStates
<1>2. ControlOK /\ TasksOK
  BY DEF RunInv
<1>3. /\ ControlOK' /\ \A e \in Deploys : e # d => dep'[e] = dep[e]
      /\ dep[d].pc = "tasks" /\ dep'[d].pc = "tasks" /\ dep'[d].run = dep[d].run
  BY <1>1, <1>2, TaskMoves DEF TaskStep
<1>4. TasksOK'
  BY <1>2, <1>3 DEF TasksOK, Active, ActiveStates
<1> QED
  BY <1>3, <1>4, TaskStoreOK DEF RunInv

(* The first state: nothing listed, no run. *)
LEMMA RunInit == Init => RunInv
<1> SUFFICES ASSUME Init
             PROVE  RunInv
  OBVIOUS
<1>1. Idle \in RunType /\ Idle.task = <<>> /\ Idle.target = <<>> /\ Idle.pc = "idle"
  BY DEF Idle, RunType, PcStates
<1>2. ControlOK
  BY <1>1 DEF Init, ControlOK
<1>3. TasksOK
  BY <1>1 DEF Init, TasksOK, Active, ActiveStates
<1>4. StoreOK
  <2>1. <<>> \in Seq(Instances)
    OBVIOUS
  <2>2. 0 \in 0 .. MaxRuns /\ 0 \in 0 .. MaxFaults
    BY BoundsAreNumbers
  <2>3. list \in Seq(Instances)
    BY <2>1 DEF Init
  <2> QED
    BY <2>2, <2>3 DEF Init, StoreOK
<1> QED
  BY <1>2, <1>3, <1>4 DEF RunInv

(* A run starts with all its tasks before it; it is alone if no other is   *)
(* active, and those that are active are alone no more.                    *)
LEMMA StartMoves ==
    ASSUME ControlOK, runs \in 0 .. MaxRuns, NEW d \in Deploys, Start(d)
    PROVE  /\ ControlOK'
           /\ dep'[d].pc = "del" /\ \A n \in DOMAIN dep'[d].task : dep'[d].task[n] = "delete"
           /\ dep'[d].run \in Runs /\ ~Active(d)
           /\ dep'[d].alone = \A x \in Deploys : ~Active(x)
           /\ \A e \in Deploys : e # d =>
                 /\ dep'[e].pc = dep[e].pc /\ dep'[e].task = dep[e].task /\ dep'[e].run = dep[e].run
                 /\ dep'[e].alone = (dep[e].alone /\ ~Active(e))
<1> DEFINE task(t) == [n \in DOMAIN t |-> "delete"]
<1> DEFINE new(t) == [pc |-> "del", run |-> runs', target |-> t, task |-> task(t),
                      alone |-> \A x \in Deploys : ~Active(x), hurt |-> FALSE]
<1>1. PICK t \in Pools \ {<<>>} :
         dep' = [e \in Deploys |-> IF e = d THEN new(t) ELSE [dep[e] EXCEPT !.alone = @ /\ ~Active(e)]]
  BY DEF Start
<1>2. t \in Seq(Instances)
  BY PoolsOfInstances
<1>3. runs' \in Runs
  BY BoundsAreNumbers DEF Start, Runs
<1>4. /\ task(t) \in Seq(TaskStates) /\ Len(task(t)) = Len(t)
      /\ \A n \in DOMAIN task(t) : task(t)[n] = "delete"
  <2>1. DOMAIN t = 1 .. Len(t) /\ Len(t) \in Nat /\ "delete" \in TaskStates
    BY <1>2 DEF TaskStates
  <2> QED
    BY <2>1
<1> HIDE DEF task
<1>5. new(t) \in RunType /\ new(t).pc = "del" /\ new(t).task = task(t) /\ new(t).target = t
      /\ new(t).run \in Runs /\ new(t).alone = \A x \in Deploys : ~Active(x)
  BY <1>1, <1>3, <1>4 DEF RunType, PcStates
<1> HIDE DEF new
<1>6. dep'[d] = new(t)
  BY <1>1
<1>7. ASSUME NEW e \in Deploys, e # d
      PROVE  /\ dep'[e] \in RunType
             /\ dep'[e].pc = dep[e].pc /\ dep'[e].task = dep[e].task /\ dep'[e].run = dep[e].run
             /\ dep'[e].target = dep[e].target
             /\ dep'[e].alone = (dep[e].alone /\ ~Active(e))
  <2>1. dep'[e] = [dep[e] EXCEPT !.alone = @ /\ ~Active(e)] /\ dep[e] \in RunType
    BY <1>1, <1>7 DEF ControlOK
  <2> QED
    BY <2>1 DEF RunType
<1>8. ControlOK'
  <2>1. dep' \in [Deploys -> RunType]
    BY <1>1, <1>5, <1>6, <1>7
  <2>2. \A e \in Deploys : Len(dep'[e].task) = Len(dep'[e].target)
    BY <1>4, <1>5, <1>6, <1>7 DEF ControlOK
  <2> QED
    BY <2>1, <2>2 DEF ControlOK
<1>9. ~Active(d)
  BY DEF Start, Active, ActiveStates
<1> QED
  BY <1>4, <1>5, <1>6, <1>7, <1>8, <1>9

(* Every step keeps types and order. *)
LEMMA RunStep == RunInv /\ [Next]_vars => RunInv'
<1> SUFFICES ASSUME RunInv, [Next]_vars
             PROVE  RunInv'
  OBVIOUS
<1>1. ControlOK /\ StoreOK /\ TasksOK
  BY DEF RunInv
<1>2. ASSUME NEW d \in Deploys, Start(d)
      PROVE  RunInv'
  <2>1. StoreOK'
    <3>1. runs' \in 0 .. MaxRuns /\ apart' \in BOOLEAN /\ UNCHANGED <<list, imposter, faults>>
      BY <1>1, <1>2, BoundsAreNumbers DEF StoreOK, Start
    <3> QED
      BY <1>1, <3>1 DEF StoreOK
  <2>2. TasksOK'
    <3>1. runs \in 0 .. MaxRuns
      BY <1>1 DEF StoreOK
    <3>2. /\ dep'[d].pc = "del" /\ \A n \in DOMAIN dep'[d].task : dep'[d].task[n] = "delete"
          /\ dep'[d].run \in Runs
          /\ \A e \in Deploys : e # d =>
                /\ dep'[e].pc = dep[e].pc /\ dep'[e].task = dep[e].task /\ dep'[e].run = dep[e].run
      BY <1>1, <1>2, <3>1, StartMoves
    <3> QED
      BY <1>1, <3>2 DEF TasksOK, Active
  <2> QED
    BY <1>1, <1>2, <2>1, <2>2, StartMoves DEF RunInv, StoreOK
<1>3. ASSUME NEW d \in Deploys, Del(d)
      PROVE  RunInv'
  <2>1. /\ dep' = [dep EXCEPT ![d].pc = "tasks"] /\ list' = <<>> /\ UNCHANGED <<imposter, runs, faults>>
        /\ dep[d].pc = "del" /\ apart' = (apart \/ dep[d].alone)
    BY <1>3 DEF Del, Cleared
  <2>2. StoreOK'
    <3>1. <<>> \in Seq(Instances)
      OBVIOUS
    <3>2. apart' \in BOOLEAN
      BY <2>1
    <3> QED
      BY <1>1, <2>1, <3>1, <3>2 DEF StoreOK
  <2>3. ControlOK' /\ dep'[d].pc = "tasks" /\ dep'[d].run = dep[d].run
        /\ \A e \in Deploys : e # d => dep'[e] = dep[e]
    BY <1>1, <2>1, PartMoves DEF PcStates
  <2>4. TasksOK'
    BY <1>1, <2>1, <2>3 DEF TasksOK, Active, ActiveStates
  <2> QED
    BY <2>2, <2>3, <2>4 DEF RunInv
<1>4. ASSUME NEW d \in Deploys, NEW n \in DOMAIN dep[d].task,
             Delete(d, n) \/ Post(d, n) \/ LRem(d, n) \/ RPush(d, n) \/ TaskFails(d, n)
      PROVE  RunInv'
  BY <1>4, TaskRunOK
<1>5. ASSUME NEW d \in Deploys, Stops(d), StoreOK'
      PROVE  RunInv'
  <2>1. /\ ControlOK' /\ dep'[d].pc \in {"idle", "failed"}
        /\ \A e \in Deploys : e # d => dep'[e] = dep[e]
    BY <1>1, <1>5, StopMoves
  <2>2. TasksOK'
    BY <1>1, <2>1 DEF TasksOK, Active, ActiveStates
  <2> QED
    BY <1>5, <2>1, <2>2 DEF RunInv
<1>6. ASSUME NEW d \in Deploys, StartFails(d)
      PROVE  RunInv'
  <2>1. StoreOK'
    <3>1. runs' \in 0 .. MaxRuns /\ UNCHANGED <<list, imposter, faults, apart>>
      BY <1>1, <1>6, BoundsAreNumbers DEF StoreOK, StartFails
    <3> QED
      BY <1>1, <3>1 DEF StoreOK
  <2>2. Stops(d)
    BY <1>1, <1>6, EndStops DEF StartFails
  <2> QED
    BY <1>5, <2>1, <2>2
<1>7. ASSUME NEW d \in Deploys, Settle(d)
      PROVE  RunInv'
  <2>1. StoreOK'
    BY <1>1, <1>7 DEF Settle, StoreOK
  <2>2. CASE ~Failed(d) /\ dep' = [dep EXCEPT ![d].pc = "publish"]
    <3>1. dep[d].pc = "tasks" /\ \A n \in DOMAIN dep[d].task : dep[d].task[n] = "done"
      BY <1>7, <2>2 DEF Settle, Settled, Failed, Tasks
    <3>2. /\ ControlOK' /\ dep'[d].pc = "publish" /\ dep'[d].run = dep[d].run /\ dep'[d].task = dep[d].task
          /\ \A e \in Deploys : e # d => dep'[e] = dep[e]
      BY <1>1, <2>2, PartMoves DEF PcStates
    <3>3. TasksOK'
      BY <1>1, <3>1, <3>2 DEF TasksOK, Active, ActiveStates
    <3> QED
      BY <2>1, <3>2, <3>3 DEF RunInv
  <2>3. CASE Report(d, dep[d].hurt)
    <3>1. dep[d].hurt \in BOOLEAN
      BY <1>1 DEF ControlOK, RunType
    <3> QED
      BY <1>1, <1>5, <2>1, <2>3, <3>1, EndStops
  <2> QED
    BY <1>7, <2>2, <2>3 DEF Settle
<1>8. ASSUME NEW d \in Deploys, Publish(d) \/ Kill(d)
      PROVE  RunInv'
  <2>1. faults' \in 0 .. MaxFaults
    BY <1>1, <1>8, BoundsAreNumbers DEF Publish, Kill, Fault, StoreOK
  <2>2. StoreOK'
    BY <1>1, <1>8, <2>1 DEF Publish, Kill, StoreOK
  <2>3. Stops(d)
    BY <1>1, <1>8, EndStops DEF Publish, Kill
  <2> QED
    BY <1>5, <2>2, <2>3
<1>9. ASSUME NEW d \in Deploys, CommandFails(d)
      PROVE  RunInv'
  <2>1. faults' \in 0 .. MaxFaults
    BY <1>1, <1>9, BoundsAreNumbers DEF CommandFails, Fault, StoreOK
  <2>2. list' \in Seq(Instances)
    <3>1. <<>> \in Seq(Instances)
      OBVIOUS
    <3>2. list' = list \/ list' = <<>>
      BY <1>9 DEF CommandFails, Cleared
    <3> QED
      BY <1>1, <3>1, <3>2 DEF StoreOK
  <2>3. StoreOK'
    BY <1>1, <1>9, <2>1, <2>2 DEF CommandFails, StoreOK
  <2>4. Stops(d)
    BY <1>1, <1>9, EndStops DEF CommandFails
  <2> QED
    BY <1>5, <2>3, <2>4
<1>10. CASE UNCHANGED vars
  BY <1>1, <1>10 DEF vars, RunInv, ControlOK, StoreOK, TasksOK, Active
<1> QED
  BY <1>2, <1>3, <1>4, <1>6, <1>7, <1>8, <1>9, <1>10 DEF Next, Deploy, Fails

-----------------------------------------------------------------------------
(* What the list holds while a run does its tasks.                         *)

(* A step that pushes nothing: the task does not become done, and one that *)
(* may have pushed already touches no imposter.                            *)
LEMMA WorkGoesOn ==
    ASSUME RunInv, PoolsAreClean, NEW d \in Deploys, NEW n \in DOMAIN dep[d].task, OwnWork(d),
           NEW to \in TaskStates \ {"done"}, TaskStep(d, n, to), list' = list,
           imposter \in [Instances -> Runs \cup {NoRun}],
           NEW i \in Runs \cup {NoRun}, imposter' = [imposter EXCEPT ![dep[d].target[n]] = i],
           dep[d].task[n] = "rpush" => to = "failed" /\ imposter' = imposter,
           to \in {"lrem", "rpush"} => imposter'[dep[d].target[n]] = dep[d].run
    PROVE  OwnWork(d)'
<1>1. /\ DOMAIN dep'[d].task = DOMAIN dep[d].task /\ dep'[d].target = dep[d].target
      /\ dep'[d].run = dep[d].run /\ dep'[d].task[n] = to
      /\ dep[d].hurt => dep'[d].hurt
      /\ \A m \in DOMAIN dep[d].task : m # n => dep'[d].task[m] = dep[d].task[m]
  BY TaskMoves DEF TaskStep, RunInv
<1>2. Done(d)' = Done(d)
  BY <1>1 DEF Done, TaskStep
<1>3. ASSUME NEW m \in DOMAIN dep[d].task, m # n
      PROVE  imposter'[dep[d].target[m]] = imposter[dep[d].target[m]]
  <2>1. dep[d].target[m] # dep[d].target[n] /\ dep[d].target[m] \in Instances
    BY <1>3, Targets DEF RunInv
  <2> QED
    BY <2>1
<1>4. ASSUME NEW m \in DOMAIN list
      PROVE  \E k \in DOMAIN dep[d].task :
                /\ list[m] = dep[d].target[k] /\ imposter'[dep[d].target[k]] = dep[d].run
                /\ dep'[d].task[k] \in {"rpush", "done", "failed"}
  <2>1. PICK k \in DOMAIN dep[d].task :
           /\ list[m] = dep[d].target[k] /\ imposter[dep[d].target[k]] = dep[d].run
           /\ dep[d].task[k] \in {"rpush", "done", "failed"}
    BY DEF OwnWork
  <2>2. CASE k = n
    BY <1>1, <2>1, <2>2 DEF TaskStep
  <2>3. CASE k # n
    BY <1>1, <1>3, <2>1, <2>3
  <2> QED
    BY <2>2, <2>3
<1>5. ASSUME NEW m \in DOMAIN dep[d].task, dep'[d].task[m] \in {"lrem", "rpush", "done"}
      PROVE  imposter'[dep[d].target[m]] = dep[d].run
  <2>1. CASE m = n
    BY <1>1, <1>5, <2>1
  <2>2. CASE m # n
    BY <1>1, <1>3, <1>5, <2>2 DEF OwnWork
  <2> QED
    BY <2>1, <2>2
<1>6. \A k \in Done(d)' : \E m \in DOMAIN list' : list'[m] = dep'[d].target[k]
  BY <1>1, <1>2 DEF OwnWork
<1>7. ~dep'[d].hurt => Len(list') = Cardinality(Done(d)')
  BY <1>1, <1>2 DEF OwnWork
<1> QED
  BY <1>1, <1>4, <1>5, <1>6, <1>7 DEF OwnWork

(* RPUSH adds the instance of its task, once if it is not sent again. *)
LEMMA WorkAdvances ==
    ASSUME RunInv, NEW d \in Deploys, NEW n \in DOMAIN dep[d].task, OwnWork(d), RPush(d, n)
    PROVE  OwnWork(d)'
<1>1. /\ dep[d].task[n] = "rpush" /\ list' = Append(list, dep[d].target[n]) /\ imposter' = imposter
  BY DEF RPush, AtTask, Endpoint
<1>2. PICK to \in {"done", "rpush", "failed"} :
         /\ Task(d, n, to) \/ HurtTask(d, n, to)
         /\ to # "done" => HurtTask(d, n, to)
  BY DEF RPush
<1>3. to \in TaskStates /\ ControlOK
  BY DEF TaskStates, RunInv
<1>4. /\ DOMAIN dep'[d].task = DOMAIN dep[d].task /\ dep'[d].target = dep[d].target
      /\ dep'[d].run = dep[d].run /\ dep'[d].task[n] = to
      /\ dep[d].hurt => dep'[d].hurt
      /\ to # "done" => dep'[d].hurt
      /\ \A m \in DOMAIN dep[d].task : m # n => dep'[d].task[m] = dep[d].task[m]
  BY <1>2, <1>3, TaskMoves
<1>5. list \in Seq(Instances) /\ dep[d].target[n] \in Instances
  BY Targets DEF RunInv, StoreOK
<1>6. /\ DOMAIN list' = DOMAIN list \cup {Len(list) + 1} /\ list'[Len(list) + 1] = dep[d].target[n]
      /\ \A m \in DOMAIN list : list'[m] = list[m]
  BY <1>1, <1>5
<1>7. ASSUME NEW m \in DOMAIN list'
      PROVE  \E k \in DOMAIN dep[d].task :
                /\ list'[m] = dep[d].target[k] /\ imposter[dep[d].target[k]] = dep[d].run
                /\ dep'[d].task[k] \in {"rpush", "done", "failed"}
  <2>1. CASE m \in DOMAIN list
    <3>1. PICK k \in DOMAIN dep[d].task :
             /\ list[m] = dep[d].target[k] /\ imposter[dep[d].target[k]] = dep[d].run
             /\ dep[d].task[k] \in {"rpush", "done", "failed"}
      BY <2>1 DEF OwnWork
    <3> QED
      BY <1>4, <1>6, <2>1, <3>1
  <2>2. CASE m = Len(list) + 1
    BY <1>1, <1>4, <1>6, <2>2 DEF OwnWork
  <2> QED
    BY <1>6, <2>1, <2>2
<1>8. ASSUME NEW k \in Done(d)'
      PROVE  \E m \in DOMAIN list' : list'[m] = dep[d].target[k]
  <2>1. CASE k = n
    BY <1>6, <2>1
  <2>2. CASE k # n
    <3>1. k \in Done(d)
      BY <1>4, <1>8, <2>2 DEF Done
    <3>2. PICK m \in DOMAIN list : list[m] = dep[d].target[k]
      BY <3>1 DEF OwnWork
    <3> QED
      BY <1>6, <3>2
  <2> QED
    BY <2>1, <2>2
<1>9. \A m \in DOMAIN dep[d].task :
         dep'[d].task[m] \in {"lrem", "rpush", "done"} => imposter[dep[d].target[m]] = dep[d].run
  BY <1>1, <1>4 DEF OwnWork
<1>10. ASSUME ~dep'[d].hurt
       PROVE  Len(list') = Cardinality(Done(d)')
  <2>1. IsFiniteSet(Done(d))
    <3>1. DOMAIN dep[d].task = 1 .. Len(dep[d].target) /\ Len(dep[d].target) \in Nat
      BY <1>3, Targets
    <3>2. IsFiniteSet(1 .. Len(dep[d].target))
      BY <3>1, FS_Interval
    <3>3. Done(d) \subseteq 1 .. Len(dep[d].target)
      BY <3>1 DEF Done
    <3> QED
      BY <3>2, <3>3, FS_Subset
  <2>2. to = "done" /\ ~dep[d].hurt
    BY <1>4, <1>10
  <2>3. Done(d)' = Done(d) \cup {n} /\ n \notin Done(d)
    BY <1>1, <1>4, <2>2 DEF Done
  <2>4. Cardinality(Done(d)') = Cardinality(Done(d)) + 1
    BY <2>1, <2>3, FS_AddElement
  <2>5. Len(list') = Len(list) + 1
    BY <1>1, <1>5
  <2> QED
    BY <2>2, <2>4, <2>5 DEF OwnWork
<1> QED
  BY <1>1, <1>4, <1>7, <1>8, <1>9, <1>10 DEF OwnWork

(* Each step of a task keeps the list the work of its run. *)
LEMMA TaskWork ==
    ASSUME RunInv, PoolsAreClean, NEW d \in Deploys, NEW n \in DOMAIN dep[d].task, OwnWork(d),
           Delete(d, n) \/ Post(d, n) \/ LRem(d, n) \/ RPush(d, n) \/ TaskFails(d, n)
    PROVE  OwnWork(d)'
<1> DEFINE i == dep[d].target[n]
<1>1. /\ {"post", "lrem", "rpush", "failed"} \subseteq TaskStates \ {"done"}
      /\ i \in Instances /\ imposter \in [Instances -> Runs \cup {NoRun}]
      /\ list \in Seq(Instances) /\ NoRun \in Runs \cup {NoRun}
      /\ imposter[i] \in Runs \cup {NoRun} /\ imposter = [imposter EXCEPT ![i] = imposter[i]]
  BY Targets DEF TaskStates, RunInv, StoreOK
<1>2. CASE Delete(d, n)
  <2>1. /\ TaskStep(d, n, "post") /\ list' = list /\ imposter' = [imposter EXCEPT ![i] = NoRun]
        /\ dep[d].task[n] = "delete"
    BY <1>2, TaskSteps DEF Delete, Deleted, AtTask
  <2> QED
    BY <1>1, <2>1, WorkGoesOn
<1>3. CASE Post(d, n)
  <2>1. dep[d].task[n] = "post" /\ dep[d].run \in Runs
    BY <1>3 DEF Post, AtTask, RunInv, TasksOK, Active, ActiveStates
  <2>2. CASE Task(d, n, "lrem") /\ imposter' = [imposter EXCEPT ![i] = dep[d].run]
    <3>1. TaskStep(d, n, "lrem") /\ list' = list
      BY <1>3, <2>2 DEF Post, AtTask, TaskStep, TaskStates
    <3>2. imposter'[i] = dep[d].run
      BY <1>1, <2>2
    <3> QED
      BY <1>1, <2>1, <2>2, <3>1, <3>2, WorkGoesOn
  <2>3. CASE Task(d, n, "failed") /\ imposter' = imposter
    <3>1. TaskStep(d, n, "failed") /\ list' = list
      BY <1>3, <2>3 DEF Post, AtTask, TaskStep, TaskStates
    <3>2. imposter' = [imposter EXCEPT ![i] = imposter[i]] /\ imposter[i] \in Runs \cup {NoRun}
      BY <1>1, <2>3
    <3>3. "failed" \in TaskStates \ {"done"} /\ "failed" \notin {"lrem", "rpush"}
      BY <1>1
    <3> QED
      BY <1>1, <2>1, <2>3, <3>1, <3>2, <3>3, WorkGoesOn
  <2> QED
    BY <1>3, <2>2, <2>3 DEF Post
<1>4. CASE LRem(d, n)
  <2>1. /\ TaskStep(d, n, "rpush") /\ list' = Without(list, i) /\ imposter' = imposter
        /\ dep[d].task[n] = "lrem"
    BY <1>4, TaskSteps DEF LRem, Endpoint, AtTask
  <2>2. \A m \in 1 .. Len(list) : list[m] # i
    <3> SUFFICES ASSUME NEW m \in 1 .. Len(list), list[m] = i
                 PROVE  FALSE
      OBVIOUS
    <3>1. m \in DOMAIN list
      BY <1>1
    <3>2. PICK x \in DOMAIN dep[d].task :
             i = dep[d].target[x] /\ dep[d].task[x] \in {"rpush", "done", "failed"}
      BY <3>1 DEF OwnWork
    <3>3. x = n
      BY <3>2, Targets DEF RunInv
    <3> QED
      BY <2>1, <3>2, <3>3
  <2>3. list' = list
    BY <1>1, <2>1, <2>2, WithoutAbsent
  <2>4. imposter[i] = dep[d].run
    BY <2>1 DEF OwnWork
  <2> QED
    BY <1>1, <2>1, <2>3, <2>4, WorkGoesOn
<1>5. CASE RPush(d, n)
  BY <1>5, WorkAdvances
<1>6. CASE TaskFails(d, n)
  <2>1. TaskStep(d, n, "failed") /\ list' = list /\ imposter' = imposter
    BY <1>6, TaskSteps DEF TaskFails
  <2> QED
    BY <1>1, <2>1, WorkGoesOn
<1> QED
  BY <1>2, <1>3, <1>4, <1>5, <1>6

-----------------------------------------------------------------------------
(* Who is active, and alone.                                               *)

(* A run that starts ends the loneliness of the others. *)
LEMMA StartAlone ==
    ASSUME RunInv, AloneOK, ApartOK, NEW d \in Deploys, Start(d)
    PROVE  AloneOK' /\ ApartOK'
<1>1. /\ dep'[d].alone = \A x \in Deploys : ~Active(x)
      /\ \A e \in Deploys : e # d =>
            dep'[e].pc = dep[e].pc /\ dep'[e].alone = (dep[e].alone /\ ~Active(e))
      /\ ~Active(d)
  BY StartMoves DEF RunInv, StoreOK
<1>2. \A e \in Deploys : e # d => (Active(e)' <=> Active(e))
  BY <1>1 DEF Active
<1>3. AloneOK'
  <2> SUFFICES ASSUME NEW e \in Deploys, NEW f \in Deploys, e # f, Active(e)', Active(f)'
               PROVE  ~dep'[e].alone
    BY DEF AloneOK
  <2>1. CASE e = d
    BY <1>1, <1>2, <2>1
  <2>2. CASE e # d
    BY <1>1, <1>2, <2>2
  <2> QED
    BY <2>1, <2>2
<1>4. ApartOK'
  <2> SUFFICES ASSUME apart', NEW e \in Deploys, Active(e)'
               PROVE  dep'[e].alone
    BY DEF ApartOK
  <2>1. \A x \in Deploys : ~Active(x)
    BY DEF Start
  <2> QED
    BY <1>1, <1>2, <2>1
<1> QED
  BY <1>3, <1>4

(* Every other step leaves it to the runs that are active to be so no more.*)
LEMMA StepAlone ==
    ASSUME AloneOK, ApartOK, NEW d \in Deploys,
           \A e \in Deploys : e # d => dep'[e] = dep[e],
           Active(d)' => Active(d) /\ dep'[d].alone = dep[d].alone,
           apart' => apart \/ (Active(d) /\ dep[d].alone)
    PROVE  AloneOK' /\ ApartOK'
<1>1. \A e \in Deploys : Active(e)' => Active(e) /\ dep'[e].alone = dep[e].alone
  BY DEF Active
<1>2. AloneOK'
  BY <1>1 DEF AloneOK
<1>3. ApartOK'
  BY <1>1 DEF AloneOK, ApartOK
<1> QED
  BY <1>2, <1>3

(* The work of a lone run is its own: no other run can take a step in it.  *)
LEMMA OthersWork ==
    ASSUME AloneOK, WorkOK, NEW d \in Deploys, Active(d),
           \A e \in Deploys : e # d => dep'[e] = dep[e],
           dep'[d].alone /\ dep'[d].pc \in {"tasks", "publish"} => OwnWork(d)'
    PROVE  WorkOK'
<1> SUFFICES ASSUME NEW e \in Deploys, dep'[e].alone, dep'[e].pc \in {"tasks", "publish"}
             PROVE  OwnWork(e)'
  BY DEF WorkOK
<1>1. CASE e = d
  BY <1>1
<1>2. CASE e # d
  <2>1. Active(e) /\ dep[e].alone
    BY <1>2 DEF Active, ActiveStates
  <2> QED
    BY <1>2, <2>1 DEF AloneOK
<1> QED
  BY <1>1, <1>2

(* A run that stops leaves the lists as they are, or stops before its work.*)
LEMMA StopWork ==
    ASSUME DeployInv, NEW d \in Deploys, Stops(d), UNCHANGED <<imposter, apart>>,
           list' = list \/ (Active(d) /\ list' = <<>>)
    PROVE  AloneOK' /\ ApartOK' /\ WorkOK' /\ ListedIsDeployed'
<1>1. ControlOK /\ AloneOK /\ ApartOK /\ WorkOK /\ ListedIsDeployed
  BY DEF DeployInv, RunInv
<1>2. /\ dep'[d].pc \in {"idle", "failed"} /\ dep'[d].task = <<>>
      /\ \A e \in Deploys : e # d => dep'[e] = dep[e]
  BY <1>1, StopMoves
<1>3. ~Active(d)'
  BY <1>2 DEF Active, ActiveStates
<1>4. AloneOK' /\ ApartOK'
  BY <1>1, <1>2, <1>3, StepAlone
<1>5. WorkOK'
  <2>1. CASE Active(d)
    BY <1>1, <1>2, <2>1, OthersWork
  <2>2. CASE ~Active(d)
    <3> SUFFICES ASSUME NEW e \in Deploys, dep'[e].alone, dep'[e].pc \in {"tasks", "publish"}
                 PROVE  OwnWork(e)'
      BY DEF WorkOK
    <3>1. e # d /\ dep'[e] = dep[e] /\ list' = list
      BY <1>2, <2>2
    <3>2. OwnWork(e) /\ Done(e)' = Done(e)
      BY <1>1, <3>1 DEF WorkOK, Done
    <3> QED
      BY <3>1, <3>2 DEF OwnWork
  <2> QED
    BY <2>1, <2>2
<1>6. ListedIsDeployed'
  BY <1>1 DEF ListedIsDeployed
<1> QED
  BY <1>4, <1>5, <1>6

(* What the list holds, step by step. *)
LEMMA DeployStep ==
    ASSUME PoolsAreClean
    PROVE  DeployInv /\ [Next]_vars => DeployInv'
<1> SUFFICES ASSUME DeployInv, [Next]_vars
             PROVE  AloneOK' /\ ApartOK' /\ WorkOK' /\ ListedIsDeployed'
  BY RunStep DEF DeployInv
<1>1. /\ RunInv /\ RunInv' /\ ControlOK /\ StoreOK /\ TasksOK
      /\ AloneOK /\ ApartOK /\ WorkOK /\ ListedIsDeployed
  BY RunStep DEF DeployInv, RunInv
<1>2. ASSUME NEW d \in Deploys, Start(d)
      PROVE  AloneOK' /\ ApartOK' /\ WorkOK' /\ ListedIsDeployed'
  <2>1. runs \in 0 .. MaxRuns /\ list' = list /\ imposter' = imposter
    BY <1>1, <1>2 DEF Start, StoreOK
  <2>2. /\ dep'[d].pc = "del"
        /\ \A e \in Deploys : e # d =>
              dep'[e].pc = dep[e].pc /\ dep'[e].alone = (dep[e].alone /\ ~Active(e))
    BY <1>1, <1>2, <2>1, StartMoves
  <2>3. WorkOK'
    BY <2>2 DEF WorkOK, Active, ActiveStates
  <2>4. ListedIsDeployed'
    BY <1>1, <1>2, <2>1 DEF ListedIsDeployed, Start
  <2> QED
    BY <1>1, <1>2, <2>3, <2>4, StartAlone
<1>3. ASSUME NEW d \in Deploys, Del(d)
      PROVE  AloneOK' /\ ApartOK' /\ WorkOK' /\ ListedIsDeployed'
  <2>1. /\ dep[d].pc = "del" /\ list' = <<>> /\ dep' = [dep EXCEPT ![d].pc = "tasks"]
        /\ apart' = (apart \/ dep[d].alone)
    BY <1>3 DEF Del, Cleared
  <2>2. Active(d)
    BY <2>1 DEF Active, ActiveStates
  <2>3. /\ dep'[d].task = dep[d].task /\ dep'[d].alone = dep[d].alone
        /\ \A e \in Deploys : e # d => dep'[e] = dep[e]
    BY <1>1, <2>1, PartMoves DEF PcStates
  <2>4. \A n \in DOMAIN dep'[d].task : dep'[d].task[n] = "delete"
    BY <1>1, <2>1, <2>3 DEF TasksOK
  <2>5. OwnWork(d)'
    <3>1. Done(d)' = {} /\ DOMAIN list' = {} /\ Len(list') = 0
      BY <2>1, <2>4 DEF Done
    <3>2. Len(list') = Cardinality(Done(d)')
      BY <3>1, FS_EmptySet
    <3> QED
      BY <2>4, <3>1, <3>2 DEF OwnWork
  <2>6. ListedIsDeployed'
    BY <2>1 DEF ListedIsDeployed
  <2>7. AloneOK' /\ ApartOK'
    BY <1>1, <2>1, <2>2, <2>3, StepAlone
  <2> QED
    BY <1>1, <2>2, <2>3, <2>5, <2>6, <2>7, OthersWork
<1>4. ASSUME NEW d \in Deploys, NEW n \in DOMAIN dep[d].task,
             Delete(d, n) \/ Post(d, n) \/ LRem(d, n) \/ RPush(d, n) \/ TaskFails(d, n)
      PROVE  AloneOK' /\ ApartOK' /\ WorkOK' /\ ListedIsDeployed'
  <2>1. PICK to \in TaskStates : TaskStep(d, n, to)
    BY <1>4, TaskSteps DEF TaskStates
  <2>2. /\ dep[d].pc = "tasks" /\ apart' = apart
        /\ dep'[d].pc = "tasks" /\ dep'[d].alone = dep[d].alone
        /\ \A e \in Deploys : e # d => dep'[e] = dep[e]
    BY <1>1, <2>1, TaskMoves DEF TaskStep
  <2>3. Active(d) /\ Active(d)'
    BY <2>2 DEF Active, ActiveStates
  <2>4. ASSUME dep[d].alone
        PROVE  OwnWork(d)'
    <3>1. OwnWork(d)
      BY <1>1, <2>2, <2>4 DEF WorkOK
    <3> QED
      BY <1>1, <1>4, <3>1, TaskWork
  <2>5. WorkOK'
    BY <1>1, <2>2, <2>3, <2>4, OthersWork
  <2>6. ListedIsDeployed'
    <3> SUFFICES ASSUME apart
                 PROVE  \A m \in DOMAIN list' : imposter'[list'[m]] # NoRun
      BY <2>2 DEF ListedIsDeployed
    <3>1. OwnWork(d)' /\ dep'[d].run \in Runs
      BY <1>1, <2>3, <2>4 DEF ApartOK, RunInv, TasksOK
    <3> QED
      BY <3>1 DEF OwnWork, Runs, NoRun
  <2>7. AloneOK' /\ ApartOK'
    BY <1>1, <2>2, <2>3, StepAlone
  <2> QED
    BY <2>5, <2>6, <2>7
<1>5. ASSUME NEW d \in Deploys, StartFails(d) \/ Publish(d) \/ Kill(d)
      PROVE  AloneOK' /\ ApartOK' /\ WorkOK' /\ ListedIsDeployed'
  BY <1>1, <1>5, EndStops, StopWork DEF StartFails, Publish, Kill
<1>6. ASSUME NEW d \in Deploys, CommandFails(d)
      PROVE  AloneOK' /\ ApartOK' /\ WorkOK' /\ ListedIsDeployed'
  <2>1. /\ Active(d) /\ UNCHANGED <<imposter, apart>>
        /\ list' = list \/ list' = <<>>
    BY <1>6 DEF CommandFails, Cleared, Active, ActiveStates
  <2>2. Stops(d)
    BY <1>1, <1>6, EndStops DEF CommandFails
  <2> QED
    BY <2>1, <2>2, StopWork
<1>7. ASSUME NEW d \in Deploys, Settle(d)
      PROVE  AloneOK' /\ ApartOK' /\ WorkOK' /\ ListedIsDeployed'
  <2>1. dep[d].pc = "tasks" /\ UNCHANGED <<list, imposter, apart>>
    BY <1>7 DEF Settle
  <2>2. CASE dep' = [dep EXCEPT ![d].pc = "publish"]
    <3>1. /\ dep'[d].task = dep[d].task /\ dep'[d].target = dep[d].target
          /\ dep'[d].run = dep[d].run /\ dep'[d].alone = dep[d].alone /\ dep'[d].hurt = dep[d].hurt
          /\ \A e \in Deploys : e # d => dep'[e] = dep[e]
      BY <1>1, <2>2, PartMoves DEF PcStates
    <3>2. Active(d)
      BY <2>1 DEF Active, ActiveStates
    <3>3. ASSUME dep[d].alone
          PROVE  OwnWork(d)'
      <4>1. OwnWork(d) /\ Done(d)' = Done(d)
        BY <1>1, <2>1, <3>1, <3>3 DEF WorkOK, Done
      <4> QED
        BY <2>1, <3>1, <4>1 DEF OwnWork
    <3>4. WorkOK'
      BY <1>1, <3>1, <3>2, <3>3, OthersWork
    <3>5. AloneOK' /\ ApartOK'
      BY <1>1, <2>1, <3>1, <3>2, StepAlone
    <3>6. ListedIsDeployed'
      BY <1>1, <2>1 DEF ListedIsDeployed
    <3> QED
      BY <3>4, <3>5, <3>6
  <2>3. CASE Report(d, dep[d].hurt)
    <3>1. dep[d].hurt \in BOOLEAN
      BY <1>1 DEF ControlOK, RunType
    <3>2. Stops(d)
      BY <1>1, <2>3, <3>1, EndStops
    <3> QED
      BY <2>1, <3>2, StopWork
  <2> QED
    BY <1>7, <2>2, <2>3 DEF Settle
<1>8. CASE UNCHANGED vars
  <2>1. list' = list /\ imposter' = imposter /\ dep' = dep /\ apart' = apart
    BY <1>8 DEF vars
  <2>2. AloneOK' /\ ApartOK' /\ ListedIsDeployed'
    BY <1>1, <2>1 DEF AloneOK, ApartOK, ListedIsDeployed, Active
  <2>3. ASSUME NEW d \in Deploys, dep'[d].alone, dep'[d].pc \in {"tasks", "publish"}
        PROVE  OwnWork(d)'
    <3>1. OwnWork(d) /\ Done(d)' = Done(d)
      BY <1>1, <2>1, <2>3 DEF WorkOK, Done
    <3> QED
      BY <2>1, <3>1 DEF OwnWork
  <2> QED
    BY <2>2, <2>3 DEF WorkOK
<1> QED
  BY <1>2, <1>3, <1>4, <1>5, <1>6, <1>7, <1>8 DEF Next, Deploy, Fails

-----------------------------------------------------------------------------
(* The tasks of a run stay the tasks of its instances; whatever the pools  *)
(* are and however runs overlap, fail or are killed, every variable has    *)
(* its type.                                                               *)
THEOREM TypeCorrect == Spec => []TypeOK
<1>1. RunInv => TypeOK
  <2> SUFFICES ASSUME RunInv
               PROVE  TypeOK
    OBVIOUS
  <2>1. ASSUME NEW d \in Deploys
        PROVE  /\ dep[d].pc \in ActiveStates \cup {"idle", "failed"}
               /\ dep[d].run \in Runs \cup {NoRun}
               /\ dep[d].target \in Pools \cup {<<>>}
               /\ dep[d].task \in [DOMAIN dep[d].target -> TaskStates]
               /\ dep[d].alone \in BOOLEAN /\ dep[d].hurt \in BOOLEAN
    <3>1. dep[d].task \in Seq(TaskStates) /\ DOMAIN dep[d].task = DOMAIN dep[d].target
      BY Targets DEF RunInv, ControlOK, RunType
    <3> QED
      BY <3>1 DEF RunInv, ControlOK, RunType, PcStates, ActiveStates
  <2> QED
    BY <2>1 DEF TypeOK, RunInv, StoreOK
<1> QED
  BY <1>1, RunInit, RunStep, PTL DEF Spec

LEMMA Invariance == ASSUME PoolsAreClean PROVE Spec => []DeployInv
<1>1. Init => DeployInv
  <2> SUFFICES ASSUME Init
               PROVE  DeployInv
    OBVIOUS
  <2>1. list = <<>> /\ \A d \in Deploys : dep[d].pc = "idle"
    BY DEF Init, Idle
  <2>2. AloneOK /\ ApartOK /\ ListedIsDeployed /\ WorkOK
    BY <2>1 DEF AloneOK, ApartOK, Active, ActiveStates, ListedIsDeployed, WorkOK
  <2> QED
    BY <2>2, RunInit DEF DeployInv
<1> QED
  BY <1>1, DeployStep, PTL DEF Spec

(* Every endpoint in the list has an imposter behind it, through failed    *)
(* requests and killed runs, for any pool without duplicates, as long as   *)
(* runs of deploy.js do not overlap and again from the first DEL of a run  *)
(* that is alone: the list goes before the first imposter, and an endpoint *)
(* comes back after its imposter.                                          *)
THEOREM ListedAreDeployed == ASSUME PoolsAreClean PROVE Spec => []ListedIsDeployed
<1>1. DeployInv => ListedIsDeployed
  BY DEF DeployInv
<1> QED
  BY <1>1, Invariance, PTL

(* A run that no other overlaps publishes a list of its instances, of all  *)
(* of them and of nothing else, with its own imposters behind them, once   *)
(* each if no command was sent again, whatever runs before it have left:   *)
(* those that overlapped, failed or were killed as well.                   *)
THEOREM PublishedAreComplete == ASSUME PoolsAreClean PROVE Spec => []PublishedIsComplete
<1>1. DeployInv => PublishedIsComplete
  <2> SUFFICES ASSUME DeployInv, NEW d \in Deploys, dep[d].pc = "publish", dep[d].alone
               PROVE  /\ {list[n] : n \in DOMAIN list} = {dep[d].target[n] : n \in DOMAIN dep[d].target}
                      /\ \A n \in DOMAIN list : imposter[list[n]] = dep[d].run
                      /\ ~dep[d].hurt => Len(list) = Len(dep[d].target)
    BY DEF PublishedIsComplete
  <2>1. OwnWork(d) /\ RunInv /\ ControlOK /\ TasksOK
    BY DEF DeployInv, WorkOK, RunInv
  <2>2. /\ DOMAIN dep[d].task = 1 .. Len(dep[d].target) /\ Len(dep[d].target) \in Nat
        /\ DOMAIN dep[d].task = DOMAIN dep[d].target
    BY <2>1, Targets
  <2>3. Done(d) = DOMAIN dep[d].task
    <3>1. \A n \in DOMAIN dep[d].task : dep[d].task[n] = "done"
      BY <2>1 DEF TasksOK
    <3> QED
      BY <3>1 DEF Done
  <2>4. {list[n] : n \in DOMAIN list} = {dep[d].target[n] : n \in DOMAIN dep[d].target}
    <3>1. \A m \in DOMAIN list : \E n \in DOMAIN dep[d].target : list[m] = dep[d].target[n]
      BY <2>1, <2>2 DEF OwnWork
    <3>2. \A n \in DOMAIN dep[d].target : \E m \in DOMAIN list : list[m] = dep[d].target[n]
      BY <2>1, <2>2, <2>3 DEF OwnWork
    <3> QED
      BY <3>1, <3>2
  <2>5. ASSUME ~dep[d].hurt
        PROVE  Len(list) = Len(dep[d].target)
    <3> DEFINE k == Len(dep[d].target)
    <3>1. Len(list) = Cardinality(1 .. k) /\ k \in Nat
      BY <2>1, <2>2, <2>3, <2>5 DEF OwnWork
    <3> HIDE DEF k
    <3>2. Cardinality(1 .. k) = k
      <4>1. Cardinality(1 .. k) = IF 1 > k THEN 0 ELSE k - 1 + 1
        BY <3>1, FS_Interval
      <4> QED
        BY <3>1, <4>1
    <3> QED
      BY <3>1, <3>2 DEF k
  <2>6. \A m \in DOMAIN list : imposter[list[m]] = dep[d].run
    BY <2>1 DEF OwnWork
  <2> QED
    BY <2>4, <2>5, <2>6
<1> QED
  BY <1>1, Invariance, PTL

=============================================================================
