--------------------------- MODULE CollectorManager ---------------------------
(***************************************************************************)
(* CollectorManager (collectors/src/framework/mod.rs): register,           *)
(* unregister, restart, reconfigure and health of the collectors, called   *)
(* from the tasks of a runtime with a fixed number of worker threads.      *)
(*                                                                         *)
(* The map of collectors is behind a parking_lot RwLock whose guard lives  *)
(* across the awaits of stop, start, reconfigure and health. A task that   *)
(* awaits leaves its worker; a task that waits for the lock keeps it.      *)
(***************************************************************************)
EXTENDS Integers, FiniteSets

CONSTANTS
  Ids,           \* collector ids
  Tasks,         \* tasks that call the manager
  Workers,       \* worker threads of the runtime
  MaxInstances,  \* bound: collectors registered over time
  NoTask

ManagerAssumption ==
  /\ Workers \in Nat \ {0} /\ MaxInstances \in Nat
  /\ NoTask \notin Tasks /\ Ids # {}

VARIABLES
  collectors, \* id -> the registered instance, 0 if none
  contexts,   \* id -> the instance whose context is kept, 0 if none
  writer,     \* the task that holds the write lock of collectors
  readers,    \* the tasks that hold a read lock
  task,       \* task -> [pc, op, id, inst]
  created,    \* instances made so far
  running     \* instances whose start() succeeded and stop() has not

vars == <<collectors, contexts, writer, readers, task, created, running>>

Ops == {"register", "unregister", "restart", "reconfigure", "health"}
Rest == [pc |-> "idle", op |-> "health", id |-> CHOOSE i \in Ids : TRUE, inst |-> 0]

Init ==
  /\ collectors = [i \in Ids |-> 0] /\ contexts = [i \in Ids |-> 0]
  /\ writer = NoTask /\ readers = {}
  /\ task = [t \in Tasks |-> Rest]
  /\ created = 0 /\ running = {}

-----------------------------------------------------------------------------
(* Workers and the lock *)

Blocked == {t \in Tasks : task[t].pc = "blocked"}

(* A task that is called, or whose await is over, needs a free worker.     *)
WorkerFree == Cardinality(Blocked) < Workers

(* parking_lot lets no reader past a waiting writer.                       *)
CanWrite == writer = NoTask /\ readers = {}
CanRead == writer = NoTask /\ \A t \in Blocked : task[t].op = "health"
CanEnter(op) == IF op = "health" THEN CanRead ELSE CanWrite

Become(t, k, pc) == task' = [task EXCEPT ![t] = [k EXCEPT !.pc = pc]]
Finish(t) == task' = [task EXCEPT ![t] = Rest]

(* What a call does from the moment it has the lock to its next await.     *)
Missing(t, k) ==
  /\ k.op # "register" /\ collectors[k.id] = 0
  /\ Finish(t)
  /\ UNCHANGED <<collectors, contexts, writer, readers, created>>

(* unregister and restart take the collector out of the map, and stop it.  *)
TakeOut(t, k) ==
  /\ k.op \in {"unregister", "restart"} /\ collectors[k.id] # 0
  /\ collectors' = [collectors EXCEPT ![k.id] = 0]
  /\ writer' = t
  /\ Become(t, [k EXCEPT !.inst = collectors[k.id]], "stopping")
  /\ UNCHANGED <<contexts, readers, created>>

Ask(t, k) ==
  /\ k.op \in {"reconfigure", "health"} /\ collectors[k.id] # 0
  /\ IF k.op = "health" THEN readers' = readers \cup {t} /\ UNCHANGED writer
                        ELSE writer' = t /\ UNCHANGED readers
  /\ Become(t, k, "asking")
  /\ UNCHANGED <<collectors, contexts, created>>

(* register has started the collector and puts it in the map.              *)
PutIn(t, k) ==
  /\ k.op = "register"
  /\ collectors' = [collectors EXCEPT ![k.id] = k.inst]
  /\ Become(t, k, "storing")
  /\ UNCHANGED <<contexts, writer, readers, created>>

Enter(t, k) == Missing(t, k) \/ TakeOut(t, k) \/ Ask(t, k) \/ PutIn(t, k)

Lock(t, k) ==
  \/ CanEnter(k.op) /\ Enter(t, k)
  \/ /\ ~CanEnter(k.op)
     /\ Become(t, k, "blocked")
     /\ UNCHANGED <<collectors, contexts, writer, readers, created>>

(* The lock is handed to a task that waits for it on its own worker.       *)
Granted(t) ==
  /\ task[t].pc = "blocked"
  /\ IF task[t].op = "health" THEN writer = NoTask ELSE CanWrite
  /\ Enter(t, task[t])
  /\ UNCHANGED running

-----------------------------------------------------------------------------
(* The operations *)

CallRegister(t, i) ==
  /\ task[t].pc = "idle" /\ WorkerFree /\ created < MaxInstances
  /\ created' = created + 1
  /\ task' = [task EXCEPT ![t] = [pc |-> "starting", op |-> "register", id |-> i, inst |-> created + 1]]
  /\ UNCHANGED <<collectors, contexts, writer, readers, running>>

Call(t, op, i) ==
  /\ task[t].pc = "idle" /\ WorkerFree
  /\ Lock(t, [pc |-> "idle", op |-> op, id |-> i, inst |-> 0])
  /\ UNCHANGED running

(* register: collector.start(...).await                                    *)
Started(t) ==
  /\ task[t].pc = "starting" /\ task[t].op = "register" /\ WorkerFree
  /\ running' = running \cup {task[t].inst}
  /\ Lock(t, task[t])
StartFailed(t) ==
  /\ task[t].pc = "starting" /\ task[t].op = "register" /\ WorkerFree
  /\ Finish(t)
  /\ UNCHANGED <<collectors, contexts, writer, readers, created, running>>
StoreContext(t) ==
  /\ task[t].pc = "storing"
  /\ contexts' = [contexts EXCEPT ![task[t].id] = task[t].inst]
  /\ Finish(t)
  /\ UNCHANGED <<collectors, writer, readers, created, running>>

(* unregister: stop(true).await, then the context goes as well.            *)
Unregistered(t) ==
  /\ task[t].pc = "stopping" /\ task[t].op = "unregister" /\ WorkerFree
  /\ running' = running \ {task[t].inst}
  /\ contexts' = [contexts EXCEPT ![task[t].id] = 0]
  /\ writer' = NoTask
  /\ Finish(t)
  /\ UNCHANGED <<collectors, readers, created>>

(* restart: the same instance is stopped, then started again.              *)
StoppedForRestart(t) ==
  /\ task[t].pc = "stopping" /\ task[t].op = "restart" /\ WorkerFree
  /\ running' = running \ {task[t].inst}
  /\ Become(t, task[t], "starting")
  /\ UNCHANGED <<collectors, contexts, writer, readers, created>>
Restarted(t) ==
  /\ task[t].pc = "starting" /\ task[t].op = "restart" /\ WorkerFree
  /\ running' = running \cup {task[t].inst}
  /\ collectors' = [collectors EXCEPT ![task[t].id] = task[t].inst]
  /\ contexts' = [contexts EXCEPT ![task[t].id] = task[t].inst]
  /\ writer' = NoTask
  /\ Finish(t)
  /\ UNCHANGED <<readers, created>>

(* Wrong on purpose: a collector that failed is put back.                  *)
Failed_PutsBack(t) ==
  /\ \/ task[t].pc = "stopping"
     \/ task[t].pc = "starting" /\ task[t].op = "restart"
  /\ WorkerFree
  /\ writer' = NoTask
  /\ collectors' = [collectors EXCEPT ![task[t].id] = task[t].inst]
  /\ Finish(t)
  /\ UNCHANGED <<contexts, readers, created, running>>

(* stop(true).await? or start(...).await? fails: the guard is dropped, and *)
(* with it the collector that was taken out of the map.                    *)
Failed(t) ==
  /\ \/ task[t].pc = "stopping"
     \/ task[t].pc = "starting" /\ task[t].op = "restart"
  /\ WorkerFree
  /\ writer' = NoTask
  /\ Finish(t)
  /\ UNCHANGED <<collectors, contexts, readers, created, running>>

(* Wrong on purpose: a read guard is not dropped.                          *)
Answered_KeepsRead(t) ==
  /\ task[t].pc = "asking" /\ WorkerFree
  /\ writer' = IF writer = t THEN NoTask ELSE writer
  /\ Finish(t)
  /\ UNCHANGED <<collectors, contexts, readers, created, running>>

(* reconfigure and health answer, with or without an error.                *)
Answered(t) ==
  /\ task[t].pc = "asking" /\ WorkerFree
  /\ writer' = IF writer = t THEN NoTask ELSE writer
  /\ readers' = readers \ {t}
  /\ Finish(t)
  /\ UNCHANGED <<collectors, contexts, created, running>>

Step(t) ==
  \/ Granted(t) \/ Started(t) \/ StartFailed(t) \/ StoreContext(t)
  \/ Unregistered(t) \/ StoppedForRestart(t) \/ Restarted(t) \/ Failed(t) \/ Answered(t)

Next ==
  \/ \E t \in Tasks, i \in Ids : CallRegister(t, i)
  \/ \E t \in Tasks, i \in Ids, op \in Ops \ {"register"} : Call(t, op, i)
  \/ \E t \in Tasks : Step(t)

Spec == Init /\ [][Next]_vars

(* Every await ends, every runnable task is polled when a worker is free,  *)
(* and the lock is fair to the tasks that wait for it.                     *)
FairSpec == Spec /\ \A t \in Tasks : WF_vars(Step(t)) /\ SF_vars(Granted(t))

-----------------------------------------------------------------------------
(* Properties *)

(* Types, and the lock is exclusive.                                       *)
TypeOK ==
  /\ collectors \in [Ids -> 0..MaxInstances] /\ contexts \in [Ids -> 0..MaxInstances]
  /\ writer \in Tasks \cup {NoTask} /\ readers \subseteq Tasks
  /\ (writer # NoTask => readers = {})
  /\ task \in [Tasks -> [pc : {"idle", "blocked", "stopping", "starting", "asking", "storing"},
                         op : Ops, id : Ids, inst : 0..MaxInstances]]
  /\ created \in 0..MaxInstances /\ running \subseteq 1..created

(* What the map holds is running, whatever failed on the way, and is in    *)
(* the map under one id only.                                              *)
RegisteredRuns ==
  /\ \A i \in Ids : collectors[i] # 0 => collectors[i] \in running
  /\ \A i, j \in Ids : collectors[i] = collectors[j] /\ collectors[i] # 0 => i = j

(* A registered collector has a context, as soon as the register call that *)
(* brought it has returned.                                                *)
Storing(i) == \E t \in Tasks : task[t].pc = "storing" /\ task[t].id = i
RegisteredHasContext ==
  \A i \in Ids : collectors[i] # 0 /\ ~Storing(i) => contexts[i] # 0

(* What the manager holds can be used, whichever calls failed or raced.    *)
RegistryCoherent == RegisteredRuns /\ RegisteredHasContext

(* Nobody waits for the lock for ever, given a worker per task.            *)
LockGranted == \A t \in Tasks : task[t].pc = "blocked" ~> task[t].pc # "blocked"

=============================================================================
