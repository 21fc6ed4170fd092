-------------------------------- MODULE Service --------------------------------
(***************************************************************************)
(* The running service, side by side: the alerts and their streams         *)
(* (AlertLifecycle, whose names stand for themselves), the life of the     *)
(* process (CoreService) and the collector manager. They share no state,   *)
(* so one moves while the others rest where they start.                    *)
(***************************************************************************)
EXTENDS AlertLifecycle

CONSTANTS
  Followers, MaxEvents, MaxTasks,            \* CoreService; its Clients
  Ids, Tasks, Workers, MaxInstances, NoTask  \* CollectorManager

VARIABLES
  moving,   \* "alerts", "process" or "manager", the one that does
  pc, sigTask, shutdown, grpc, streams, subscribed, queue, made, tasks, lost,
  collectors, contexts, writer, readers, task, created, running

Core == INSTANCE CoreService WITH Clients <- Followers

Mgr == INSTANCE CollectorManager

ASSUME ServiceAssumptions == Core!ServiceAssumption /\ Mgr!ManagerAssumption

alertVars == vars
coreVars == <<pc, sigTask, shutdown, grpc, streams, subscribed, queue, made, tasks, lost>>
mgrVars == <<collectors, contexts, writer, readers, task, created, running>>
allVars == <<moving, alertVars, coreVars, mgrVars>>

AllInit ==
  /\ moving \in {"alerts", "process", "manager"}
  /\ Init /\ Core!Init /\ Mgr!Init

AllNext ==
  \/ moving = "alerts" /\ Next /\ UNCHANGED <<moving, coreVars, mgrVars>>
  \/ moving = "process" /\ Core!Next /\ UNCHANGED <<moving, alertVars, mgrVars>>
  \/ moving = "manager" /\ Mgr!Next /\ UNCHANGED <<moving, alertVars, coreVars>>

(* The fairness of CoreService!FairSpec and CollectorManager!FairSpec.     *)
Fairness ==
  /\ WF_coreVars(moving = "process" /\ Core!Listen)
  /\ WF_coreVars(moving = "process" /\ Core!MainStep)
  /\ SF_coreVars(moving = "process" /\ Core!Break)
  /\ WF_coreVars(moving = "process" /\ Core!Notified)
  /\ WF_coreVars(moving = "process" /\ Core!Server)
  /\ \A c \in Followers : WF_coreVars(moving = "process" /\ Core!Leave(c))
  /\ \A t \in Tasks :
       /\ WF_mgrVars(moving = "manager" /\ Mgr!Step(t))
       /\ SF_mgrVars(moving = "manager" /\ Mgr!Granted(t))

AllSpec == AllInit /\ [][AllNext]_allVars /\ Fairness

-----------------------------------------------------------------------------
(* Every part's state has its type, and the manager's lock is exclusive.   *)
AllTyped == TypeOK /\ Core!TypeOK /\ Mgr!TypeOK

(* Once Ctrl+C is caught the process ends, provided the clients leave.     *)
InterruptStops == Core!InterruptStops

(* What the collector manager holds is running and has its context.        *)
RegistryCoherent == Mgr!RegistryCoherent

(* Nobody waits for the manager's lock for ever, given a worker per task.  *)
LockGranted == Mgr!LockGranted
=============================================================================
