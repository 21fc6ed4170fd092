----------------------------- MODULE CoreService -----------------------------
(***************************************************************************)
(* The core service's life (apps/sentinel-core-service/src/main.rs): the   *)
(* start, the main loop that takes one event at a time, and the shutdown,  *)
(* with the signal task, the gRPC server (sentinel-api, serve and          *)
(* stream_alerts), its clients, and the tasks spawned for an alert.        *)
(*                                                                         *)
(* An event in hand either ends without an alert or, after any number of   *)
(* awaits, with one, which starts a notification task. The bus between a   *)
(* collector and the loop is reduced to the loop's channel.                *)
(***************************************************************************)
EXTENDS Integers, FiniteSets

CONSTANTS
  Clients,       \* API clients that may follow the alert stream
  MaxEvents,     \* bound: events the collectors publish
  MaxTasks       \* bound: notifications under way at once

ServiceAssumption == {MaxEvents, MaxTasks} \subseteq Nat

VARIABLES
  pc,          \* "start", "serve", "subscribe", "loop", "handle", "drain", or an end
  sigTask,     \* what the signal task waits for: "none", "ctrl_c", "sigterm", "done"
  shutdown,    \* the value of the watch channel
  grpc,        \* "off", "binding", "on", "draining", "done"
  streams,     \* clients with an open StreamAlerts
  subscribed,  \* the loop has its channel
  queue,       \* events in it
  made,        \* events published so far
  tasks,       \* notification tasks under way
  lost         \* notifications dropped with the runtime

vars == <<pc, sigTask, shutdown, grpc, streams, subscribed, queue, made, tasks, lost>>

Ends == {"stopped", "failed", "killed"}
Running == pc \notin Ends

Init ==
  /\ pc = "start" /\ sigTask = "none" /\ shutdown = FALSE
  /\ grpc = "off" /\ streams = {} /\ subscribed = FALSE
  /\ queue = 0 /\ made = 0 /\ tasks = 0 /\ lost = 0

(* The process is gone, and all it held with it.                           *)
Gone(end) ==
  /\ pc' = end /\ sigTask' = "done" /\ grpc' = "off" /\ streams' = {}
  /\ tasks' = 0 /\ lost' = lost + tasks
  /\ UNCHANGED <<shutdown, subscribed, queue, made>>

-----------------------------------------------------------------------------
(* Signals                                                                 *)

(* Ctrl+C: before the signal task listens it kills; afterwards it is       *)
(* caught, the first time sets the flag, and the task turns to SIGTERM.    *)
Interrupt ==
  /\ Running
  /\ IF sigTask = "none" THEN Gone("killed")
     ELSE /\ sigTask = "ctrl_c" /\ sigTask' = "sigterm" /\ shutdown' = TRUE
          /\ UNCHANGED <<pc, grpc, streams, subscribed, queue, made, tasks, lost>>

(* SIGTERM: caught only once the task has turned to it.                    *)
Terminate ==
  /\ Running
  /\ IF sigTask \in {"none", "ctrl_c"} THEN Gone("killed")
     ELSE /\ sigTask = "sigterm" /\ sigTask' = "done" /\ shutdown' = TRUE
          /\ UNCHANGED <<pc, grpc, streams, subscribed, queue, made, tasks, lost>>

-----------------------------------------------------------------------------
(* The start                                                               *)

(* Configuration, then the signal task; storage, migrations and rules; any *)
(* of them may fail.                                                       *)
Listen ==
  /\ pc = "start" /\ sigTask = "none" /\ sigTask' = "ctrl_c"
  /\ UNCHANGED <<pc, shutdown, grpc, streams, subscribed, queue, made, tasks, lost>>

StartFails == pc = "start" /\ Gone("failed")

Open ==
  /\ pc = "start" /\ sigTask # "none" /\ pc' = "serve"
  /\ UNCHANGED <<sigTask, shutdown, grpc, streams, subscribed, queue, made, tasks, lost>>

Serve ==
  /\ pc = "serve" /\ pc' = "subscribe" /\ grpc' = "binding"
  /\ UNCHANGED <<sigTask, shutdown, streams, subscribed, queue, made, tasks, lost>>

(* Subscribed first, then the collectors are started.                      *)
Subscribe ==
  /\ pc = "subscribe" /\ pc' = "loop" /\ subscribed' = TRUE
  /\ UNCHANGED <<sigTask, shutdown, grpc, streams, queue, made, tasks, lost>>

-----------------------------------------------------------------------------
(* The main loop                                                           *)

Publish ==
  /\ Running /\ subscribed /\ made < MaxEvents
  /\ made' = made + 1
  /\ queue' = IF pc = "drain" THEN queue ELSE queue + 1
  /\ UNCHANGED <<pc, sigTask, shutdown, grpc, streams, subscribed, tasks, lost>>

Take ==
  /\ pc = "loop" /\ queue > 0
  /\ queue' = queue - 1 /\ pc' = "handle"
  /\ UNCHANGED <<sigTask, shutdown, grpc, streams, subscribed, made, tasks, lost>>

NoAlert ==
  /\ pc = "handle" /\ pc' = "loop"
  /\ UNCHANGED <<sigTask, shutdown, grpc, streams, subscribed, queue, made, tasks, lost>>

RaiseAlert ==
  /\ pc = "handle" /\ tasks < MaxTasks
  /\ pc' = "loop" /\ tasks' = tasks + 1
  /\ UNCHANGED <<sigTask, shutdown, grpc, streams, subscribed, queue, made, lost>>

Notified ==
  /\ Running /\ tasks > 0 /\ tasks' = tasks - 1
  /\ UNCHANGED <<pc, sigTask, shutdown, grpc, streams, subscribed, queue, made, lost>>

(* select! takes a ready branch at random: the flag may win over events.   *)
Break ==
  /\ pc = "loop" /\ shutdown /\ pc' = "drain"
  /\ UNCHANGED <<sigTask, shutdown, grpc, streams, subscribed, queue, made, tasks, lost>>

(* main returns when the server task has ended.                            *)
Return ==
  pc = "drain" /\ grpc = "done" /\ Gone("stopped")

-----------------------------------------------------------------------------
(* The gRPC server and its clients                                         *)

(* When the address is taken the service goes on without its API.          *)
Bind ==
  /\ Running /\ grpc = "binding" /\ grpc' \in {"on", "done"}
  /\ UNCHANGED <<pc, sigTask, shutdown, streams, subscribed, queue, made, tasks, lost>>

(* An alert stream ends with its client, not with the shutdown: its sender *)
(* lives in main.                                                          *)
Follow(c) ==
  /\ Running /\ grpc = "on" /\ c \notin streams
  /\ streams' = streams \cup {c}
  /\ UNCHANGED <<pc, sigTask, shutdown, grpc, subscribed, queue, made, tasks, lost>>

Leave(c) ==
  /\ Running /\ c \in streams
  /\ streams' = streams \ {c}
  /\ UNCHANGED <<pc, sigTask, shutdown, grpc, subscribed, queue, made, tasks, lost>>

(* Wrong on purpose: the server ignores the signal.                        *)
Drain_Serve ==
  /\ Running /\ grpc = "on" /\ FALSE /\ grpc' = "draining"
  /\ UNCHANGED <<pc, sigTask, shutdown, streams, subscribed, queue, made, tasks, lost>>

Drain ==
  /\ Running /\ grpc = "on" /\ shutdown /\ grpc' = "draining"
  /\ UNCHANGED <<pc, sigTask, shutdown, streams, subscribed, queue, made, tasks, lost>>

Drained ==
  /\ Running /\ grpc = "draining" /\ streams = {} /\ grpc' = "done"
  /\ UNCHANGED <<pc, sigTask, shutdown, streams, subscribed, queue, made, tasks, lost>>

(* The task of main; the task of the server.                               *)
MainStep == Open \/ Serve \/ Subscribe \/ Take \/ NoAlert \/ RaiseAlert \/ Return
Server == Bind \/ Drain \/ Drained

Next ==
  \/ Interrupt \/ Terminate
  \/ Listen \/ StartFails \/ MainStep \/ Break
  \/ Publish \/ Notified
  \/ Server
  \/ \E c \in Clients : Follow(c) \/ Leave(c)

Spec == Init /\ [][Next]_vars

(* Tasks run, and every client goes in the end. The random choice of       *)
(* select! takes the shutdown branch when it is ready again and again:     *)
(* strong fairness.                                                        *)
FairSpec ==
  /\ Spec
  /\ WF_vars(Listen) /\ WF_vars(MainStep) /\ SF_vars(Break)
  /\ WF_vars(Notified) /\ WF_vars(Server)
  /\ \A c \in Clients : WF_vars(Leave(c))

-----------------------------------------------------------------------------
(* Properties *)

TypeOK ==
  /\ pc \in {"start", "serve", "subscribe", "loop", "handle", "drain"} \cup Ends
  /\ sigTask \in {"none", "ctrl_c", "sigterm", "done"} /\ shutdown \in BOOLEAN
  /\ grpc \in {"off", "binding", "on", "draining", "done"} /\ streams \subseteq Clients
  /\ subscribed \in BOOLEAN /\ queue \in 0..made /\ made \in 0..MaxEvents
  /\ tasks \in 0..MaxTasks /\ lost \in 0..MaxTasks

(* Whenever Ctrl+C is caught, even during the start, the service stops,    *)
(* provided the clients leave.                                             *)
InterruptStops == shutdown ~> ~Running

(* main.rs:94, in the signal task's SIGTERM branch: "Received SIGTERM,     *)
(* initiating shutdown": once the task listens, SIGTERM does not kill.     *)
TermIsGraceful == [][pc' = "killed" /\ pc # "killed" => sigTask = "none"]_vars

=============================================================================
