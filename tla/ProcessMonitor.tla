---------------------------- MODULE ProcessMonitor ----------------------------
(***************************************************************************)
(* The process collector the service starts (collectors/src/process/mod.rs *)
(* with netlink_monitor.rs): a blocking thread reads the kernel's process  *)
(* connector into an unbounded channel, and a task converts what is in the *)
(* channel, or polls /proc when the connector is not available.            *)
(*                                                                         *)
(* The converter first awaits the blocking thread's result, which is there *)
(* only after NetlinkMonitor::run has returned.                            *)
(***************************************************************************)
EXTENDS Integers, Sequences, FiniteSets

CONSTANTS
  Pids,
  KernelPids,  \* pids of kernel threads, whose ppid is 0
  MaxForks     \* bound: processes created

ProcessAssumption == KernelPids \subseteq Pids /\ MaxForks \in Nat

VARIABLES
  alive,     \* pid -> number of the process that has it, 0 if none
  forks,     \* processes created so far
  monitor,   \* the thread: "connecting", "live", "ended", "failed"
  queue,     \* the unbounded channel
  log,       \* everything the kernel sent while the monitor was live
  converter, \* "waiting", "netlink", "seeding", "first", "idle", "scanning", "done"
  known,     \* known: the pids of the previous scan
  current,   \* current: the pids of the scan under way
  ahead,     \* pids the listing of /proc has not come to yet
  todo,      \* the new ones among those it gave, not looked at yet
  scanned,   \* history: <<pid, process>> of those there when the last scan began
  during,    \* history: the pids that were there at some time of the last scan
  earlier,   \* history: those that were there at some time of the scan before
  published  \* events published on the bus

procVars == <<alive, forks>>
scanVars == <<scanned, earlier>>
pollVars == <<known, current, ahead, todo, scanVars>>
vars == <<procVars, monitor, queue, log, converter, pollVars, during, published>>

Process == 1..MaxForks
Message == [kind : {"fork", "exit"}, pid : Pids, proc : Process]

Init ==
  /\ alive = [p \in Pids |-> 0] /\ forks = 0
  /\ monitor = "connecting" /\ queue = <<>> /\ log = <<>>
  /\ converter = "waiting"
  /\ known = {} /\ current = {} /\ ahead = {} /\ todo = {}
  /\ scanned = {} /\ during = {} /\ earlier = {}
  /\ published = <<>>

-----------------------------------------------------------------------------
(* The operating system *)

Present == {p \in Pids : alive[p] # 0}

Multicast(m) ==
  IF monitor = "live"
  THEN queue' = Append(queue, m) /\ log' = Append(log, m)
  ELSE UNCHANGED <<queue, log>>

Scanning == converter \in {"first", "scanning"}

Fork(p) ==
  /\ alive[p] = 0 /\ forks < MaxForks
  /\ forks' = forks + 1
  /\ alive' = [alive EXCEPT ![p] = forks + 1]
  /\ during' = IF Scanning THEN during \cup {p} ELSE during
  /\ Multicast([kind |-> "fork", pid |-> p, proc |-> forks + 1])
  /\ UNCHANGED <<monitor, converter, pollVars, published>>

Exit(p) ==
  /\ alive[p] # 0
  /\ alive' = [alive EXCEPT ![p] = 0]
  /\ Multicast([kind |-> "exit", pid |-> p, proc |-> alive[p]])
  /\ UNCHANGED <<forks, monitor, converter, pollVars, during, published>>

-----------------------------------------------------------------------------
(* The netlink thread *)

Connect ==
  /\ monitor = "connecting"
  /\ monitor' \in {"live", "failed"}
  /\ UNCHANGED <<procVars, queue, log, converter, pollVars, during, published>>

(* A read error, an overrun of the socket buffer included, ends the loop.  *)
RunEnds ==
  /\ monitor = "live"
  /\ monitor' = "ended"
  /\ UNCHANGED <<procVars, queue, log, converter, pollVars, during, published>>

-----------------------------------------------------------------------------
(* The converter task *)

(* started.await                                                           *)
Started ==
  /\ converter = "waiting"
  /\ \/ monitor = "ended" /\ converter' = "netlink"
     \/ monitor = "failed" /\ converter' = "seeding"
  /\ UNCHANGED <<procVars, monitor, queue, log, pollVars, during, published>>

Convert ==
  /\ converter = "netlink" /\ queue # <<>>
  /\ published' = Append(published, Head(queue))
  /\ queue' = Tail(queue)
  /\ UNCHANGED <<procVars, monitor, log, converter, pollVars, during>>

(* The channel is empty and its sender gone, or the bus is closed.         *)
ConverterEnds ==
  /\ converter = "netlink"
  /\ converter' = "done"
  /\ IF queue = <<>> THEN UNCHANGED queue ELSE queue' = Tail(queue)
  /\ UNCHANGED <<procVars, monitor, log, pollVars, during, published>>

(* /proc is opened, and there is what there is; it is read entry by entry. *)
Open ==
  /\ ahead' = Pids /\ current' = {}
  /\ scanned' = {<<p, alive[p]>> : p \in Present}
  /\ during' = Present /\ earlier' = during

(* Fallback: the first scan only fills known; without /proc the task ends. *)
Seed ==
  /\ converter = "seeding"
  /\ \/ converter' = "first" /\ Open
     \/ converter' = "done" /\ UNCHANGED <<current, ahead, scanVars, during>>
  /\ UNCHANGED <<procVars, monitor, queue, log, known, todo, published>>

(* A tick of the 5 second interval: the directory is opened ...            *)
BeginScan ==
  /\ converter = "idle"
  /\ converter' = "scanning" /\ Open
  /\ UNCHANGED <<procVars, monitor, queue, log, known, todo, published>>

(* ... it gives a pid if there is a process by then ...                    *)
List(p) ==
  /\ Scanning /\ p \in ahead /\ ahead' = ahead \ {p}
  /\ current' = current \cup ({p} \cap Present)
  /\ todo' = IF converter = "scanning" THEN todo \cup (({p} \cap Present) \ known) ELSE todo
  /\ UNCHANGED <<procVars, monitor, queue, log, converter, known, scanVars, during, published>>

(* ... the status of every new pid is read, by then maybe gone (ppid 0) or *)
(* another process ...                                                     *)
Announceable(p) == alive[p] # 0 /\ p \notin KernelPids
Gather(p) ==
  /\ converter = "scanning" /\ p \in todo
  /\ todo' = todo \ {p}
  /\ published' =
       IF Announceable(p)
       THEN Append(published, [kind |-> "fork", pid |-> p, proc |-> alive[p]]) ELSE published
  /\ UNCHANGED <<procVars, monitor, queue, log, converter, known, current, ahead, scanVars, during>>

(* Wrong on purpose: known keeps the pids that are gone.                   *)
EndScan_NeverForgets ==
  /\ Scanning /\ ahead = {} /\ todo = {}
  /\ converter' = "idle"
  /\ known' = known \cup current /\ current' = {}
  /\ UNCHANGED <<procVars, monitor, queue, log, ahead, todo, scanVars, during, published>>

(* ... and known = current.                                                *)
EndScan ==
  /\ Scanning /\ ahead = {} /\ todo = {}
  /\ converter' = "idle"
  /\ known' = current /\ current' = {}
  /\ UNCHANGED <<procVars, monitor, queue, log, ahead, todo, scanVars, during, published>>

-----------------------------------------------------------------------------
ConverterStep ==
  \/ Started \/ Convert \/ Seed \/ BeginScan \/ EndScan
  \/ \E p \in Pids : List(p) \/ Gather(p)

Next ==
  \/ \E p \in Pids : Fork(p) \/ Exit(p)
  \/ Connect \/ RunEnds
  \/ ConverterStep \/ ConverterEnds

Spec == Init /\ [][Next]_vars

(* The converter is a task of a fair runtime; that the netlink loop ends   *)
(* is not assumed.                                                         *)
FairSpec == Spec /\ WF_vars(Connect) /\ WF_vars(ConverterStep)

-----------------------------------------------------------------------------
(* Properties *)

(* Types, and a scan only looks at pids that are new.                      *)
TypeOK ==
  /\ alive \in [Pids -> 0..MaxForks] /\ forks \in 0..MaxForks
  /\ monitor \in {"connecting", "live", "ended", "failed"}
  /\ converter \in {"waiting", "netlink", "seeding", "first", "idle", "scanning", "done"}
  /\ queue \in Seq(Message) /\ log \in Seq(Message) /\ published \in Seq(Message)
  /\ known \cup current \cup ahead \cup earlier \cup during \subseteq Pids
  /\ scanned \subseteq Pids \X Process
  /\ todo \subseteq current \ known

(* Polling: a process that was there when a scan began, and its pid at no  *)
(* time of the scan before, has been announced when the scan ends, unless  *)
(* it is gone by then. (One that took over a listed pid never is.)         *)
Announced(n) == \E i \in DOMAIN published : published[i].proc = n
NewcomersAnnounced ==
  [][ converter = "scanning" /\ converter' = "idle" =>
        \A p \in Pids \ (KernelPids \cup earlier) :
          <<p, alive[p]>> \in scanned => Announced(alive[p]) ]_vars

(* mod.rs:29, "CN_PROC netlink real-time process events": while the        *)
(* monitor is connected, what the kernel sends is published in the end.    *)
RealTime ==
  \A n \in 1..(2 * MaxForks) :
    Len(log) >= n ~> (Len(published) >= n \/ converter = "done")

=============================================================================
