----------------------------- MODULE ScanDetector -----------------------------
(***************************************************************************)
(* The port scan detector of the network collector                        *)
(* (collectors/src/network/scan_detector.rs): the new connections of the   *)
(* last Window seconds, and three checks of which the first that fires     *)
(* decides. history and verdicts, which the code has not, keep every       *)
(* connection and what was said of it.                                     *)
(***************************************************************************)
EXTENDS Integers, Sequences, FiniteSets, SequencesExt

CONSTANTS
  Hosts, Ports, Pids,   \* remote hosts and ports, local processes
  Window,               \* 30 s
  Vertical,             \* vertical_threshold: 10 ports
  Horizontal,           \* horizontal_threshold: 20 hosts
  Storm,                \* storm_threshold: 100 connections
  MaxTime, MaxConns     \* bounds

ScanAssumption ==
  /\ Window \in Nat /\ MaxTime \in Nat /\ MaxConns \in Nat
  /\ {Vertical, Horizontal, Storm} \subseteq Nat \ {0}

VARIABLES now, observations, history, verdicts
vars == <<now, observations, history, verdicts>>

Observation == [host : Hosts, port : Ports, pid : Pids, at : 0..MaxTime]
Kinds == {"none", "vertical", "horizontal", "storm"}

Init == now = 0 /\ observations = <<>> /\ history = <<>> /\ verdicts = <<>>

(* Wrong on purpose: an observation at the window's edge goes.             *)
Pruned_AtLimit(q, t) ==
  SubSeq(q, 1 + Cardinality({i \in DOMAIN q : t - q[i].at >= Window}), Len(q))

(* pop_front while the front is older than the window; the rest is not     *)
(* looked at.                                                              *)
Pruned(q, t) ==
  LET keep == {i \in DOMAIN q : t - q[i].at <= Window}
  IN IF keep = {} THEN <<>>
     ELSE SubSeq(q, CHOOSE i \in keep : \A j \in keep : i <= j, Len(q))

PortsOf(q, h) == {o.port : o \in {x \in ToSet(q) : x.host = h}}
HostsOf(q, p) == {o.host : o \in {x \in ToSet(q) : x.port = p}}
CountOf(q, p) == Cardinality({i \in DOMAIN q : q[i].pid = p})

(* record: check_vertical_scan, check_horizontal_scan, check_storm         *)
Verdict(q, o) ==
  IF Cardinality(PortsOf(q, o.host)) >= Vertical THEN "vertical"
  ELSE IF Cardinality(HostsOf(q, o.port)) >= Horizontal THEN "horizontal"
  ELSE IF CountOf(q, o.pid) >= Storm THEN "storm" ELSE "none"

Record(h, p, pid) ==
  /\ Len(history) < MaxConns
  /\ LET o == [host |-> h, port |-> p, pid |-> pid, at |-> now]
     IN /\ observations' = Append(Pruned(observations, now), o)
        /\ history' = Append(history, o)
        /\ verdicts' = Append(verdicts, Verdict(observations', o))
  /\ UNCHANGED now

Tick == now < MaxTime /\ now' = now + 1 /\ UNCHANGED <<observations, history, verdicts>>

Next == Tick \/ \E h \in Hosts, p \in Ports, pid \in Pids : Record(h, p, pid)

Spec == Init /\ [][Next]_vars

-----------------------------------------------------------------------------
(* Properties *)

(* Types; the queue is in order of time, which pruning from the front      *)
(* relies on.                                                              *)
TypeOK ==
  /\ now \in 0..MaxTime
  /\ observations \in Seq(Observation) /\ history \in Seq(Observation)
  /\ verdicts \in Seq(Kinds) /\ Len(verdicts) = Len(history)
  /\ \A i, j \in DOMAIN observations : i < j => observations[i].at <= observations[j].at

(* What was said of each connection is what the whole history says: a      *)
(* vertical scan exactly when enough distinct ports of its host were tried *)
(* in the window that ends with it, else a horizontal scan when enough     *)
(* hosts were tried on its port, else a storm when its process made enough *)
(* connections. Pruning loses nothing that counts.                         *)
VerdictsExact ==
  \A i \in DOMAIN history :
    LET o == history[i]
        recent == {j \in 1..i : o.at - history[j].at <= Window}
        ports == {history[j].port : j \in {m \in recent : history[m].host = o.host}}
        hosts == {history[j].host : j \in {m \in recent : history[m].port = o.port}}
        own == {j \in recent : history[j].pid = o.pid}
        v == Cardinality(ports) >= Vertical
        h == Cardinality(hosts) >= Horizontal
    IN /\ verdicts[i] = "vertical" <=> v
       /\ verdicts[i] = "horizontal" <=> ~v /\ h
       /\ verdicts[i] = "storm" <=> ~v /\ ~h /\ Cardinality(own) >= Storm

=============================================================================
