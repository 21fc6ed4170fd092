---------------------------- MODULE FileEventLoop ----------------------------
(***************************************************************************)
(* The event loop of the file collector under fanotify                     *)
(* (collectors/src/file/mod.rs, run_event_loop): the watcher thread and    *)
(* the bridge task put raw events on an unbounded channel; the loop hashes *)
(* the file, keeps a window of writes of high entropy, publishes an alert  *)
(* when the window holds MinFiles of them, and publishes the event.        *)
(*                                                                         *)
(* A raw event is reduced to whether it is a write that will be found of   *)
(* high entropy. history, which the code has not, keeps the times at which *)
(* the loop has handled such writes.                                       *)
(***************************************************************************)
EXTENDS Integers, Sequences, FiniteSets

CONSTANTS
  Window,              \* RANSOMWARE_WINDOW: 10 s
  MinFiles,            \* RANSOMWARE_MIN_FILES: 3
  MaxTime, MaxEvents   \* bounds

LoopAssumption ==
  Window \in Nat /\ MinFiles \in Nat \ {0} /\ MaxTime \in Nat /\ MaxEvents \in Nat

VARIABLES
  now,
  made,       \* events made so far
  queue,      \* the channel between watcher and loop
  pc,         \* "recv", "hash", "alert", "publish", "ended"
  raw,        \* the event in hand
  window,     \* entropy_window
  history,    \* when each high write was handled
  alerts      \* alerts published: the writes each was raised for

vars == <<now, made, queue, pc, raw, window, history, alerts>>

RawEvent == {"high", "other"}

Init ==
  /\ now = 0 /\ made = 0 /\ queue = <<>>
  /\ pc = "recv" /\ raw = "none"
  /\ window = <<>> /\ history = <<>> /\ alerts = <<>>

Tick ==
  /\ now < MaxTime /\ now' = now + 1
  /\ UNCHANGED <<made, queue, pc, raw, window, history, alerts>>

(* A program touches a watched file. The bridge drops the event when the   *)
(* loop's end of the channel is gone.                                      *)
Touch(kind) ==
  /\ made < MaxEvents /\ made' = made + 1
  /\ queue' = IF pc = "ended" THEN queue ELSE Append(queue, kind)
  /\ UNCHANGED <<now, pc, raw, window, history, alerts>>

Receive ==
  /\ pc = "recv" /\ queue # <<>>
  /\ raw' = Head(queue) /\ queue' = Tail(queue)
  /\ pc' = "hash"
  /\ UNCHANGED <<now, made, window, history, alerts>>

(* A write is stamped when its file has been hashed, records older than    *)
(* the window go, and a full window leads to an alert.                     *)
Expired(q) == {i \in DOMAIN q : now - q[i] > Window}

(* Wrong on purpose: old records stay.                                     *)
Hashed_NoPrune ==
  /\ pc = "hash"
  /\ IF raw # "high" THEN pc' = "publish" /\ UNCHANGED <<window, history>>
     ELSE /\ window' = Append(window, now)
          /\ history' = Append(history, now)
          /\ pc' = IF Len(window') >= MinFiles THEN "alert" ELSE "publish"
  /\ UNCHANGED <<now, made, queue, raw, alerts>>

Hashed ==
  /\ pc = "hash"
  /\ IF raw # "high" THEN pc' = "publish" /\ UNCHANGED <<window, history>>
     ELSE LET all == Append(window, now)
          IN /\ window' = SubSeq(all, Cardinality(Expired(all)) + 1, Len(all))
             /\ history' = Append(history, now)
             /\ pc' = IF Len(window') >= MinFiles THEN "alert" ELSE "publish"
  /\ UNCHANGED <<now, made, queue, raw, alerts>>

(* The alert's publication may take time and may be refused; either way    *)
(* the window is emptied.                                                  *)
Alert ==
  /\ pc = "alert"
  /\ alerts' = Append(alerts, (Len(history) - Len(window) + 1)..Len(history))
  /\ window' = <<>>
  /\ pc' = "publish"
  /\ UNCHANGED <<now, made, queue, raw, history>>

(* A refused event ends the loop and with it the collector.                *)
Publish ==
  /\ pc = "publish"
  /\ pc' = "recv" /\ raw' = "none"
  /\ UNCHANGED <<now, made, queue, window, history, alerts>>

PublishRefused ==
  /\ pc = "publish"
  /\ pc' = "ended" /\ raw' = "none" /\ queue' = <<>>
  /\ UNCHANGED <<now, made, window, history, alerts>>

Next ==
  \/ Tick \/ \E kind \in RawEvent : Touch(kind)
  \/ Receive \/ Hashed \/ Alert \/ Publish \/ PublishRefused

Spec == Init /\ [][Next]_vars

-----------------------------------------------------------------------------
(* Properties *)

(* Types; between events fewer than MinFiles records are kept.             *)
TypeOK ==
  /\ now \in 0..MaxTime /\ made \in 0..MaxEvents
  /\ queue \in Seq(RawEvent) /\ raw \in RawEvent \cup {"none"}
  /\ pc \in {"recv", "hash", "alert", "publish", "ended"}
  /\ window \in Seq(0..MaxTime) /\ (pc # "alert" => Len(window) < MinFiles)
  /\ history \in Seq(0..MaxTime)
  /\ alerts \in Seq(SUBSET (1..MaxEvents))

Alerted == UNION {alerts[a] : a \in DOMAIN alerts}

(* Each alert is for at least MinFiles writes handled within one window,   *)
(* and no write is counted in two alerts.                                  *)
AlertsAreBursts ==
  \A a \in DOMAIN alerts :
    /\ Cardinality(alerts[a]) >= MinFiles
    /\ \A i, j \in alerts[a] : history[i] - history[j] <= Window
    /\ \A b \in DOMAIN alerts : a # b => alerts[a] \cap alerts[b] = {}

(* No burst is missed: of the writes handled within one window and in no   *)
(* alert there are never MinFiles, once the loop is done with them.        *)
BurstsAreAlerted ==
  pc # "alert" =>
    \A i \in DOMAIN history :
      Cardinality({j \in i..Len(history) : j \notin Alerted /\ history[j] - history[i] <= Window})
        < MinFiles

(* The window alerts on every burst of writes and on nothing else.         *)
AlertsExact == AlertsAreBursts /\ BurstsAreAlerted

=============================================================================
