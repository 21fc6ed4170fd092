---------------------------- MODULE EventBusProofs ----------------------------
(***************************************************************************)
(* Theorems about the event bus, for every number of publishers and        *)
(* subscribers, every capacity and every choice of filters.                *)
(***************************************************************************)
EXTENDS EventBus, TLAPS, SequenceTheorems, FiniteSetTheorems

(* TypeOK is not inductive alone: that ingest_depth never underflows needs *)
(* the accounting of what it counts.                                       *)
Inv == TypeOK /\ DepthAccounting

(* The bounds are natural numbers, and <<>> is a sequence over anything.   *)
LEMMA Bounds ==
  /\ IngestCap \in Nat /\ SubCap \in Nat /\ MaxPublish \in [Publishers -> Nat]
  /\ \A S : <<>> \in Seq(S)
  /\ Len(<<>>) = 0
  /\ None \notin Event
BY BusAssumption, EmptySeq DEF BusAssumption

(* Only finitely many publish() calls can be blocked.                      *)
LEMMA BlockedFinite ==
  /\ IsFiniteSet(Blocked)
  /\ Cardinality(Blocked) \in Nat
  /\ IsFiniteSet(Blocked')
  /\ Cardinality(Blocked') \in Nat
BY BusAssumption, FS_Subset, FS_CardinalityType DEF BusAssumption, Blocked

(* An action that moves neither the queue nor the counter keeps the account. *)
LEMMA AccountingKept ==
  ASSUME DepthAccounting, UNCHANGED <<depth, ingest, sending>>,
         rpc' = "account" <=> rpc = "account"
  PROVE  DepthAccounting'
BY DEF DepthAccounting, Blocked

(* Type correctness holds at the start.                                    *)
LEMMA InitInv == Init => Inv
<1> SUFFICES ASSUME Init PROVE Inv
  OBVIOUS
<1>1. todo \in [Subscribers -> Seq(Types \cup {Star} \cup Prefixes)]
  BY BusAssumption DEF BusAssumption, Init
<1>2. /\ sent \in [Publishers -> Nat] /\ \A p \in Publishers : sent[p] <= MaxPublish[p]
      /\ sending \in [Publishers -> Event \cup {None}]
      /\ ingest \in Seq(Event) /\ Len(ingest) <= IngestCap
      /\ targets \in Seq(Subscribers)
      /\ exact \in [Types -> Seq(Subscribers)]
      /\ wild \in Seq(Subscribers)
      /\ queue \in [Subscribers -> Seq(Event)]
      /\ \A s \in Subscribers : Len(queue[s]) <= SubCap
      /\ routed \in Seq(Event)
      /\ log \in [Subscribers -> Seq(Event)]
  BY Bounds DEF Init
<1>3. TypeOK
  BY <1>1, <1>2 DEF Init, TypeOK
<1>4. Blocked = {} /\ Cardinality(Blocked) = 0
  BY FS_EmptySet DEF Init, Blocked
<1>5. DepthAccounting
  BY <1>4, Bounds DEF Init, DepthAccounting
<1>6. QED
  BY <1>3, <1>5 DEF Inv

(* publish() keeps the account: it counts the event, then hands it over.   *)
LEMMA PublishInv ==
  ASSUME Inv, NEW p \in Publishers,
         EndPublish(p) \/ \E t \in Types : BeginPublish(p, t)
  PROVE  Inv'
<1> USE DEF pubVars, runVars, subVars, monVars
<1>0. TypeOK /\ DepthAccounting /\ Len(ingest) \in Nat /\ depth \in Nat
  BY LenProperties DEF Inv, TypeOK
<1>1. ASSUME NEW t \in Types, BeginPublish(p, t) PROVE Inv'
  <2>0. sent[p] \in Nat /\ MaxPublish[p] \in Nat /\ sent[p] < MaxPublish[p]
    BY <1>0, <1>1, Bounds DEF BeginPublish, TypeOK
  <2>1. [src |-> p, n |-> sent[p] + 1, type |-> t] \in Event
    <3>1. [src |-> p, n |-> sent[p] + 1, type |-> t]
            \in [src : {p}, n : 1..MaxPublish[p], type : Types]
      BY <2>0
    <3>2. QED
      BY <3>1 DEF Event
  <2>2. /\ sent' \in [Publishers -> Nat]
        /\ \A q \in Publishers : sent'[q] <= MaxPublish[q]
    <3>1. sent' = [sent EXCEPT ![p] = sent[p] + 1]
      BY <1>1 DEF BeginPublish
    <3>2. sent \in [Publishers -> Nat] /\ \A q \in Publishers : sent[q] <= MaxPublish[q]
      BY <1>0 DEF TypeOK
    <3>3. ASSUME NEW q \in Publishers PROVE sent'[q] <= MaxPublish[q]
      <4>1. MaxPublish[q] \in Nat /\ sent[q] \in Nat
        BY <3>2, Bounds
      <4>2. QED
        BY <2>0, <3>1, <3>2, <4>1
    <3>4. QED
      BY <2>0, <3>1, <3>2, <3>3
  <2>3. sending' \in [Publishers -> Event \cup {None}]
    <3>1. sending \in [Publishers -> Event \cup {None}]
      BY <1>0 DEF TypeOK
    <3>2. sending' = [sending EXCEPT ![p] = [src |-> p, n |-> sent[p] + 1, type |-> t]]
      BY <1>1 DEF BeginPublish
    <3>3. QED
      BY <2>1, <3>1, <3>2
  <2>4. depth' = depth + 1 /\ ingest' = ingest /\ rpc' = rpc
    BY <1>1 DEF BeginPublish
  <2>5. TypeOK'
    <3>1. depth' \in Nat /\ Len(ingest') <= IngestCap /\ ingest' \in Seq(Event)
      BY <1>0, <2>4 DEF TypeOK
    <3>2. QED
      <4>1. UNCHANGED <<phase, rpc, cur, targets, exact, wild, substate, todo, joined, queue,
                        published, dropped, reported, signal, shutdown, routed, log>>
        BY <1>1 DEF BeginPublish
      <4> HIDE DEF pubVars, runVars, subVars, monVars
      <4>2. QED
        BY <1>0, <2>2, <2>3, <3>1, <4>1 DEF TypeOK
  <2>6. Blocked' = Blocked \cup {p} /\ p \notin Blocked
    <3>1. sending \in [Publishers -> Event \cup {None}] /\ sending[p] = None
      BY <1>0, <1>1 DEF BeginPublish, TypeOK
    <3>2. sending' = [sending EXCEPT ![p] = [src |-> p, n |-> sent[p] + 1, type |-> t]]
      BY <1>1 DEF BeginPublish
    <3>3. [src |-> p, n |-> sent[p] + 1, type |-> t] # None
      BY <2>1, Bounds
    <3>4. QED
      BY <3>1, <3>2, <3>3 DEF Blocked
  <2>7. Cardinality(Blocked') = Cardinality(Blocked) + 1
    BY <2>6, BlockedFinite, FS_AddElement
  <2>8. DepthAccounting'
    BY <1>0, <2>4, <2>7, BlockedFinite DEF DepthAccounting
  <2>9. QED
    BY <2>5, <2>8 DEF Inv
<1>2. ASSUME EndPublish(p) PROVE Inv'
  <2>1. sending[p] \in Event
    BY <1>0, <1>2 DEF EndPublish, TypeOK
  <2>2. ingest' \in Seq(Event) /\ Len(ingest') = Len(ingest) + 1
    BY <1>0, <1>2, <2>1, AppendProperties DEF EndPublish, TypeOK
  <2>3. Len(ingest') <= IngestCap
    BY <1>0, <1>2, <2>2, Bounds DEF EndPublish, HasSlot
  <2>4. sending' \in [Publishers -> Event \cup {None}]
    BY <1>0, <1>2 DEF EndPublish, TypeOK
  <2>5. TypeOK'
    BY <1>0, <1>2, <2>2, <2>3, <2>4 DEF EndPublish, TypeOK
  <2>6. Blocked' = Blocked \ {p} /\ p \in Blocked
    BY <1>0, <1>2 DEF EndPublish, Blocked, TypeOK
  <2>7. Cardinality(Blocked') = Cardinality(Blocked) - 1
    BY <2>6, BlockedFinite, FS_RemoveElement
  <2>8. depth' = depth /\ rpc' = rpc
    BY <1>2 DEF EndPublish
  <2>9. DepthAccounting'
    BY <1>0, <2>2, <2>7, <2>8, BlockedFinite DEF DepthAccounting
  <2>10. QED
    BY <2>5, <2>9 DEF Inv
<1>3. QED
  BY <1>1, <1>2

(* subscribe(), recv() and a dropped receiver touch only their own lists.  *)
LEMMA SubscriberInv ==
  ASSUME Inv, NEW s \in Subscribers,
         \/ BeginSubscribe(s) \/ RegisterPattern(s) \/ EndSubscribe(s)
         \/ Unsubscribe(s) \/ Consume(s)
  PROVE  Inv'
<1> USE DEF pubVars, runVars, subVars, monVars
<1>0. TypeOK /\ DepthAccounting
  BY DEF Inv
<1>1. DepthAccounting'
  BY <1>0, AccountingKept
     DEF BeginSubscribe, RegisterPattern, EndSubscribe, Unsubscribe, Consume
<1>2. CASE BeginSubscribe(s)
  BY <1>0, <1>1, <1>2 DEF BeginSubscribe, TypeOK, Inv
<1>3. CASE RegisterPattern(s)
  <2>1. /\ Head(todo[s]) \in Types \cup {Star} \cup Prefixes
        /\ Tail(todo[s]) \in Seq(Types \cup {Star} \cup Prefixes)
    <3>1. todo[s] \in Seq(Types \cup {Star} \cup Prefixes) /\ todo[s] # <<>>
      BY <1>0, <1>3 DEF RegisterPattern, TypeOK
    <3>2. QED
      BY <3>1, HeadTailProperties
  <2>2. todo' \in [Subscribers -> Seq(Types \cup {Star} \cup Prefixes)]
    BY <1>0, <1>3, <2>1 DEF RegisterPattern, TypeOK
  <2>3. wild' \in Seq(Subscribers)
    <3>1. wild \in Seq(Subscribers) /\ Append(wild, s) \in Seq(Subscribers)
      BY <1>0, AppendProperties DEF TypeOK
    <3>2. wild' = wild \/ wild' = Append(wild, s)
      BY <1>3 DEF RegisterPattern
    <3>3. QED
      BY <3>1, <3>2
  <2>4. exact' \in [Types -> Seq(Subscribers)]
    <3>1. CASE IsWild(Head(todo[s]))
      BY <1>0, <1>3, <3>1 DEF RegisterPattern, TypeOK
    <3>2. CASE ~IsWild(Head(todo[s]))
      <4>1. Head(todo[s]) \in Types
        BY <2>1, <3>2 DEF IsWild
      <4>2. Append(exact[Head(todo[s])], s) \in Seq(Subscribers)
        BY <1>0, <4>1, AppendProperties DEF TypeOK
      <4>3. exact' = [exact EXCEPT ![Head(todo[s])] = Append(@, s)]
        BY <1>3, <3>2 DEF RegisterPattern
      <4>4. QED
        BY <1>0, <4>1, <4>2, <4>3 DEF TypeOK
    <3>3. QED
      BY <3>1, <3>2
  <2>5. QED
    BY <1>0, <1>1, <1>3, <2>2, <2>3, <2>4 DEF RegisterPattern, TypeOK, Inv
<1>4. CASE EndSubscribe(s)
  <2>1. joined' \in [Subscribers -> Nat]
    BY <1>0, <1>4, LenProperties DEF EndSubscribe, TypeOK
  <2>2. QED
    BY <1>0, <1>1, <1>4, <2>1 DEF EndSubscribe, TypeOK, Inv
<1>5. CASE Unsubscribe(s)
  <2>1. <<>> \in Seq(Event) /\ Len(<<>>) <= SubCap
    BY Bounds
  <2>2. /\ queue' \in [Subscribers -> Seq(Event)]
        /\ \A r \in Subscribers : Len(queue'[r]) <= SubCap
    BY <1>0, <1>5, <2>1 DEF Unsubscribe, TypeOK
  <2>3. QED
    BY <1>0, <1>1, <1>5, <2>2 DEF Unsubscribe, TypeOK, Inv
<1>6. CASE Consume(s)
  <2>1. Tail(queue[s]) \in Seq(Event) /\ Len(Tail(queue[s])) <= SubCap
    <3>1. queue[s] \in Seq(Event) /\ queue[s] # <<>> /\ Len(queue[s]) <= SubCap
      BY <1>0, <1>6 DEF Consume, TypeOK
    <3>2. Tail(queue[s]) \in Seq(Event) /\ Len(Tail(queue[s])) = Len(queue[s]) - 1
      BY <3>1, HeadTailProperties
    <3>3. QED
      BY <3>1, <3>2, LenProperties, Bounds
  <2>2. /\ queue' \in [Subscribers -> Seq(Event)]
        /\ \A r \in Subscribers : Len(queue'[r]) <= SubCap
    BY <1>0, <1>6, <2>1 DEF Consume, TypeOK
  <2>3. QED
    BY <1>0, <1>1, <1>6, <2>2 DEF Consume, TypeOK, Inv
<1>7. QED
  BY <1>2, <1>3, <1>4, <1>5, <1>6

(* The router keeps the account: it takes an event out of the channel and  *)
(* then, in a step of its own, off the counter.                            *)
LEMMA RouterInv ==
  ASSUME Inv, Router
  PROVE  Inv'
<1> USE DEF pubVars, runVars, subVars, monVars
<1>0. TypeOK /\ DepthAccounting /\ Len(ingest) \in Nat /\ depth \in Nat
  BY LenProperties DEF Inv, TypeOK
<1>1. CASE Receive
  <2>1. /\ Head(ingest) \in Event
        /\ ingest' \in Seq(Event)
        /\ Len(ingest') = Len(ingest) - 1
    <3>1. ingest \in Seq(Event) /\ ingest # <<>>
      BY <1>0, <1>1 DEF Receive, TypeOK
    <3>2. QED
      BY <1>1, <3>1, HeadTailProperties DEF Receive
  <2>2. routed' \in Seq(Event)
    <3>1. routed \in Seq(Event)
      BY <1>0 DEF TypeOK
    <3>2. QED
      BY <1>1, <2>1, <3>1, AppendProperties DEF Receive
  <2>3. Len(ingest') <= IngestCap
    BY <1>0, <2>1, Bounds DEF TypeOK
  <2>4. TypeOK'
    BY <1>0, <1>1, <2>1, <2>2, <2>3 DEF Receive, TypeOK
  <2>5. Blocked' = Blocked /\ depth' = depth /\ rpc = "recv" /\ rpc' = "account"
    BY <1>1 DEF Receive, Blocked
  <2>6. DepthAccounting'
    BY <1>0, <2>1, <2>5, BlockedFinite DEF DepthAccounting
  <2>7. QED
    BY <2>4, <2>6 DEF Inv
<1>2. CASE Account
  <2>1. Blocked' = Blocked /\ ingest' = ingest /\ rpc = "account" /\ rpc' = "wild"
        /\ depth' = depth - 1
    BY <1>2 DEF Account, Blocked
  <2>2. depth' = Len(ingest) + Cardinality(Blocked)
    BY <1>0, <2>1, BlockedFinite DEF DepthAccounting
  <2>3. depth' \in Nat
    BY <1>0, <2>2, BlockedFinite
  <2>4. DepthAccounting'
    BY <1>0, <2>1, <2>2, BlockedFinite DEF DepthAccounting
  <2>5. targets' \in Seq(Subscribers)
    BY <1>0, <1>2 DEF Account, TypeOK, Event
  <2>6. published' \in Nat
    BY <1>0, <1>2 DEF Account, TypeOK
  <2>7. TypeOK'
    BY <1>0, <1>2, <2>3, <2>5, <2>6 DEF Account, TypeOK
  <2>8. QED
    BY <2>4, <2>7 DEF Inv
<1>3. CASE Snapshot
  <2>1. targets' \in Seq(Subscribers)
    <3>1. targets \in Seq(Subscribers) /\ wild \in Seq(Subscribers)
      BY <1>0 DEF TypeOK
    <3>2. QED
      BY <1>3, <3>1, ConcatProperties DEF Snapshot
  <2>2. rpc' \in {"recv", "send"} /\ (rpc' = "send" => targets' # <<>>)
    BY <1>3 DEF Snapshot
  <2>3. cur' = cur /\ cur \in Event
    BY <1>0, <1>3 DEF Snapshot, TypeOK
  <2>4. TypeOK'
    BY <1>0, <1>3, <2>1, <2>2, <2>3 DEF Snapshot, TypeOK
  <2>5. DepthAccounting'
    BY <1>0, <1>3, <2>2, AccountingKept DEF Snapshot
  <2>6. QED
    BY <2>4, <2>5 DEF Inv
<1>4. CASE Skip \/ Send
  <2>1. rpc = "send" /\ NextTarget
    BY <1>4 DEF Skip, Send, Sending
  <2>2. targets \in Seq(Subscribers) /\ targets # <<>>
    BY <1>0, <2>1 DEF TypeOK
  <2>3. Head(targets) \in Subscribers /\ targets' \in Seq(Subscribers)
    BY <2>1, <2>2, HeadTailProperties DEF NextTarget
  <2>4. rpc' \in {"recv", "send"} /\ (rpc' = "send" => targets' # <<>>)
    BY <2>1 DEF NextTarget
  <2>5. cur' = cur /\ cur \in Event
    BY <1>0, <2>1 DEF NextTarget, TypeOK
  <2>6. /\ queue' \in [Subscribers -> Seq(Event)]
        /\ \A s \in Subscribers : Len(queue'[s]) <= SubCap
        /\ log' \in [Subscribers -> Seq(Event)]
        /\ dropped' \in Nat
    <3>1. CASE UNCHANGED <<queue, log>> /\ dropped' \in {dropped, dropped + 1}
      BY <1>0, <3>1 DEF TypeOK
    <3>2. CASE Deliver(Head(targets))
      <4>1. queue[Head(targets)] \in Seq(Event) /\ log[Head(targets)] \in Seq(Event)
        BY <1>0, <2>3 DEF TypeOK
      <4>2. /\ Append(queue[Head(targets)], cur) \in Seq(Event)
            /\ Append(log[Head(targets)], cur) \in Seq(Event)
            /\ Len(Append(queue[Head(targets)], cur)) = Len(queue[Head(targets)]) + 1
        BY <2>5, <4>1, AppendProperties
      <4>3. Len(Append(queue[Head(targets)], cur)) <= SubCap
        BY <3>2, <4>1, <4>2, LenProperties, Bounds DEF Deliver, HasSlot
      <4>4. QED
        BY <1>0, <3>2, <4>2, <4>3 DEF Deliver, TypeOK
    <3>3. QED
      BY <1>4, <3>1, <3>2 DEF Skip, Send, Drop
  <2>7. TypeOK'
    BY <1>0, <2>1, <2>3, <2>4, <2>5, <2>6 DEF NextTarget, TypeOK
  <2>8. UNCHANGED <<depth, ingest, sending>>
    BY <2>1 DEF NextTarget
  <2>9. DepthAccounting'
    BY <1>0, <2>1, <2>4, <2>8, AccountingKept
  <2>10. QED
    BY <2>7, <2>9 DEF Inv
<1>5. QED
  BY <1>1, <1>2, <1>3, <1>4 DEF Router

(* Starting and stopping the loop, asking for it, and the monitor's tick.  *)
LEMMA ControlInv ==
  ASSUME Inv, Start \/ Stop \/ Shutdown \/ MonitorTick \/ UNCHANGED vars
  PROVE  Inv'
<1> USE DEF pubVars, runVars, subVars, monVars
<1>0. TypeOK /\ DepthAccounting
  BY DEF Inv
<1>1. DepthAccounting'
  BY <1>0, AccountingKept DEF Start, Stop, Shutdown, MonitorTick, vars
<1>2. CASE Start
  BY <1>0, <1>1, <1>2 DEF Start, TypeOK, Inv
<1>3. CASE Stop
  BY <1>0, <1>1, <1>3 DEF Stop, TypeOK, Inv
<1>4. CASE Shutdown
  BY <1>0, <1>1, <1>4 DEF Shutdown, TypeOK, Inv
<1>5. CASE MonitorTick
  BY <1>0, <1>1, <1>5 DEF MonitorTick, Level, TypeOK, Inv
<1>6. CASE UNCHANGED vars
  BY <1>0, <1>1, <1>6 DEF vars, TypeOK, Inv
<1>7. QED
  BY <1>2, <1>3, <1>4, <1>5, <1>6

(* Every step keeps the types and the account.                             *)
LEMMA NextInv == Inv /\ [Next]_vars => Inv'
BY PublishInv, SubscriberInv, RouterInv, ControlInv DEF Next

(* Type correctness: every channel of the bus stays within its capacity,   *)
(* the router's target list is never empty at a send (lib.rs:62-81), and   *)
(* ingest_depth is never decremented below zero (lib.rs:227).              *)
THEOREM TypeCorrect == Spec => []TypeOK
BY InitInv, NextInv, PTL DEF Spec, Inv

(* ingest_depth counts exactly the publish() calls begun and not yet taken *)
(* off by the router, in every interleaving of publishers and router       *)
(* (lib.rs:227, 275).                                                      *)
THEOREM DepthIsExact == Spec => []DepthAccounting
BY InitInv, NextInv, PTL DEF Spec, Inv

(* What the monitor may have sampled, and the signal it sent with it.      *)
SampleInv ==
  /\ signal = Level(reported)
  /\ reported <= IngestCap + Cardinality(Publishers) + 1

(* The counter never exceeds the channel, the blocked calls and the event  *)
(* that is between recv() and fetch_sub().                                 *)
LEMMA DepthBound ==
  ASSUME Inv
  PROVE  depth <= IngestCap + Cardinality(Publishers) + 1
<1>1. Cardinality(Blocked) <= Cardinality(Publishers) /\ Cardinality(Publishers) \in Nat
  BY BusAssumption, FS_Subset, FS_CardinalityType DEF BusAssumption, Blocked
<1>2. Len(ingest) \in Nat /\ Len(ingest) <= IngestCap
  BY LenProperties DEF Inv, TypeOK
<1>3. QED
  BY <1>1, <1>2, Bounds, BlockedFinite DEF Inv, DepthAccounting

(* The whole percentage of a fraction below 256% survives the cast to u8.  *)
LEMMA UsageExact ==
  ASSUME NEW d \in Nat, d * 100 < 256 * IngestCap, d * 100 >= 90 * IngestCap
  PROVE  Usage(d) >= 90
<1> DEFINE q == (d * 100) \div IngestCap
<1>1. IngestCap \in Nat /\ IngestCap > 0
  BY BusAssumption DEF BusAssumption
<1>2. q \in Int /\ q * IngestCap <= d * 100 /\ d * 100 < (q + 1) * IngestCap
  BY <1>1
<1>3. q >= 90
  BY <1>1, <1>2
<1>4. q < 256
  BY <1>1, <1>2
<1>5. q % 256 = q
  BY <1>2, <1>3, <1>4
<1>6. QED
  BY <1>3, <1>5 DEF Usage

(* If the publisher tasks are few enough for the channel (fewer than 1.56  *)
(* per slot), the u8 percentage of the monitor (lib.rs:249-259) cannot     *)
(* wrap, and a full channel is always reported as Critical.                *)
THEOREM CriticalWhenFull ==
  ASSUME 100 * (Cardinality(Publishers) + 1) < 156 * IngestCap
  PROVE  Spec => []FullMeansCritical
<1>1. Cardinality(Publishers) \in Nat
  BY BusAssumption, FS_CardinalityType DEF BusAssumption
<1>2. Init => SampleInv
  <2>1. IngestCap \in Nat /\ IngestCap > 0
    BY BusAssumption DEF BusAssumption
  <2>2. Usage(0) = 0
    BY <2>1 DEF Usage
  <2>3. QED
    BY <1>1, <2>1, <2>2 DEF Init, SampleInv, Level
<1>3. Inv /\ SampleInv /\ [Next]_vars => SampleInv'
  <2> SUFFICES ASSUME Inv, SampleInv, [Next]_vars PROVE SampleInv'
    OBVIOUS
  <2> USE DEF pubVars, runVars, subVars, monVars
  <2>1. CASE MonitorTick
    BY <2>1, DepthBound DEF MonitorTick, SampleInv, Level, Usage
  <2>2. CASE UNCHANGED <<reported, signal>>
    BY <2>2 DEF SampleInv, Level, Usage
  <2>3. QED
    BY <2>1, <2>2 DEF Next, Router, BeginPublish, EndPublish, BeginSubscribe,
       RegisterPattern, EndSubscribe, Unsubscribe, Consume, Start, Receive, Account,
       Snapshot, Skip, Send, NextTarget, Stop, Shutdown, vars
<1>4. Inv /\ SampleInv => FullMeansCritical
  <2> SUFFICES ASSUME Inv, SampleInv, reported * 100 >= 90 * IngestCap
               PROVE  signal = "Critical"
    BY DEF FullMeansCritical
  <2>1. reported \in Nat
    BY DEF Inv, TypeOK
  <2>2. reported * 100 < 256 * IngestCap
    BY <1>1, <2>1, Bounds DEF SampleInv
  <2>3. Usage(reported) >= 90
    BY <2>1, <2>2, UsageExact
  <2>4. QED
    BY <2>3 DEF SampleInv, Level
<1>5. QED
  BY <1>2, <1>3, <1>4, InitInv, NextInv, PTL DEF Spec

-----------------------------------------------------------------------------
(* The order of events on their way from publisher to subscriber. *)

Before(e, f) == e.src = f.src => e.n < f.n

(* e is behind the router: it was published before whatever its publisher  *)
(* has in the channel or in a pending send.                                *)
Past(e) ==
  /\ e.n <= sent[e.src]
  /\ \A i \in DOMAIN ingest : Before(e, ingest[i])
  /\ sending[e.src] # None => e.n < sending[e.src].n

(* The pending send of a publisher is its newest event ...                 *)
PendingNewest ==
  \A p \in Publishers : sending[p] # None => sending[p].src = p /\ sending[p].n = sent[p]

(* ... the channel holds older ones, in order ...                          *)
ChannelOrdered ==
  /\ \A i, j \in DOMAIN ingest : i < j => Before(ingest[i], ingest[j])
  /\ \A i \in DOMAIN ingest :
       /\ ingest[i].n <= sent[ingest[i].src]
       /\ sending[ingest[i].src] # None => ingest[i].n < sending[ingest[i].src].n

(* ... and what the router has taken is older still, the one it is busy    *)
(* with being the last.                                                    *)
RoutedOrdered ==
  /\ \A i, j \in DOMAIN routed : i < j => Before(routed[i], routed[j])
  /\ \A i \in DOMAIN routed : Past(routed[i])
  /\ rpc # "recv" => routed # <<>> /\ cur = routed[Len(routed)]

(* A subscriber is sent nothing but events the router has taken.           *)
LogsRouted ==
  \A s \in Subscribers : \A i \in DOMAIN log[s] :
    \E k \in DOMAIN routed : log[s][i] = routed[k]

OrderInv == PendingNewest /\ ChannelOrdered /\ RoutedOrdered /\ LogsRouted /\ PublisherOrder

(* An event's source is a publisher and its number a number.               *)
LEMMA EventFields ==
  ASSUME NEW e \in Event
  PROVE  /\ e.src \in Publishers /\ e.n \in Nat /\ e.type \in Types
         /\ e # None
<1>1. e # None
  BY Bounds
<1>2. PICK p \in Publishers : e \in [src : {p}, n : 1..MaxPublish[p], type : Types]
  BY DEF Event
<1>3. MaxPublish[p] \in Nat
  BY Bounds
<1>4. QED
  BY <1>1, <1>2, <1>3

(* What the sequences hold, one element at a time.                         *)
LEMMA Elements ==
  ASSUME TypeOK
  PROVE  /\ Len(ingest) \in Nat /\ DOMAIN ingest = 1..Len(ingest)
         /\ \A i \in DOMAIN ingest : ingest[i] \in Event
         /\ Len(routed) \in Nat /\ DOMAIN routed = 1..Len(routed)
         /\ \A i \in DOMAIN routed : routed[i] \in Event
         /\ \A s \in Subscribers : /\ Len(log[s]) \in Nat /\ DOMAIN log[s] = 1..Len(log[s])
                                   /\ \A i \in DOMAIN log[s] : log[s][i] \in Event
<1>1. ingest \in Seq(Event) /\ routed \in Seq(Event) /\ \A s \in Subscribers : log[s] \in Seq(Event)
  BY DEF TypeOK
<1>2. QED
  BY <1>1, LenProperties, ElementOfSeq

(* A step that moves no event keeps the order.                             *)
LEMMA OrderKept ==
  ASSUME OrderInv, UNCHANGED <<sent, sending, ingest, routed, log, cur>>,
         rpc' # "recv" => rpc # "recv"
  PROVE  OrderInv'
BY DEF OrderInv, PendingNewest, ChannelOrdered, RoutedOrdered, Past, Before, LogsRouted,
       PublisherOrder


(* publish() gives its event a number above all before it; the channel     *)
(* takes the pending events in at its end.                                 *)
LEMMA PublishOrder ==
  ASSUME TypeOK, OrderInv, NEW p \in Publishers,
         EndPublish(p) \/ \E t \in Types : BeginPublish(p, t)
  PROVE  OrderInv'
<1> USE DEF runVars
<1>0. /\ sent \in [Publishers -> Nat]
      /\ sending \in [Publishers -> Event \cup {None}]
  BY DEF TypeOK
<1>1. UNCHANGED <<routed, log, cur, rpc>>
  BY DEF BeginPublish, EndPublish
<1>2. PublisherOrder' /\ LogsRouted'
  BY <1>1 DEF OrderInv, PublisherOrder, LogsRouted
<1>3. SUFFICES ASSUME \A i \in DOMAIN routed : Past(routed[i])'
               PROVE  PendingNewest' /\ ChannelOrdered'
  <2>1. CASE EndPublish(p)
    <3>0. sending[p] \in Event /\ sending[p].src = p
      BY <1>0, <2>1 DEF EndPublish, OrderInv, PendingNewest
    <3>1. ASSUME NEW i \in DOMAIN routed PROVE Past(routed[i])'
      <4> DEFINE e == routed[i]
      <4>1. e \in Event /\ e.src \in Publishers /\ Past(e)
        BY Elements, EventFields DEF OrderInv, RoutedOrdered
      <4> HIDE DEF e
      <4>2. sent' = sent /\ sending' = [sending EXCEPT ![p] = None]
            /\ ingest' = Append(ingest, sending[p]) /\ sending[p] # None
        BY <2>1 DEF EndPublish
      <4>3. ingest \in Seq(Event)
        BY DEF TypeOK
      <4>4. Before(e, sending[p])
        BY <3>0, <4>1, <4>2 DEF Past, Before
      <4>5. \A j \in DOMAIN ingest' : Before(e, ingest'[j])
        <5>1. ASSUME NEW j \in DOMAIN ingest' PROVE Before(e, ingest'[j])
          <6>1. /\ DOMAIN ingest' = 1..(Len(ingest) + 1) /\ Len(ingest) \in Nat
                /\ DOMAIN ingest = 1..Len(ingest)
                /\ \A k \in 1..Len(ingest) : ingest'[k] = ingest[k]
                /\ ingest'[Len(ingest) + 1] = sending[p]
            BY <3>0, <4>2, <4>3, AppendProperties, LenProperties
          <6>2. j \in DOMAIN ingest \/ j = Len(ingest) + 1
            BY <6>1
          <6>3. QED
            BY <6>1, <6>2, <4>1, <4>4 DEF Past
        <5>2. QED
          BY <5>1
      <4>6. sending'[e.src] # None => e.n < sending'[e.src].n
        BY <1>0, <4>1, <4>2 DEF Past
      <4>7. e.n <= sent'[e.src]
        BY <4>1, <4>2 DEF Past
      <4>8. routed'[i] = e
        BY <1>1 DEF e
      <4>9. QED
        BY <4>5, <4>6, <4>7, <4>8 DEF Past, Before
    <3>2. QED
      BY <1>1, <1>2, <1>3, <3>1 DEF OrderInv, RoutedOrdered, Before
  <2>2. ASSUME NEW t \in Types, BeginPublish(p, t) PROVE OrderInv'
    <3>1. ASSUME NEW i \in DOMAIN routed PROVE Past(routed[i])'
      <4>1. routed[i].src \in Publishers /\ routed[i].n \in Nat /\ Past(routed[i])
        BY Elements, EventFields DEF OrderInv, RoutedOrdered
      <4>2. /\ sent' = [sent EXCEPT ![p] = sent[p] + 1]
            /\ sending' = [sending EXCEPT ![p] = [src |-> p, n |-> sent[p] + 1, type |-> t]]
            /\ ingest' = ingest
        BY <2>2 DEF BeginPublish
      <4>3. routed[i].n <= sent'[routed[i].src]
        BY <1>0, <4>1, <4>2 DEF Past
      <4>4. sending'[routed[i].src] # None => routed[i].n < sending'[routed[i].src].n
        <5>1. CASE routed[i].src = p
          BY <1>0, <4>1, <4>2, <5>1 DEF Past
        <5>2. CASE routed[i].src # p
          BY <1>0, <4>1, <4>2, <5>2 DEF Past
        <5>3. QED
          BY <5>1, <5>2
      <4>5. QED
        BY <1>1, <4>1, <4>2, <4>3, <4>4 DEF Past, Before
    <3>2. QED
      BY <1>1, <1>2, <1>3, <3>1 DEF OrderInv, RoutedOrdered, Before
  <2>3. QED
    BY <2>1, <2>2
<1>4. CASE EndPublish(p)
  <2>1. sending[p] \in Event /\ sending[p].src = p /\ sending[p].n = sent[p]
    BY <1>0, <1>4 DEF EndPublish, OrderInv, PendingNewest
  <2>2. /\ sent' = sent /\ sending' = [sending EXCEPT ![p] = None]
        /\ ingest' = Append(ingest, sending[p]) /\ sending[p] # None
    BY <1>4 DEF EndPublish
  <2>3. PendingNewest'
    BY <1>0, <2>2 DEF OrderInv, PendingNewest
  <2>4. /\ DOMAIN ingest' = 1..(Len(ingest) + 1) /\ Len(ingest) \in Nat
        /\ DOMAIN ingest = 1..Len(ingest)
        /\ \A k \in 1..Len(ingest) : ingest'[k] = ingest[k]
        /\ ingest'[Len(ingest) + 1] = sending[p]
    <3>1. ingest \in Seq(Event)
      BY DEF TypeOK
    <3>2. QED
      BY <2>1, <2>2, <3>1, AppendProperties, LenProperties
  <2>5. ASSUME NEW i \in DOMAIN ingest
        PROVE  /\ ingest[i].src \in Publishers /\ ingest[i].n \in Nat
               /\ ingest[i].n <= sent[ingest[i].src]
               /\ sending[ingest[i].src] # None => ingest[i].n < sending[ingest[i].src].n
               /\ Before(ingest[i], sending[p])
    <3>1. ingest[i].src \in Publishers /\ ingest[i].n \in Nat
      BY Elements, EventFields
    <3>2. /\ ingest[i].n <= sent[ingest[i].src]
          /\ sending[ingest[i].src] # None => ingest[i].n < sending[ingest[i].src].n
      BY DEF OrderInv, ChannelOrdered
    <3>3. QED
      BY <2>1, <2>2, <3>1, <3>2 DEF Before
  <2>6. ASSUME NEW i \in DOMAIN ingest'
        PROVE  /\ ingest'[i].n <= sent'[ingest'[i].src]
               /\ sending'[ingest'[i].src] # None
                    => ingest'[i].n < sending'[ingest'[i].src].n
    <3>1. CASE i \in DOMAIN ingest
      BY <1>0, <2>2, <2>4, <2>5, <3>1
    <3>2. CASE i = Len(ingest) + 1
      <4>1. sent[p] \in Nat /\ sending'[p] = None
        BY <1>0, <2>2
      <4>2. QED
        BY <2>1, <2>2, <2>4, <3>2, <4>1
    <3>3. QED
      BY <2>4, <3>1, <3>2
  <2>7. ASSUME NEW i \in DOMAIN ingest', NEW j \in DOMAIN ingest', i < j
        PROVE  Before(ingest'[i], ingest'[j])
    <3>1. i \in DOMAIN ingest /\ (j \in DOMAIN ingest \/ j = Len(ingest) + 1)
      BY <2>4, <2>7
    <3>2. QED
      BY <2>4, <2>5, <2>7, <3>1 DEF OrderInv, ChannelOrdered
  <2>8. QED
    BY <2>3, <2>6, <2>7 DEF ChannelOrdered, Before
<1>5. ASSUME NEW t \in Types, BeginPublish(p, t)
      PROVE  PendingNewest' /\ ChannelOrdered'
  <2>1. /\ sent' = [sent EXCEPT ![p] = sent[p] + 1]
        /\ sending' = [sending EXCEPT ![p] = [src |-> p, n |-> sent[p] + 1, type |-> t]]
        /\ ingest' = ingest
    BY <1>5 DEF BeginPublish
  <2>2. PendingNewest'
    BY <1>0, <2>1 DEF OrderInv, PendingNewest
  <2>3. ASSUME NEW i \in DOMAIN ingest
        PROVE  /\ ingest[i].n <= sent'[ingest[i].src]
               /\ sending'[ingest[i].src] # None => ingest[i].n < sending'[ingest[i].src].n
    <3>1. ingest[i].src \in Publishers /\ ingest[i].n \in Nat
      BY Elements, EventFields
    <3>2. /\ ingest[i].n <= sent[ingest[i].src]
          /\ sending[ingest[i].src] # None => ingest[i].n < sending[ingest[i].src].n
      BY DEF OrderInv, ChannelOrdered
    <3>3. CASE ingest[i].src = p
      <4>1. sent'[p] = sent[p] + 1 /\ sent[p] \in Nat /\ sending'[p].n = sent[p] + 1
        BY <1>0, <2>1
      <4>2. QED
        BY <3>1, <3>2, <3>3, <4>1
    <3>4. CASE ingest[i].src # p
      BY <1>0, <2>1, <3>1, <3>2, <3>4
    <3>5. QED
      BY <3>3, <3>4
  <2>4. QED
    BY <2>1, <2>2, <2>3 DEF OrderInv, ChannelOrdered, Before
<1>6. QED
  BY <1>4, <1>5

(* The router takes the oldest event of the channel.                       *)
LEMMA ReceiveOrder ==
  ASSUME TypeOK, OrderInv, Receive
  PROVE  OrderInv'
<1> USE DEF pubVars
<1>1. /\ UNCHANGED <<sent, sending, log>> /\ cur' = Head(ingest)
      /\ ingest' = Tail(ingest) /\ routed' = Append(routed, Head(ingest)) /\ ingest # <<>>
  BY DEF Receive
<1>2. ingest \in Seq(Event) /\ routed \in Seq(Event)
  BY DEF TypeOK
<1>3. /\ Len(ingest) \in Nat /\ Len(ingest) > 0 /\ DOMAIN ingest = 1..Len(ingest)
      /\ DOMAIN ingest' = 1..(Len(ingest) - 1)
      /\ \A i \in DOMAIN ingest' : ingest'[i] = ingest[i + 1] /\ i + 1 \in DOMAIN ingest
      /\ 1 \in DOMAIN ingest /\ Head(ingest) = ingest[1] /\ ingest[1] \in Event
  BY <1>1, <1>2, HeadTailProperties, LenProperties, EmptySeq, ElementOfSeq
<1>4. /\ Len(routed) \in Nat /\ DOMAIN routed = 1..Len(routed)
      /\ DOMAIN routed' = 1..(Len(routed) + 1) /\ Len(routed') = Len(routed) + 1
      /\ routed' # <<>> /\ routed'[Len(routed) + 1] = ingest[1]
      /\ \A i \in DOMAIN routed : routed'[i] = routed[i]
  BY <1>1, <1>2, <1>3, AppendProperties, LenProperties
<1>5. PendingNewest' /\ PublisherOrder'
  BY <1>1 DEF OrderInv, PendingNewest, PublisherOrder
<1>6. ChannelOrdered'
  <2>1. ASSUME NEW i \in DOMAIN ingest', NEW j \in DOMAIN ingest', i < j
        PROVE  Before(ingest'[i], ingest'[j])
    <3>1. i + 1 < j + 1
      BY <1>3, <2>1
    <3>2. QED
      BY <1>3, <3>1 DEF OrderInv, ChannelOrdered
  <2>2. QED
    BY <1>1, <1>3, <2>1 DEF OrderInv, ChannelOrdered, Before
<1>7. PICK e : e = ingest[1]
  OBVIOUS
<1>8. e \in Event /\ e.src \in Publishers /\ e.n \in Nat
  BY <1>3, <1>7, EventFields
<1>9. Past(e)'
  <2>1. ASSUME NEW i \in DOMAIN ingest' PROVE Before(e, ingest'[i])
    <3>1. 1 < i + 1
      BY <1>3
    <3>2. QED
      BY <1>3, <1>7, <3>1 DEF OrderInv, ChannelOrdered
  <2>2. /\ e.n <= sent[e.src]
        /\ sending[e.src] # None => e.n < sending[e.src].n
    BY <1>3, <1>7 DEF OrderInv, ChannelOrdered
  <2>3. QED
    BY <1>1, <2>1, <2>2 DEF Past, Before
<1>10. ASSUME NEW i \in DOMAIN routed
       PROVE  Past(routed[i])' /\ Before(routed[i], e)
  <2>1. PICK f : f = routed[i]
    OBVIOUS
  <2>2. Past(f)
    BY <2>1 DEF OrderInv, RoutedOrdered
  <2>3. Before(f, e)
    BY <1>3, <1>7, <2>2 DEF Past
  <2>4. \A k \in DOMAIN ingest' : Before(f, ingest'[k])
    BY <1>3, <2>2 DEF Past
  <2>5. Past(f)'
    BY <1>1, <2>2, <2>4 DEF Past, Before
  <2>6. routed'[i] = f
    BY <1>4, <2>1
  <2>7. QED
    BY <2>1, <2>3, <2>5, <2>6
<1>11. RoutedOrdered'
  <2>1. ASSUME NEW i \in DOMAIN routed' PROVE Past(routed[i])'
    <3>1. CASE i \in DOMAIN routed
      BY <1>10, <3>1
    <3>2. CASE i = Len(routed) + 1
      <4>1. routed'[i] = e
        BY <1>4, <1>7, <3>2
      <4>2. QED
        BY <1>9, <4>1
    <3>3. QED
      BY <1>4, <3>1, <3>2
  <2>2. ASSUME NEW i \in DOMAIN routed', NEW j \in DOMAIN routed', i < j
        PROVE  Before(routed'[i], routed'[j])
    <3>1. i \in DOMAIN routed /\ (j \in DOMAIN routed \/ j = Len(routed) + 1)
      BY <1>4, <2>2
    <3>2. CASE j \in DOMAIN routed
      BY <1>4, <2>2, <3>1, <3>2 DEF OrderInv, RoutedOrdered
    <3>3. CASE j = Len(routed) + 1
      BY <1>4, <1>7, <1>10, <3>1, <3>3
    <3>4. QED
      BY <3>1, <3>2, <3>3
  <2>3. cur' = routed'[Len(routed')] /\ routed' # <<>>
    BY <1>1, <1>3, <1>4
  <2>4. QED
    BY <2>1, <2>2, <2>3 DEF RoutedOrdered, Before
<1>12. LogsRouted'
  <2>1. ASSUME NEW s \in Subscribers, NEW i \in DOMAIN log[s]
        PROVE  \E k \in DOMAIN routed' : log[s][i] = routed'[k]
    <3>1. PICK k \in DOMAIN routed : log[s][i] = routed[k]
      BY DEF OrderInv, LogsRouted
    <3>2. k \in DOMAIN routed' /\ routed'[k] = routed[k]
      BY <1>4
    <3>3. QED
      BY <3>1, <3>2
  <2>2. QED
    BY <1>1, <2>1 DEF LogsRouted
<1>13. QED
  BY <1>5, <1>6, <1>11, <1>12 DEF OrderInv

(* What a subscriber is sent comes after everything it was sent before.    *)
LEMMA SendOrder ==
  ASSUME TypeOK, OrderInv, Send
  PROVE  OrderInv'
<1> USE DEF pubVars, subVars, monVars
<1>1. /\ UNCHANGED <<sent, sending, ingest, routed, cur>> /\ rpc = "send"
      /\ targets # <<>> /\ cur \in Event
  BY DEF Send, Sending, NextTarget, TypeOK
<1>2. PICK s \in Subscribers : s = Head(targets)
  <2>1. targets \in Seq(Subscribers)
    BY DEF TypeOK
  <2>2. QED
    BY <1>1, <2>1, HeadTailProperties
<1>3. CASE UNCHANGED log
  BY <1>1, <1>3, OrderKept DEF Send, Sending, NextTarget
<1>4. CASE Deliver(s)
  <2>1. log' = [log EXCEPT ![s] = Append(log[s], cur)] /\ log \in [Subscribers -> Seq(Event)]
    BY <1>4 DEF Deliver, TypeOK
  <2>2. /\ Len(log[s]) \in Nat /\ DOMAIN log[s] = 1..Len(log[s])
        /\ DOMAIN log'[s] = 1..(Len(log[s]) + 1)
        /\ \A i \in DOMAIN log[s] : log'[s][i] = log[s][i]
        /\ log'[s][Len(log[s]) + 1] = cur
    <3>1. log[s] \in Seq(Event) /\ log'[s] = Append(log[s], cur)
      BY <2>1
    <3>2. QED
      BY <1>1, <3>1, AppendProperties, LenProperties
  <2>3. \A r \in Subscribers : r # s => log'[r] = log[r]
    BY <2>1
  <2>4. /\ Len(routed) \in DOMAIN routed /\ cur = routed[Len(routed)]
        /\ DOMAIN routed = 1..Len(routed) /\ Len(routed) \in Nat
    <3>1. routed # <<>> /\ cur = routed[Len(routed)]
      BY <1>1 DEF OrderInv, RoutedOrdered
    <3>2. routed \in Seq(Event)
      BY DEF TypeOK
    <3>3. QED
      BY <3>1, <3>2, EmptySeq, LenProperties
  <2>5. PendingNewest' /\ ChannelOrdered' /\ RoutedOrdered'
    <3>1. PendingNewest' /\ ChannelOrdered'
      BY <1>1 DEF OrderInv, PendingNewest, ChannelOrdered, Before
    <3>2. RoutedOrdered'
      BY <1>1 DEF OrderInv, RoutedOrdered, Past, Before
    <3>3. QED
      BY <3>1, <3>2
  <2>6. LogsRouted'
    <3>1. ASSUME NEW r \in Subscribers, NEW i \in DOMAIN log'[r]
          PROVE  \E k \in DOMAIN routed : log'[r][i] = routed[k]
      <4>1. CASE r = s /\ i = Len(log[s]) + 1
        BY <2>2, <2>4, <4>1
      <4>2. CASE i \in DOMAIN log[r] /\ log'[r][i] = log[r][i]
        BY <4>2 DEF OrderInv, LogsRouted
      <4>3. QED
        BY <2>2, <2>3, <4>1, <4>2
    <3>2. QED
      BY <1>1, <3>1 DEF LogsRouted
  <2>7. ASSUME NEW i \in DOMAIN log[s], log[s][i].src = cur.src
        PROVE  log[s][i].n <= cur.n
    <3>1. PICK k \in DOMAIN routed : log[s][i] = routed[k]
      BY DEF OrderInv, LogsRouted
    <3>2. k = Len(routed) \/ k < Len(routed)
      BY <2>4
    <3>3. k < Len(routed) => Before(routed[k], cur)
      BY <2>4 DEF OrderInv, RoutedOrdered
    <3>4. routed[k].n \in Nat /\ cur.n \in Nat
      BY <1>1, Elements, EventFields
    <3>5. QED
      BY <2>4, <2>7, <3>1, <3>2, <3>3, <3>4 DEF Before
  <2>8. PublisherOrder'
    <3>1. ASSUME NEW r \in Subscribers, NEW i \in DOMAIN log'[r], NEW j \in DOMAIN log'[r],
                 i < j, log'[r][i].src = log'[r][j].src
          PROVE  log'[r][i].n <= log'[r][j].n
      <4>1. CASE r # s
        BY <2>3, <3>1, <4>1 DEF OrderInv, PublisherOrder
      <4>2. CASE r = s /\ j \in DOMAIN log[s]
        <5>1. i \in DOMAIN log[s]
          BY <2>2, <3>1, <4>2
        <5>2. QED
          BY <2>2, <3>1, <4>2, <5>1 DEF OrderInv, PublisherOrder
      <4>3. CASE r = s /\ j = Len(log[s]) + 1
        <5>1. i \in DOMAIN log[s]
          BY <2>2, <3>1, <4>3
        <5>2. QED
          BY <2>2, <2>7, <3>1, <4>3, <5>1
      <4>4. QED
        BY <2>2, <4>1, <4>2, <4>3
    <3>2. QED
      BY <3>1 DEF PublisherOrder
  <2>9. QED
    BY <2>5, <2>6, <2>8 DEF OrderInv
<1>5. QED
  BY <1>2, <1>3, <1>4 DEF Send, Drop

(* Order at the start: nothing is on its way.                              *)
LEMMA OrderInit == Init => OrderInv
BY EmptySeq DEF Init, OrderInv, PendingNewest, ChannelOrdered, RoutedOrdered, LogsRouted,
                PublisherOrder

(* Every step keeps the order.                                             *)
LEMMA OrderNext == TypeOK /\ OrderInv /\ [Next]_vars => OrderInv'
<1> SUFFICES ASSUME TypeOK, OrderInv, [Next]_vars PROVE OrderInv'
  OBVIOUS
<1>1. ASSUME NEW p \in Publishers, EndPublish(p) \/ \E t \in Types : BeginPublish(p, t)
      PROVE  OrderInv'
  BY <1>1, PublishOrder
<1>2. ASSUME NEW s \in Subscribers,
             \/ BeginSubscribe(s) \/ RegisterPattern(s) \/ EndSubscribe(s)
             \/ Unsubscribe(s) \/ Consume(s)
      PROVE  OrderInv'
  BY <1>2, OrderKept DEF BeginSubscribe, RegisterPattern, EndSubscribe, Unsubscribe, Consume,
     pubVars, runVars
<1>3. CASE Start \/ Stop \/ Shutdown \/ MonitorTick \/ UNCHANGED vars
  BY <1>3, OrderKept DEF Start, Stop, Shutdown, MonitorTick, vars, pubVars, runVars
<1>4. CASE Account \/ Snapshot \/ Skip
  BY <1>4, OrderKept DEF Account, Snapshot, Skip, NextTarget, pubVars
<1>5. CASE Receive \/ Send
  BY <1>5, ReceiveOrder, SendOrder
<1>6. QED
  BY <1>1, <1>2, <1>3, <1>4, <1>5 DEF Next, Router

(* A subscriber sees the events of one publisher in the order of their     *)
(* publish() calls (lib.rs:62-81, 275), however many publishers and        *)
(* subscribers there are and however long their sends are blocked.         *)
THEOREM OrderCorrect == Spec => []PublisherOrder
<1>1. OrderInv => PublisherOrder
  BY DEF OrderInv
<1>2. Inv => TypeOK
  BY DEF Inv
<1>3. QED
  BY <1>1, <1>2, InitInv, NextInv, OrderInit, OrderNext, PTL DEF Spec

-----------------------------------------------------------------------------
(* Counting the elements of a sequence. *)

CountIn(seq, W) == Cardinality({i \in DOMAIN seq : seq[i] \in W})

(* A count is a natural number, at least one if an element counts.         *)
LEMMA CountNat ==
  ASSUME NEW S, NEW seq \in Seq(S), NEW W
  PROVE  /\ CountIn(seq, W) \in Nat
         /\ CountIn(seq, W) = 0 <=> \A i \in DOMAIN seq : seq[i] \notin W
<1> DEFINE A == {i \in DOMAIN seq : seq[i] \in W}
<1>1. DOMAIN seq = 1..Len(seq) /\ Len(seq) \in Nat
  BY LenProperties
<1>2. IsFiniteSet(DOMAIN seq)
  BY <1>1, FS_Interval
<1>3. IsFiniteSet(A) /\ Cardinality(A) \in Nat
  BY <1>2, FS_Subset, FS_CardinalityType
<1>4. Cardinality(A) = 0 <=> A = {}
  BY <1>3, FS_EmptySet
<1>5. QED
  BY <1>3, <1>4 DEF CountIn

(* Counting one element, as the properties of the bus do.                  *)
LEMMA CountOne ==
  ASSUME NEW seq, NEW x
  PROVE  Count(seq, x) = CountIn(seq, {x})
<1>1. {i \in DOMAIN seq : seq[i] = x} = {i \in DOMAIN seq : seq[i] \in {x}}
  OBVIOUS
<1>2. QED
  BY <1>1 DEF Count, CountIn

(* Two sequences one after the other.                                      *)
LEMMA CountConcat ==
  ASSUME NEW S, NEW one \in Seq(S), NEW two \in Seq(S), NEW W
  PROVE  CountIn(one \o two, W) = CountIn(one, W) + CountIn(two, W)
<1> DEFINE A == {i \in DOMAIN one : one[i] \in W}
           B == {i \in DOMAIN two : two[i] \in W}
           C == {i \in DOMAIN (one \o two) : (one \o two)[i] \in W}
           f == [i \in B |-> i + Len(one)]
           D == {i + Len(one) : i \in B}
<1>1. /\ Len(one) \in Nat /\ DOMAIN one = 1..Len(one)
      /\ Len(two) \in Nat /\ DOMAIN two = 1..Len(two)
      /\ DOMAIN (one \o two) = 1..(Len(one) + Len(two))
      /\ \A i \in 1..(Len(one) + Len(two)) :
           (one \o two)[i] = IF i <= Len(one) THEN one[i] ELSE two[i - Len(one)]
  BY ConcatProperties, LenProperties
<1>2. /\ IsFiniteSet(A) /\ IsFiniteSet(B)
      /\ Cardinality(A) \in Nat /\ Cardinality(B) \in Nat
  <2>1. IsFiniteSet(1..Len(one)) /\ IsFiniteSet(1..Len(two))
    BY <1>1, FS_Interval
  <2>2. A \in SUBSET (1..Len(one)) /\ B \in SUBSET (1..Len(two))
    BY <1>1
  <2>3. QED
    BY <2>1, <2>2, FS_Subset, FS_CardinalityType
<1>3. ExistsBijection(B, D)
  <2>1. B \subseteq Nat
    BY <1>1
  <2>2. f \in Injection(B, D) /\ f \in Surjection(B, D)
    BY <1>1, <2>1 DEF Injection, Surjection, IsInjective
  <2>3. QED
    BY <2>2 DEF ExistsBijection, Bijection
<1>4. IsFiniteSet(D) /\ Cardinality(D) = Cardinality(B)
  BY <1>2, <1>3, FS_Bijection
<1>5. C = A \cup D
  <2>1. ASSUME NEW i \in C PROVE i \in A \cup D
    <3>1. i \in 1..(Len(one) + Len(two))
      BY <1>1
    <3>2. CASE i <= Len(one)
      BY <1>1, <3>1, <3>2
    <3>3. CASE i > Len(one)
      <4>1. i - Len(one) \in B /\ i = (i - Len(one)) + Len(one)
        BY <1>1, <3>1, <3>3
      <4>2. QED
        BY <4>1
    <3>4. QED
      BY <1>1, <3>1, <3>2, <3>3
  <2>2. ASSUME NEW i \in A PROVE i \in C
    BY <1>1
  <2>3. ASSUME NEW j \in B PROVE j + Len(one) \in C
    BY <1>1
  <2>4. QED
    BY <2>1, <2>2, <2>3
<1>6. A \cap D = {}
  BY <1>1
<1>7. Cardinality(C) = Cardinality(A) + Cardinality(B)
  <2> HIDE DEF A, B, C, D, f
  <2>1. Cardinality(A \cup D) = Cardinality(A) + Cardinality(D) - Cardinality({})
    <3>1. Cardinality(A \cup D)
            = Cardinality(A) + Cardinality(D) - Cardinality(A \cap D)
      BY <1>2, <1>4, FS_Union
    <3>2. QED
      BY <1>6, <3>1
  <2>2. Cardinality({}) = 0
    BY FS_EmptySet
  <2>3. QED
    BY <1>2, <1>4, <1>5, <2>1, <2>2
<1>8. QED
  BY <1>7 DEF CountIn

(* An element added at the end, or taken from the front.                   *)
LEMMA CountEnds ==
  ASSUME NEW S, NEW seq \in Seq(S), NEW W
  PROVE  /\ \A x \in S : CountIn(Append(seq, x), W)
                           = CountIn(seq, W) + (IF x \in W THEN 1 ELSE 0)
         /\ seq # <<>> => CountIn(seq, W)
                           = CountIn(Tail(seq), W) + (IF Head(seq) \in W THEN 1 ELSE 0)
<1>1. ASSUME NEW x \in S PROVE CountIn(<<x>>, W) = IF x \in W THEN 1 ELSE 0
  <2>1. DOMAIN <<x>> = {1} /\ <<x>>[1] = x
    OBVIOUS
  <2>2. {i \in DOMAIN <<x>> : <<x>>[i] \in W} = IF x \in W THEN {1} ELSE {}
    BY <2>1
  <2>3. Cardinality({}) = 0 /\ Cardinality({1}) = 1
    BY FS_EmptySet, FS_Singleton
  <2>4. QED
    BY <2>2, <2>3 DEF CountIn
<1>2. ASSUME NEW x \in S
      PROVE  CountIn(Append(seq, x), W) = CountIn(seq, W) + (IF x \in W THEN 1 ELSE 0)
  <2>1. Append(seq, x) = seq \o <<x>> /\ <<x>> \in Seq(S)
    BY AppendIsConcat
  <2>2. CountIn(seq \o <<x>>, W) = CountIn(seq, W) + CountIn(<<x>>, W)
    BY <2>1, CountConcat
  <2>3. QED
    BY <1>1, <2>1, <2>2
<1>3. ASSUME seq # <<>>
      PROVE  CountIn(seq, W) = CountIn(Tail(seq), W) + (IF Head(seq) \in W THEN 1 ELSE 0)
  <2>1. /\ Head(seq) \in S /\ Tail(seq) \in Seq(S) /\ <<Head(seq)>> \in Seq(S)
        /\ seq = <<Head(seq)>> \o Tail(seq)
    BY <1>3, HeadTailProperties
  <2>2. CountIn(<<Head(seq)>> \o Tail(seq), W)
          = CountIn(<<Head(seq)>>, W) + CountIn(Tail(seq), W)
    BY <2>1, CountConcat
  <2>3. CountIn(Tail(seq), W) \in Nat
    BY <2>1, CountNat
  <2>4. CountIn(<<Head(seq)>>, W) = IF Head(seq) \in W THEN 1 ELSE 0
    BY <1>1, <2>1
  <2>5. CountIn(seq, W) = CountIn(<<Head(seq)>> \o Tail(seq), W)
    BY <2>1, Zenon
  <2>6. CountIn(seq, W) = CountIn(<<Head(seq)>>, W) + CountIn(Tail(seq), W)
    BY <2>2, <2>5, Zenon
  <2>7. QED
    BY <2>3, <2>4, <2>6
<1>4. QED
  BY <1>2, <1>3

-----------------------------------------------------------------------------
(* Who is in the router's lists, and how often. *)

Wilds == {Star} \cup Prefixes

(* A registered pattern has put its subscriber in one list once.           *)
Registered ==
  \A s \in Subscribers :
    /\ CountIn(wild, {s}) + CountIn(todo[s], Wilds) = CountIn(Patterns[s], Wilds)
    /\ \A t \in Types :
         CountIn(exact[t], {s}) + CountIn(todo[s], {t}) = CountIn(Patterns[s], {t})
    /\ substate[s] = "active" => todo[s] = <<>>

(* How often the log of s holds the i-th event routed.                     *)
Due(s, i) ==
  LET e == routed[i]
      left == IF Matches(s, e) THEN CountIn(targets, {s}) ELSE 0
  IN  IF i < Len(routed) \/ rpc = "recv" THEN Entries(s, e)
      ELSE IF rpc = "send" THEN Entries(s, e) - left
      ELSE 0

(* The property, and what it needs of the exact snapshot between the two   *)
(* locks that route() takes.                                               *)
Delivery ==
  \A s \in Subscribers : substate[s] = "active" =>
    /\ \A i \in (joined[s] + 1)..Len(routed) : CountIn(log[s], {routed[i]}) = Due(s, i)
    /\ rpc = "wild" /\ joined[s] < Len(routed) =>
         CountIn(targets, {s}) = CountIn(Patterns[s], {cur.type})

(* An event that matches is sent once per wildcard pattern and once per    *)
(* pattern that is its type.                                               *)
LEMMA EntriesSum ==
  ASSUME NEW s \in Subscribers, NEW e \in Event
  PROVE  /\ Matches(s, e) => Entries(s, e) = CountIn(Patterns[s], Wilds)
                                             + CountIn(Patterns[s], {e.type})
         /\ ~Matches(s, e) => Entries(s, e) = 0
<1> DEFINE A == {i \in DOMAIN Patterns[s] : Patterns[s][i] \in Wilds}
           B == {i \in DOMAIN Patterns[s] : Patterns[s][i] \in {e.type}}
           C == {i \in DOMAIN Patterns[s] : IsWild(Patterns[s][i]) \/ Patterns[s][i] = e.type}
<1>1. C = A \cup B
  BY DEF IsWild, Wilds
<1>2. A \cap B = {}
  <2>1. e.type \in Types
    BY EventFields
  <2>2. e.type \notin Wilds
    BY <2>1, BusAssumption DEF BusAssumption, Wilds
  <2>3. QED
    BY <2>2
<1>3. Patterns[s] \in Seq(Types \cup {Star} \cup Prefixes)
  BY BusAssumption DEF BusAssumption
<1>4. /\ IsFiniteSet(A) /\ IsFiniteSet(B)
      /\ Cardinality(A) \in Nat /\ Cardinality(B) \in Nat
  <2>1. Len(Patterns[s]) \in Nat /\ DOMAIN Patterns[s] = 1..Len(Patterns[s])
    BY <1>3, LenProperties
  <2>2. IsFiniteSet(DOMAIN Patterns[s])
    BY <2>1, FS_Interval
  <2>3. QED
    BY <2>2, FS_Subset, FS_CardinalityType
<1>5. Cardinality(C) = Cardinality(A) + Cardinality(B)
  <2> HIDE DEF A, B, C
  <2>1. Cardinality(A \cup B) = Cardinality(A) + Cardinality(B) - Cardinality(A \cap B)
    BY <1>4, FS_Union
  <2>2. Cardinality({}) = 0
    BY FS_EmptySet
  <2>3. Cardinality(A \cap B) = 0 /\ Cardinality(C) = Cardinality(A \cup B)
    BY <1>1, <1>2, <2>2, Zenon
  <2>4. QED
    BY <1>4, <2>1, <2>3
<1>6. QED
  BY <1>5 DEF Entries, CountIn

(* One iteration of the loop in subscribe() moves a pattern from what is   *)
(* to be registered to the list the router will look it up in.             *)
LEMMA RegisterKeeps ==
  ASSUME TypeOK, Registered, NEW s \in Subscribers, RegisterPattern(s)
  PROVE  Registered'
<1> DEFINE pattern == Head(todo[s])
<1>1. /\ todo[s] # <<>> /\ todo' = [todo EXCEPT ![s] = Tail(todo[s])]
      /\ substate' = substate /\ substate[s] = "registering"
      /\ IF IsWild(pattern)
           THEN wild' = Append(wild, s) /\ exact' = exact
           ELSE exact' = [exact EXCEPT ![pattern] = Append(exact[pattern], s)] /\ wild' = wild
  BY DEF RegisterPattern
<1>2. /\ todo \in [Subscribers -> Seq(Types \cup {Star} \cup Prefixes)]
      /\ wild \in Seq(Subscribers) /\ exact \in [Types -> Seq(Subscribers)]
  BY DEF TypeOK
<1>3. pattern \in Types \cup {Star} \cup Prefixes
  BY <1>1, <1>2, HeadTailProperties
<1>4. todo'[s] = Tail(todo[s]) /\ \A r \in Subscribers : r # s => todo'[r] = todo[r]
  BY <1>1, <1>2
<1> HIDE DEF pattern
<1>5. \A W : CountIn(todo[s], W) = CountIn(todo'[s], W) + (IF pattern \in W THEN 1 ELSE 0)
  <2>1. todo[s] \in Seq(Types \cup {Star} \cup Prefixes)
    BY <1>2
  <2>2. QED
    BY <1>1, <1>4, <2>1, CountEnds DEF pattern
<1>6. IsWild(pattern) <=> pattern \in Wilds
  BY DEF IsWild, Wilds
<1>7. \A t \in Types : t \notin Wilds
  BY BusAssumption DEF BusAssumption, Wilds
<1>8. ASSUME NEW r \in Subscribers
      PROVE  /\ CountIn(wild', {r}) = CountIn(wild, {r})
                   + (IF r = s /\ IsWild(pattern) THEN 1 ELSE 0)
             /\ \A t \in Types : CountIn(exact'[t], {r}) = CountIn(exact[t], {r})
                   + (IF r = s /\ pattern = t THEN 1 ELSE 0)
  <2>1. CountIn(wild, {r}) \in Nat /\ \A t \in Types : CountIn(exact[t], {r}) \in Nat
    BY <1>2, CountNat
  <2>2. /\ CountIn(Append(wild, s), {r}) = CountIn(wild, {r}) + (IF r = s THEN 1 ELSE 0)
        /\ \A t \in Types : CountIn(Append(exact[t], s), {r})
                              = CountIn(exact[t], {r}) + (IF r = s THEN 1 ELSE 0)
    <3>1. s \in {r} <=> r = s
      OBVIOUS
    <3>2. \A seq \in Seq(Subscribers) :
            CountIn(Append(seq, s), {r}) = CountIn(seq, {r}) + (IF s \in {r} THEN 1 ELSE 0)
      BY CountEnds
    <3>3. QED
      BY <1>2, <3>1, <3>2
  <2>3. CASE IsWild(pattern)
    <3>1. \A t \in Types : pattern # t
      BY <1>6, <1>7, <2>3
    <3>2. wild' = Append(wild, s) /\ exact' = exact
      BY <1>1, <2>3
    <3>3. CountIn(wild', {r}) = CountIn(Append(wild, s), {r})
      BY <3>2, Zenon
    <3>4. CountIn(wild', {r}) = CountIn(wild, {r})
                   + (IF r = s /\ IsWild(pattern) THEN 1 ELSE 0)
      BY <2>2, <2>3, <3>3
    <3>5. ASSUME NEW t \in Types
          PROVE  CountIn(exact'[t], {r}) = CountIn(exact[t], {r})
                   + (IF r = s /\ pattern = t THEN 1 ELSE 0)
      <4>1. CountIn(exact'[t], {r}) = CountIn(exact[t], {r})
        BY <3>2, Zenon
      <4>2. QED
        BY <2>1, <3>1, <4>1
    <3>6. QED
      BY <3>4, <3>5
  <2>4. CASE ~IsWild(pattern)
    <3>1. pattern \in Types
      BY <1>3, <1>6, <2>4 DEF Wilds
    <3>2. wild' = wild /\ exact' = [exact EXCEPT ![pattern] = Append(exact[pattern], s)]
      BY <1>1, <2>4
    <3>3. ASSUME NEW t \in Types
          PROVE  CountIn(exact'[t], {r}) = CountIn(exact[t], {r})
                   + (IF r = s /\ pattern = t THEN 1 ELSE 0)
      <4>1. exact'[t] = IF t = pattern THEN Append(exact[t], s) ELSE exact[t]
        BY <1>2, <3>1, <3>2
      <4>2. CASE t = pattern
        <5>1. CountIn(exact'[t], {r}) = CountIn(Append(exact[t], s), {r})
          BY <4>1, <4>2, Zenon
        <5>2. QED
          BY <2>2, <4>2, <5>1
      <4>3. CASE t # pattern
        <5>1. CountIn(exact'[t], {r}) = CountIn(exact[t], {r})
          BY <4>1, <4>3, Zenon
        <5>2. QED
          BY <2>1, <4>3, <5>1
      <4>4. QED
        BY <4>2, <4>3
    <3>4. CountIn(wild', {r}) = CountIn(wild, {r})
      BY <3>2, Zenon
    <3>5. QED
      BY <2>1, <2>4, <3>3, <3>4
  <2>5. QED
    BY <2>3, <2>4
<1>9. ASSUME NEW r \in Subscribers
      PROVE  /\ CountIn(wild', {r}) + CountIn(todo'[r], Wilds) = CountIn(Patterns[r], Wilds)
             /\ \A t \in Types :
                  CountIn(exact'[t], {r}) + CountIn(todo'[r], {t}) = CountIn(Patterns[r], {t})
             /\ substate'[r] = "active" => todo'[r] = <<>>
  <2>1. /\ CountIn(wild, {r}) + CountIn(todo[r], Wilds) = CountIn(Patterns[r], Wilds)
        /\ \A t \in Types :
             CountIn(exact[t], {r}) + CountIn(todo[r], {t}) = CountIn(Patterns[r], {t})
        /\ substate[r] = "active" => todo[r] = <<>>
    BY DEF Registered
  <2>2. CASE r # s
    <3>1. todo'[r] = todo[r]
      BY <1>4, <2>2
    <3>2. CountIn(wild, {r}) \in Nat /\ \A t \in Types : CountIn(exact[t], {r}) \in Nat
      BY <1>2, CountNat
    <3>3. /\ CountIn(wild', {r}) = CountIn(wild, {r})
          /\ \A t \in Types : CountIn(exact'[t], {r}) = CountIn(exact[t], {r})
      <4>1. CountIn(wild', {r}) = CountIn(wild, {r}) + 0
        BY <1>8, <2>2
      <4>2. ASSUME NEW t \in Types PROVE CountIn(exact'[t], {r}) = CountIn(exact[t], {r}) + 0
        BY <1>8, <2>2
      <4>3. QED
        BY <3>2, <4>1, <4>2
    <3>4. QED
      BY <1>1, <2>1, <3>1, <3>3
  <2>3. CASE r = s
    <3>1. /\ CountIn(wild, {s}) \in Nat /\ CountIn(todo'[s], Wilds) \in Nat
          /\ \A t \in Types : CountIn(exact[t], {s}) \in Nat /\ CountIn(todo'[s], {t}) \in Nat
      <4>1. todo'[s] \in Seq(Types \cup {Star} \cup Prefixes)
        <5>1. todo[s] \in Seq(Types \cup {Star} \cup Prefixes)
          BY <1>2
        <5>2. QED
          BY <1>1, <1>4, <5>1, HeadTailProperties
      <4>2. QED
        BY <1>2, <4>1, CountNat
    <3>2. CountIn(wild', {s}) + CountIn(todo'[s], Wilds) = CountIn(Patterns[s], Wilds)
      <4>1. /\ CountIn(wild', {s}) = CountIn(wild, {s}) + (IF pattern \in Wilds THEN 1 ELSE 0)
            /\ CountIn(todo[s], Wilds)
                 = CountIn(todo'[s], Wilds) + (IF pattern \in Wilds THEN 1 ELSE 0)
        BY <1>5, <1>6, <1>8
      <4>2. QED
        BY <2>1, <2>3, <3>1, <4>1
    <3>3. ASSUME NEW t \in Types
          PROVE  CountIn(exact'[t], {s}) + CountIn(todo'[s], {t}) = CountIn(Patterns[s], {t})
      <4>1. /\ CountIn(exact'[t], {s}) = CountIn(exact[t], {s}) + (IF pattern = t THEN 1 ELSE 0)
            /\ CountIn(todo[s], {t})
                 = CountIn(todo'[s], {t}) + (IF pattern \in {t} THEN 1 ELSE 0)
        BY <1>5, <1>8
      <4>2. pattern \in {t} <=> pattern = t
        OBVIOUS
      <4>3. CountIn(exact[t], {s}) + CountIn(todo[s], {t}) = CountIn(Patterns[s], {t})
        BY <2>1, <2>3
      <4>4. QED
        BY <3>1, <4>1, <4>2, <4>3
    <3>4. substate'[s] # "active"
      BY <1>1
    <3>5. QED
      BY <2>3, <3>2, <3>3, <3>4
  <2>4. QED
    BY <2>2, <2>3
<1>10. QED
  BY <1>9 DEF Registered

(* Registration is not touched by the other steps.                         *)
LEMMA RegisteredKept ==
  ASSUME Registered, UNCHANGED <<wild, exact, todo>>,
         \A s \in Subscribers :
           substate'[s] = "active" => substate[s] = "active" \/ todo[s] = <<>>
  PROVE  Registered'
BY DEF Registered

(* A step that routes nothing keeps every log; who becomes active in it    *)
(* waits for events not yet routed.                                        *)
LEMMA DeliveryKept ==
  ASSUME TypeOK, Delivery, UNCHANGED <<rpc, cur, targets, routed, log>>,
         \A s \in Subscribers : substate'[s] = "active" =>
           \/ substate[s] = "active" /\ joined'[s] = joined[s]
           \/ joined'[s] = Len(routed)
  PROVE  Delivery'
<1>1. Len(routed) \in Nat
  BY Elements
<1>2. ASSUME NEW s \in Subscribers, substate'[s] = "active"
      PROVE  /\ \A i \in (joined'[s] + 1)..Len(routed') :
                  CountIn(log'[s], {routed'[i]}) = Due(s, i)'
             /\ rpc' = "wild" /\ joined'[s] < Len(routed') =>
                  CountIn(targets', {s}) = CountIn(Patterns[s], {cur'.type})
  <2>1. CASE substate[s] = "active" /\ joined'[s] = joined[s]
    <3>1. /\ \A i \in (joined[s] + 1)..Len(routed) : CountIn(log[s], {routed[i]}) = Due(s, i)
          /\ rpc = "wild" /\ joined[s] < Len(routed) =>
               CountIn(targets, {s}) = CountIn(Patterns[s], {cur.type})
      BY <2>1 DEF Delivery
    <3>2. \A i : Due(s, i)' = Due(s, i)
      BY DEF Due
    <3>3. QED
      BY <2>1, <3>1, <3>2
  <2>2. CASE joined'[s] = Len(routed)
    BY <1>1, <2>2
  <2>3. QED
    BY <1>2, <2>1, <2>2
<1>3. QED
  BY <1>2 DEF Delivery

(* The router takes an event nobody has been sent before.                  *)
LEMMA ReceiveDelivers ==
  ASSUME TypeOK, OrderInv, Delivery, Receive
  PROVE  Delivery'
<1> USE DEF pubVars, subVars, monVars
<1>1. /\ UNCHANGED <<log, joined, substate>> /\ rpc = "recv" /\ rpc' = "account"
      /\ routed' = Append(routed, Head(ingest)) /\ ingest # <<>>
  BY DEF Receive
<1>2. ingest \in Seq(Event) /\ routed \in Seq(Event)
  BY DEF TypeOK
<1>3. 1 \in DOMAIN ingest /\ Head(ingest) = ingest[1] /\ ingest[1] \in Event
  BY <1>1, <1>2, LenProperties, EmptySeq, ElementOfSeq
<1>4. /\ Len(routed) \in Nat /\ DOMAIN routed = 1..Len(routed)
      /\ Len(routed') = Len(routed) + 1
      /\ routed'[Len(routed) + 1] = ingest[1]
      /\ \A i \in 1..Len(routed) : routed'[i] = routed[i]
  BY <1>1, <1>2, <1>3, AppendProperties, LenProperties
<1>5. ASSUME NEW s \in Subscribers, substate[s] = "active",
             NEW i \in (joined[s] + 1)..(Len(routed) + 1)
      PROVE  CountIn(log[s], {routed'[i]}) = Due(s, i)'
  <2>1. joined[s] \in Nat
    BY DEF TypeOK
  <2>2. CASE i <= Len(routed)
    <3>1. i \in (joined[s] + 1)..Len(routed) /\ i \in 1..Len(routed) /\ i < Len(routed')
      BY <1>4, <2>1, <2>2
    <3>2. CountIn(log[s], {routed[i]}) = Due(s, i)
      BY <1>5, <3>1 DEF Delivery
    <3>3. routed'[i] = routed[i]
      BY <1>4, <3>1
    <3>4. Due(s, i) = Entries(s, routed[i])
      BY <1>1 DEF Due
    <3>5. Due(s, i)' = Entries(s, routed'[i])
      BY <3>1 DEF Due, Entries, Matches
    <3>6. QED
      BY <3>2, <3>3, <3>4, <3>5
  <2>3. CASE i = Len(routed) + 1
    <3>1. Due(s, i)' = 0
      BY <1>1, <1>4, <2>3 DEF Due
    <3>2. log[s] \in Seq(Event)
      BY DEF TypeOK
    <3>3. ASSUME NEW k \in DOMAIN log[s] PROVE log[s][k] \notin {ingest[1]}
      <4>1. PICK m \in DOMAIN routed : log[s][k] = routed[m]
        BY DEF OrderInv, LogsRouted
      <4>2. Before(routed[m], ingest[1])
        BY <1>3 DEF OrderInv, RoutedOrdered, Past
      <4>3. ingest[1].n \in Nat
        BY <1>3, EventFields
      <4>4. QED
        BY <4>1, <4>2, <4>3 DEF Before
    <3>4. CountIn(log[s], {ingest[1]}) = 0
      BY <3>2, <3>3, CountNat
    <3>5. QED
      BY <1>4, <2>3, <3>1, <3>4
  <2>4. QED
    BY <1>4, <1>5, <2>1, <2>2, <2>3
<1>6. QED
  BY <1>1, <1>4, <1>5 DEF Delivery

(* The event the router is busy with is the last it took, and only that.   *)
LEMMA Current ==
  ASSUME TypeOK, OrderInv, rpc # "recv"
  PROVE  /\ Len(routed) \in Nat /\ Len(routed) > 0
         /\ routed[Len(routed)] = cur /\ cur \in Event
         /\ \A i \in 1..Len(routed) : i < Len(routed) => routed[i] # cur
<1>1. routed # <<>> /\ cur = routed[Len(routed)] /\ cur \in Event
  BY DEF OrderInv, RoutedOrdered, TypeOK
<1>2. routed \in Seq(Event)
  BY DEF TypeOK
<1>3. Len(routed) \in Nat /\ Len(routed) > 0 /\ DOMAIN routed = 1..Len(routed)
  BY <1>1, <1>2, EmptySeq, LenProperties
<1>4. ASSUME NEW i \in 1..Len(routed), i < Len(routed) PROVE routed[i] # cur
  <2>1. Before(routed[i], cur)
    BY <1>1, <1>3, <1>4 DEF OrderInv, RoutedOrdered
  <2>2. cur.n \in Nat
    BY <1>1, EventFields
  <2>3. QED
    BY <2>1, <2>2 DEF Before
<1>5. QED
  BY <1>1, <1>3, <1>4

(* route() copies the list of the event's type ...                         *)
LEMMA AccountDelivers ==
  ASSUME TypeOK, OrderInv, Registered, Delivery, Account
  PROVE  Delivery'
<1> USE DEF subVars, pubVars, monVars
<1>1. /\ UNCHANGED <<log, joined, substate, routed, cur>> /\ rpc = "account" /\ rpc' = "wild"
      /\ targets' = exact[cur.type]
  BY DEF Account
<1>2. cur \in Event /\ cur.type \in Types
  BY <1>1, EventFields DEF TypeOK
<1>3. ASSUME NEW s \in Subscribers, substate[s] = "active"
      PROVE  CountIn(exact[cur.type], {s}) = CountIn(Patterns[s], {cur.type})
  <2>1. todo[s] = <<>> /\ todo[s] \in Seq(Types \cup {Star} \cup Prefixes)
    BY <1>3 DEF Registered, TypeOK
  <2>2. CountIn(todo[s], {cur.type}) = 0
    <3>1. \A k \in DOMAIN todo[s] : todo[s][k] \notin {cur.type}
      BY <2>1
    <3>2. QED
      BY <2>1, <3>1, CountNat
  <2>3. exact[cur.type] \in Seq(Subscribers)
    BY <1>2 DEF TypeOK
  <2>4. CountIn(exact[cur.type], {s}) \in Nat
    BY <2>3, CountNat
  <2>5. CountIn(exact[cur.type], {s}) + CountIn(todo[s], {cur.type})
          = CountIn(Patterns[s], {cur.type})
    BY <1>2 DEF Registered
  <2>6. QED
    BY <2>2, <2>4, <2>5
<1>4. ASSUME NEW s \in Subscribers, NEW i PROVE Due(s, i)' = Due(s, i)
  BY <1>1 DEF Due
<1>5. QED
  BY <1>1, <1>3, <1>4 DEF Delivery

(* ... and then the wildcard list: together, one entry per pattern.        *)
LEMMA SnapshotDelivers ==
  ASSUME TypeOK, OrderInv, Registered, Delivery, Snapshot
  PROVE  Delivery'
<1> USE DEF subVars, pubVars, monVars
<1>1. /\ UNCHANGED <<log, joined, substate, routed, cur>> /\ rpc = "wild"
      /\ targets' = targets \o wild
      /\ rpc' = IF targets' = <<>> THEN "recv" ELSE "send"
  BY DEF Snapshot
<1>2. /\ Len(routed) \in Nat /\ Len(routed) > 0
      /\ routed[Len(routed)] = cur /\ cur \in Event
  BY <1>1, Current
<1>3. targets \in Seq(Subscribers) /\ wild \in Seq(Subscribers)
  BY DEF TypeOK
<1>4. ASSUME NEW s \in Subscribers, substate[s] = "active", joined[s] < Len(routed),
             NEW i, i = Len(routed)
      PROVE  Due(s, i)' = 0
  <2>1. CountIn(targets, {s}) = CountIn(Patterns[s], {cur.type})
    BY <1>1, <1>4 DEF Delivery
  <2>2. CountIn(wild, {s}) = CountIn(Patterns[s], Wilds)
    <3>1. todo[s] = <<>> /\ todo[s] \in Seq(Types \cup {Star} \cup Prefixes)
      BY <1>4 DEF Registered, TypeOK
    <3>2. CountIn(todo[s], Wilds) = 0
      <4>1. \A k \in DOMAIN todo[s] : todo[s][k] \notin Wilds
        BY <3>1
      <4>2. QED
        BY <3>1, <4>1, CountNat
    <3>3. CountIn(wild, {s}) \in Nat
      BY <1>3, CountNat
    <3>4. CountIn(wild, {s}) + CountIn(todo[s], Wilds) = CountIn(Patterns[s], Wilds)
      BY DEF Registered
    <3>5. QED
      BY <3>2, <3>3, <3>4
  <2>3. CountIn(targets', {s}) = CountIn(targets, {s}) + CountIn(wild, {s})
    BY <1>1, <1>3, CountConcat
  <2>4. CountIn(targets, {s}) \in Nat /\ CountIn(wild, {s}) \in Nat
    BY <1>3, CountNat
  <2>5. /\ Matches(s, cur) => Entries(s, cur) = CountIn(targets', {s})
        /\ ~Matches(s, cur) => Entries(s, cur) = 0
    <3>1. /\ Matches(s, cur) => Entries(s, cur) = CountIn(Patterns[s], Wilds)
                                                   + CountIn(Patterns[s], {cur.type})
          /\ ~Matches(s, cur) => Entries(s, cur) = 0
      BY <1>2, EntriesSum
    <3>2. CountIn(targets', {s}) = CountIn(Patterns[s], Wilds)
                                     + CountIn(Patterns[s], {cur.type})
      BY <2>1, <2>2, <2>3, <2>4
    <3>3. QED
      BY <3>1, <3>2
  <2>6. targets' = <<>> => CountIn(targets', {s}) = 0
    <3>1. <<>> \in Seq(Subscribers) /\ \A k \in DOMAIN <<>> : <<>>[k] \notin {s}
      BY EmptySeq
    <3>2. CountIn(<<>>, {s}) = 0
      BY <3>1, CountNat
    <3>3. QED
      BY <3>2, Zenon
  <2>7. CASE targets' = <<>>
    <3>1. Due(s, i)' = Entries(s, cur)
      BY <1>1, <1>2, <1>4, <2>7 DEF Due, Entries, Matches
    <3>2. QED
      BY <2>5, <2>6, <2>7, <3>1
  <2>8. CASE targets' # <<>>
    <3>1. Due(s, i)'
            = Entries(s, cur) - (IF Matches(s, cur) THEN CountIn(targets', {s}) ELSE 0)
      <4>1. routed'[i] = cur /\ ~(i < Len(routed')) /\ rpc' = "send"
        BY <1>1, <1>2, <1>4, <2>8
      <4>2. Due(s, i)' = Entries(s, routed'[i])
              - (IF Matches(s, routed'[i]) THEN CountIn(targets', {s}) ELSE 0)
        BY <4>1 DEF Due
      <4>3. QED
        BY <4>1, <4>2, Zenon
    <3>2. CountIn(targets', {s}) \in Nat
      BY <2>3, <2>4
    <3>3. QED
      BY <2>5, <3>1, <3>2
  <2>9. QED
    BY <2>7, <2>8
<1>5. ASSUME NEW s \in Subscribers, substate[s] = "active",
             NEW i \in (joined[s] + 1)..Len(routed)
      PROVE  CountIn(log[s], {routed[i]}) = Due(s, i)'
  <2>1. joined[s] \in Nat
    BY DEF TypeOK
  <2>2. CountIn(log[s], {routed[i]}) = Due(s, i)
    BY <1>5 DEF Delivery
  <2>3. CASE i < Len(routed)
    BY <1>1, <2>2, <2>3 DEF Due, Entries, Matches
  <2>4. CASE i = Len(routed)
    <3>1. joined[s] < Len(routed)
      BY <1>2, <2>1, <2>4
    <3>2. Due(s, i) = 0
      BY <1>1, <1>2, <2>4 DEF Due
    <3>3. QED
      BY <1>4, <1>5, <2>2, <2>4, <3>1, <3>2
  <2>5. QED
    BY <1>2, <2>1, <2>3, <2>4
<1>6. QED
  BY <1>1, <1>5 DEF Delivery

(* A turn of the send loop pays one entry of the list, or passes over one  *)
(* whose filter does not match.                                            *)
LEMMA TargetDelivers ==
  ASSUME TypeOK, OrderInv, Delivery, Skip \/ Send
  PROVE  Delivery'
<1> USE DEF subVars, pubVars, monVars
<1>1. /\ UNCHANGED <<joined, substate, routed, cur>> /\ rpc = "send"
      /\ targets # <<>> /\ targets' = Tail(targets)
      /\ rpc' = IF targets' = <<>> THEN "recv" ELSE "send"
  BY DEF Skip, Send, Sending, NextTarget, TypeOK
<1>2. /\ Len(routed) \in Nat /\ Len(routed) > 0
      /\ routed[Len(routed)] = cur /\ cur \in Event
      /\ \A i \in 1..Len(routed) : i < Len(routed) => routed[i] # cur
  BY <1>1, Current
<1>3. PICK h \in Subscribers : h = Head(targets)
  <2>1. targets \in Seq(Subscribers)
    BY DEF TypeOK
  <2>2. QED
    BY <1>1, <2>1, HeadTailProperties
<1>4. \A s \in Subscribers :
        /\ CountIn(targets, {s}) = CountIn(targets', {s}) + (IF s = h THEN 1 ELSE 0)
        /\ CountIn(targets', {s}) \in Nat
        /\ targets' = <<>> => CountIn(targets', {s}) = 0
  <2>1. targets \in Seq(Subscribers) /\ targets' \in Seq(Subscribers)
    <3>1. targets \in Seq(Subscribers)
      BY DEF TypeOK
    <3>2. QED
      BY <1>1, <3>1, HeadTailProperties
  <2>2. ASSUME NEW s \in Subscribers
        PROVE  CountIn(targets, {s}) = CountIn(targets', {s}) + (IF s = h THEN 1 ELSE 0)
    <3>1. CountIn(targets, {s})
            = CountIn(Tail(targets), {s}) + (IF Head(targets) \in {s} THEN 1 ELSE 0)
      BY <1>1, <2>1, CountEnds
    <3>2. Head(targets) \in {s} <=> s = h
      BY <1>3
    <3>3. QED
      BY <1>1, <3>1, <3>2
  <2>3. ASSUME NEW s \in Subscribers, targets' = <<>> PROVE CountIn(targets', {s}) = 0
    <3>1. \A k \in DOMAIN targets' : targets'[k] \notin {s}
      BY <2>3
    <3>2. QED
      BY <2>1, <3>1, CountNat
  <2>4. QED
    BY <2>1, <2>2, <2>3, CountNat
(* What the turn does to the logs of active subscribers.                   *)
<1>5. ASSUME NEW s \in Subscribers, substate[s] = "active"
      PROVE  IF s = h /\ Matches(s, cur) THEN log'[s] = Append(log[s], cur)
                                         ELSE log'[s] = log[s]
  <2>1. log \in [Subscribers -> Seq(Event)]
    BY DEF TypeOK
  <2>2. CASE Skip
    BY <1>3, <2>2 DEF Skip
  <2>3. CASE Send
    <3>1. Matches(h, cur) /\ (Deliver(h) \/ (substate[h] = "closed" /\ Drop))
      BY <1>3, <2>3 DEF Send, Sending
    <3>2. CASE Deliver(h)
      BY <2>1, <3>1, <3>2 DEF Deliver
    <3>3. CASE substate[h] = "closed" /\ Drop
      BY <1>5, <3>3 DEF Drop
    <3>4. QED
      BY <3>1, <3>2, <3>3
  <2>4. QED
    BY <2>2, <2>3
<1>6. ASSUME NEW s \in Subscribers, substate[s] = "active", NEW e \in Event
      PROVE  CountIn(log'[s], {e}) = CountIn(log[s], {e})
               + (IF s = h /\ Matches(s, cur) /\ e = cur THEN 1 ELSE 0)
  <2>1. log[s] \in Seq(Event) /\ CountIn(log[s], {e}) \in Nat
    <3>1. log[s] \in Seq(Event)
      BY DEF TypeOK
    <3>2. QED
      BY <3>1, CountNat
  <2>2. CASE s = h /\ Matches(s, cur)
    <3>1. CountIn(Append(log[s], cur), {e}) = CountIn(log[s], {e})
                                               + (IF cur \in {e} THEN 1 ELSE 0)
      BY <1>2, <2>1, CountEnds
    <3>2. log'[s] = Append(log[s], cur)
      BY <1>5, <1>6, <2>2
    <3>3. CountIn(log'[s], {e}) = CountIn(Append(log[s], cur), {e})
      BY <3>2, Zenon
    <3>4. cur \in {e} <=> e = cur
      OBVIOUS
    <3>5. QED
      BY <2>2, <3>1, <3>3, <3>4
  <2>3. CASE ~(s = h /\ Matches(s, cur))
    <3>1. CountIn(log'[s], {e}) = CountIn(log[s], {e})
      <4>1. log'[s] = log[s]
        BY <1>5, <1>6, <2>3
      <4>2. QED
        BY <4>1, Zenon
    <3>2. QED
      BY <2>1, <2>3, <3>1
  <2>4. QED
    BY <2>2, <2>3
<1>7. ASSUME NEW s \in Subscribers, substate[s] = "active",
             NEW i \in (joined[s] + 1)..Len(routed)
      PROVE  CountIn(log'[s], {routed[i]}) = Due(s, i)'
  <2>1. joined[s] \in Nat /\ i \in 1..Len(routed) /\ routed[i] \in Event
    <3>1. joined[s] \in Nat
      BY DEF TypeOK
    <3>2. i \in 1..Len(routed)
      BY <1>2, <3>1
    <3>3. QED
      BY <3>1, <3>2, Elements
  <2>2. CountIn(log[s], {routed[i]}) = Due(s, i)
    BY <1>7 DEF Delivery
  <2>3. CASE i < Len(routed)
    <3>1. Due(s, i)' = Entries(s, routed[i]) /\ Due(s, i) = Entries(s, routed[i])
      <4>1. routed'[i] = routed[i] /\ i < Len(routed')
        BY <1>1, <2>3
      <4>2. Due(s, i)' = Entries(s, routed'[i])
        BY <4>1 DEF Due
      <4>3. Due(s, i) = Entries(s, routed[i])
        BY <2>3 DEF Due
      <4>4. QED
        BY <4>1, <4>2, <4>3, Zenon
    <3>2. routed[i] # cur
      BY <1>2, <2>1, <2>3
    <3>3. CountIn(log'[s], {routed[i]}) = CountIn(log[s], {routed[i]}) + 0
      BY <1>6, <1>7, <2>1, <3>2
    <3>4. CountIn(log[s], {routed[i]}) \in Nat
      <4>1. log[s] \in Seq(Event)
        BY DEF TypeOK
      <4>2. QED
        BY <4>1, CountNat
    <3>5. QED
      BY <2>2, <3>1, <3>3, <3>4
  <2>4. CASE i = Len(routed)
    <3>1. routed[i] = cur /\ routed'[i] = cur /\ ~(i < Len(routed)) /\ ~(i < Len(routed'))
      BY <1>1, <1>2, <2>4
    <3>2. Due(s, i) = Entries(s, cur)
                        - (IF Matches(s, cur) THEN CountIn(targets, {s}) ELSE 0)
      <4>1. Due(s, i) = Entries(s, routed[i])
                        - (IF Matches(s, routed[i]) THEN CountIn(targets, {s}) ELSE 0)
        BY <1>1, <3>1 DEF Due
      <4>2. QED
        BY <3>1, <4>1, Zenon
    <3>3. Due(s, i)' = IF targets' = <<>> THEN Entries(s, cur)
                       ELSE Entries(s, cur)
                            - (IF Matches(s, cur) THEN CountIn(targets', {s}) ELSE 0)
      <4>1. Due(s, i)' = IF rpc' = "recv" THEN Entries(s, routed'[i])
              ELSE IF rpc' = "send" THEN Entries(s, routed'[i])
                       - (IF Matches(s, routed'[i]) THEN CountIn(targets', {s}) ELSE 0)
              ELSE 0
        BY <3>1 DEF Due
      <4>2. Due(s, i)' = IF rpc' = "recv" THEN Entries(s, cur)
              ELSE IF rpc' = "send" THEN Entries(s, cur)
                       - (IF Matches(s, cur) THEN CountIn(targets', {s}) ELSE 0)
              ELSE 0
        BY <3>1, <4>1, Zenon
      <4>3. QED
        BY <1>1, <4>2
    <3>4. Entries(s, cur) \in Nat
      <4>1. Patterns[s] \in Seq(Types \cup {Star} \cup Prefixes)
        BY BusAssumption DEF BusAssumption
      <4>2. CountIn(Patterns[s], Wilds) \in Nat /\ CountIn(Patterns[s], {cur.type}) \in Nat
        BY <4>1, CountNat
      <4>3. /\ Matches(s, cur) => Entries(s, cur) = CountIn(Patterns[s], Wilds)
                                                     + CountIn(Patterns[s], {cur.type})
            /\ ~Matches(s, cur) => Entries(s, cur) = 0
        BY <1>2, EntriesSum
      <4>4. QED
        BY <4>2, <4>3
    <3>5. CountIn(log'[s], {cur}) = CountIn(log[s], {cur})
                + (IF s = h /\ Matches(s, cur) THEN 1 ELSE 0)
      BY <1>2, <1>6, <1>7
    <3>6. CountIn(log[s], {cur}) = Due(s, i)
      BY <2>2, <3>1
    <3>7. CountIn(log'[s], {cur}) = Due(s, i)'
      <4>1. CASE Matches(s, cur)
        BY <1>4, <3>2, <3>3, <3>4, <3>5, <3>6, <4>1
      <4>2. CASE ~Matches(s, cur)
        BY <3>2, <3>3, <3>4, <3>5, <3>6, <4>2
      <4>3. QED
        BY <4>1, <4>2
    <3>8. QED
      BY <3>1, <3>7
  <2>5. QED
    BY <1>2, <2>1, <2>3, <2>4
<1>8. QED
  BY <1>1, <1>7 DEF Delivery

(* Nobody is registered at the start, and nothing has been routed.         *)
LEMMA DeliveryInit == Init => Registered /\ Delivery
<1> SUFFICES ASSUME Init PROVE Registered
  BY DEF Init, Delivery
<1>1. ASSUME NEW W PROVE CountIn(<<>>, W) = 0
  <2>1. <<>> \in Seq({}) /\ \A k \in DOMAIN <<>> : <<>>[k] \notin W
    BY EmptySeq
  <2>2. QED
    BY <2>1, CountNat
<1>2. ASSUME NEW s \in Subscribers, NEW W PROVE CountIn(Patterns[s], W) \in Nat
  <2>1. Patterns[s] \in Seq(Types \cup {Star} \cup Prefixes)
    BY BusAssumption DEF BusAssumption
  <2>2. QED
    BY <2>1, CountNat
<1>3. /\ wild = <<>> /\ todo = Patterns /\ \A t \in Types : exact[t] = <<>>
      /\ \A s \in Subscribers : substate[s] = "new"
  BY DEF Init
<1>4. ASSUME NEW s \in Subscribers
      PROVE  CountIn(wild, {s}) + CountIn(todo[s], Wilds) = CountIn(Patterns[s], Wilds)
  <2>1. CountIn(wild, {s}) = 0 /\ CountIn(todo[s], Wilds) = CountIn(Patterns[s], Wilds)
    BY <1>1, <1>3
  <2>2. QED
    BY <1>2, <2>1
<1>5. ASSUME NEW s \in Subscribers, NEW t \in Types
      PROVE  CountIn(exact[t], {s}) + CountIn(todo[s], {t}) = CountIn(Patterns[s], {t})
  <2>1. CountIn(exact[t], {s}) = 0 /\ CountIn(todo[s], {t}) = CountIn(Patterns[s], {t})
    BY <1>1, <1>3
  <2>2. QED
    BY <1>2, <2>1
<1>6. QED
  BY <1>3, <1>4, <1>5 DEF Registered

(* Every step keeps what is registered and what is delivered.              *)
LEMMA DeliveryNext ==
  TypeOK /\ OrderInv /\ Registered /\ Delivery /\ [Next]_vars => Registered' /\ Delivery'
<1> SUFFICES ASSUME TypeOK, OrderInv, Registered, Delivery, [Next]_vars
             PROVE  Registered' /\ Delivery'
  OBVIOUS
<1> USE DEF pubVars, runVars, subVars, monVars
<1>1. ASSUME NEW p \in Publishers, EndPublish(p) \/ \E t \in Types : BeginPublish(p, t)
      PROVE  Registered' /\ Delivery'
  BY <1>1, RegisteredKept, DeliveryKept DEF EndPublish, BeginPublish
<1>2. ASSUME NEW s \in Subscribers,
             BeginSubscribe(s) \/ EndSubscribe(s) \/ Unsubscribe(s) \/ Consume(s)
      PROVE  Registered' /\ Delivery'
  <2>1. /\ UNCHANGED <<wild, exact, todo, rpc, cur, targets, routed, log>>
        /\ joined' = joined \/ (EndSubscribe(s) /\ todo[s] = <<>>)
    BY <1>2 DEF BeginSubscribe, EndSubscribe, Unsubscribe, Consume
  <2>2. /\ substate \in [Subscribers -> {"new", "registering", "active", "closed"}]
        /\ joined \in [Subscribers -> Nat]
    BY DEF TypeOK
  <2>3. ASSUME NEW r \in Subscribers, substate'[r] = "active"
        PROVE  \/ substate[r] = "active" /\ joined'[r] = joined[r]
               \/ joined'[r] = Len(routed) /\ todo[r] = <<>>
    BY <1>2, <2>1, <2>2, <2>3 DEF BeginSubscribe, EndSubscribe, Unsubscribe, Consume
  <2>4. QED
    BY <2>1, <2>3, RegisteredKept, DeliveryKept
<1>3. ASSUME NEW s \in Subscribers, RegisterPattern(s)
      PROVE  Registered' /\ Delivery'
  BY <1>3, RegisterKeeps, DeliveryKept DEF RegisterPattern
<1>4. CASE Start \/ Stop \/ Shutdown \/ MonitorTick \/ UNCHANGED vars
  BY <1>4, RegisteredKept, DeliveryKept DEF Start, Stop, Shutdown, MonitorTick, vars
<1>5. CASE Router
  <2>1. Registered'
    BY <1>5, RegisteredKept
       DEF Router, Receive, Account, Snapshot, Skip, Send, NextTarget
  <2>2. QED
    BY <1>5, <2>1, ReceiveDelivers, AccountDelivers, SnapshotDelivers, TargetDelivers DEF Router
<1>6. QED
  BY <1>1, <1>2, <1>3, <1>4, <1>5 DEF Next

(* From the return of subscribe() on, every event the router takes is sent *)
(* to the subscriber once per matching registration (lib.rs:62-81), for    *)
(* every set of filters, while others subscribe, leave and are slow.       *)
THEOREM DeliveryCorrect == Spec => []EveryEventDelivered
<1>1. Delivery => EveryEventDelivered
  <2> SUFFICES ASSUME Delivery PROVE EveryEventDelivered
    OBVIOUS
  <2>1. ASSUME NEW s \in Subscribers, substate[s] = "active",
               NEW i \in (joined[s] + 1)..Len(routed)
        PROVE  /\ Count(log[s], routed[i]) = Due(s, i)
               /\ Count(targets, s) = CountIn(targets, {s})
    BY <2>1, CountOne DEF Delivery
  <2>2. QED
    BY <2>1 DEF EveryEventDelivered, Due
<1>2. Inv => TypeOK
  BY DEF Inv
<1>3. QED
  BY <1>1, <1>2, InitInv, NextInv, OrderInit, OrderNext, DeliveryInit, DeliveryNext, PTL DEF Spec

=============================================================================
