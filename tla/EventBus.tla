------------------------------- MODULE EventBus -------------------------------
(***************************************************************************)
(* The in-memory event bus (crates/sentinel-event-bus/src/lib.rs).         *)
(*                                                                         *)
(* Collector tasks publish into one bounded ingest channel; a single       *)
(* router task takes events out and forwards each to the bounded channel   *)
(* of every subscriber whose filter matches, one awaited send after        *)
(* another; a detached monitor task samples the queue depth and publishes  *)
(* a backpressure signal; shutdown makes the router task return.           *)
(***************************************************************************)
EXTENDS Integers, Sequences, FiniteSets

CONSTANTS
  Publishers,   \* tasks that call publish(); an event's source is its publisher
  Subscribers,  \* receivers created by subscribe()
  Types,        \* event types
  Star,         \* the pattern "*"
  Prefixes,     \* patterns that end in '*' without being "*", such as "proc*"
  Patterns,     \* per subscriber, the list filter.event_types (None is <<Star>>)
  Sources,      \* per subscriber, the publishers the rest of its filter accepts
  IngestCap,    \* capacity of the ingest channel, config.ingest.max(1)
  SubCap,       \* capacity of a subscriber channel (1000 in the code)
  Attentive,    \* subscribers whose task keeps calling recv()
  MaxPublish,   \* bound, per publisher: events it publishes
  None          \* "no event"

Event == UNION {[src : {p}, n : 1..MaxPublish[p], type : Types] : p \in Publishers}

ASSUME BusAssumption ==
  /\ IsFiniteSet(Publishers)
  /\ IngestCap \in Nat \ {0}
  /\ SubCap \in Nat \ {0}
  /\ MaxPublish \in [Publishers -> Nat]
  /\ Patterns \in [Subscribers -> Seq(Types \cup {Star} \cup Prefixes)]
  /\ Sources \in [Subscribers -> SUBSET Publishers]
  /\ Attentive \subseteq Subscribers
  /\ Star \notin Types \cup Prefixes
  /\ Types \cap Prefixes = {}
  /\ None \notin Event

VARIABLES
  sent,        \* per publisher, the number of publish() calls begun
  sending,     \* per publisher, the event its pending ingest_tx.send holds
  ingest,      \* content of the ingest channel
  depth,       \* ingest_depth: AtomicUsize
  phase,       \* of run(): "created", "running", "stopped"
  rpc,         \* where the router task is
  cur,         \* the event being routed
  targets,     \* subscribers still to be sent cur; first the exact snapshot
  exact,       \* TopicRouter.subscribers: type -> list of subscribers
  wild,        \* TopicRouter.wildcard_subscribers
  substate,    \* per subscriber: "new", "registering", "active", "closed"
  todo,        \* per subscriber, patterns subscribe() has still to register
  queue,       \* content of each subscriber channel
  published,   \* stats.events_published
  dropped,     \* stats.events_dropped
  reported,    \* stats.ingest_queue_depth, stored by the monitor
  signal,      \* value of the backpressure watch channel
  shutdown,    \* shutdown() has been called
  routed,      \* history: events in the order the router took them
  log,         \* history: events put in each subscriber channel
  joined       \* history: Len(routed) when subscribe() returned

pubVars  == <<sent, sending>>
runVars  == <<rpc, cur, targets>>
subVars  == <<exact, wild, substate, todo, joined>>
monVars  == <<reported, signal>>
vars == <<pubVars, ingest, depth, phase, runVars, subVars, queue,
          published, dropped, monVars, shutdown, routed, log>>

-----------------------------------------------------------------------------
(* Wrong on purpose: one message too many fits.                            *)
HasSlot_OneMore(channel, capacity) == Len(channel) <= capacity

(* A bounded mpsc channel takes a message while it is below its capacity.  *)
HasSlot(channel, capacity) == Len(channel) < capacity

(* Filters *)

IsWild(pattern) == pattern = Star \/ pattern \in Prefixes

(* matches_filter: event_types holds the type itself or "*" (a prefix      *)
(* pattern matches nothing), and the other filters accept the event.       *)
Matches(s, e) ==
  /\ \E i \in DOMAIN Patterns[s] : Patterns[s][i] \in {e.type, Star}
  /\ e.src \in Sources[s]

(* How often s is in the target list of e: once per pattern that registers *)
(* it where the router looks, if its filter matches at all.                *)
Entries(s, e) ==
  IF Matches(s, e)
    THEN Cardinality({i \in DOMAIN Patterns[s] :
                        IsWild(Patterns[s][i]) \/ Patterns[s][i] = e.type})
    ELSE 0

(* The monitor's level for a depth; usage is computed in u8.               *)
Usage(d) == ((d * 100) \div IngestCap) % 256
(* Wrong on purpose: the thresholds in the wrong order.                    *)
Level_LowestFirst(d) == IF Usage(d) >= 50 THEN "Elevated"
                        ELSE IF Usage(d) >= 75 THEN "High"
                        ELSE IF Usage(d) >= 90 THEN "Critical"
                        ELSE "Normal"

Level(d) == IF Usage(d) >= 90 THEN "Critical"
            ELSE IF Usage(d) >= 75 THEN "High"
            ELSE IF Usage(d) >= 50 THEN "Elevated"
            ELSE "Normal"

-----------------------------------------------------------------------------
Init ==
  /\ sent = [p \in Publishers |-> 0]
  /\ sending = [p \in Publishers |-> None]
  /\ ingest = <<>>
  /\ depth = 0
  /\ phase = "created"
  /\ rpc = "recv"
  /\ cur = None
  /\ targets = <<>>
  /\ exact = [t \in Types |-> <<>>]
  /\ wild = <<>>
  /\ substate = [s \in Subscribers |-> "new"]
  /\ todo = Patterns
  /\ queue = [s \in Subscribers |-> <<>>]
  /\ published = 0
  /\ dropped = 0
  /\ reported = 0
  /\ signal = "Normal"
  /\ shutdown = FALSE
  /\ routed = <<>>
  /\ log = [s \in Subscribers |-> <<>>]
  /\ joined = [s \in Subscribers |-> 0]

-----------------------------------------------------------------------------
(* publish() *)

(* publish counts the event into ingest_depth before it awaits a slot.     *)
BeginPublish(p, t) ==
  /\ sending[p] = None
  /\ sent[p] < MaxPublish[p]
  /\ sent' = [sent EXCEPT ![p] = @ + 1]
  /\ sending' = [sending EXCEPT ![p] = [src |-> p, n |-> sent[p] + 1, type |-> t]]
  /\ depth' = depth + 1
  /\ UNCHANGED <<ingest, phase, runVars, subVars, queue, published, dropped,
                 monVars, shutdown, routed, log>>

(* The send completes once the ingest channel has a free slot. The bus     *)
(* itself owns the receiver, so a send never fails.                        *)
EndPublish(p) ==
  /\ sending[p] # None
  /\ HasSlot(ingest, IngestCap)
  /\ ingest' = Append(ingest, sending[p])
  /\ sending' = [sending EXCEPT ![p] = None]
  /\ UNCHANGED <<sent, depth, phase, runVars, subVars, queue, published, dropped,
                 monVars, shutdown, routed, log>>

-----------------------------------------------------------------------------
(* subscribe() and the receiver it returns *)

BeginSubscribe(s) ==
  /\ substate[s] = "new"
  /\ substate' = [substate EXCEPT ![s] = "registering"]
  /\ UNCHANGED <<pubVars, ingest, depth, phase, runVars, exact, wild, todo, joined,
                 queue, published, dropped, monVars, shutdown, routed, log>>

(* One iteration of the loop over event_types, under its own write lock.   *)
RegisterPattern(s) ==
  /\ substate[s] = "registering"
  /\ todo[s] # <<>>
  /\ LET pattern == Head(todo[s]) IN
       IF IsWild(pattern)
         THEN wild' = Append(wild, s) /\ UNCHANGED exact
         ELSE exact' = [exact EXCEPT ![pattern] = Append(@, s)] /\ UNCHANGED wild
  /\ todo' = [todo EXCEPT ![s] = Tail(@)]
  /\ UNCHANGED <<pubVars, ingest, depth, phase, runVars, substate, joined, queue,
                 published, dropped, monVars, shutdown, routed, log>>

EndSubscribe(s) ==
  /\ substate[s] = "registering"
  /\ todo[s] = <<>>
  /\ substate' = [substate EXCEPT ![s] = "active"]
  /\ joined' = [joined EXCEPT ![s] = Len(routed)]
  /\ UNCHANGED <<pubVars, ingest, depth, phase, runVars, exact, wild, todo, queue,
                 published, dropped, monVars, shutdown, routed, log>>

(* The subscriber drops its receiver; the router's lists keep its sender.  *)
Unsubscribe(s) ==
  /\ substate[s] = "active"
  /\ substate' = [substate EXCEPT ![s] = "closed"]
  /\ queue' = [queue EXCEPT ![s] = <<>>]
  /\ UNCHANGED <<pubVars, ingest, depth, phase, runVars, exact, wild, todo, joined,
                 published, dropped, monVars, shutdown, routed, log>>

Consume(s) ==
  /\ substate[s] = "active"
  /\ queue[s] # <<>>
  /\ queue' = [queue EXCEPT ![s] = Tail(@)]
  /\ UNCHANGED <<pubVars, ingest, depth, phase, runVars, subVars, published,
                 dropped, monVars, shutdown, routed, log>>

-----------------------------------------------------------------------------
(* The router task: run(), process_events() and route() *)

Start ==
  /\ phase = "created"
  /\ phase' = "running"
  /\ UNCHANGED <<pubVars, ingest, depth, runVars, subVars, queue, published,
                 dropped, monVars, shutdown, routed, log>>

(* Wrong on purpose: last in, first out.                                   *)
Receive_Newest ==
  /\ phase = "running" /\ rpc = "recv" /\ ingest # <<>>
  /\ cur' = ingest[Len(ingest)]
  /\ ingest' = SubSeq(ingest, 1, Len(ingest) - 1)
  /\ routed' = Append(routed, cur')
  /\ rpc' = "account"
  /\ UNCHANGED <<pubVars, depth, phase, targets, subVars, queue, published,
                 dropped, monVars, shutdown, log>>

Receive ==
  /\ phase = "running"
  /\ rpc = "recv"
  /\ ingest # <<>>
  /\ cur' = Head(ingest)
  /\ ingest' = Tail(ingest)
  /\ routed' = Append(routed, Head(ingest))
  /\ rpc' = "account"
  /\ UNCHANGED <<pubVars, depth, phase, targets, subVars, queue, published,
                 dropped, monVars, shutdown, log>>

(* Wrong on purpose: ingest_depth is never decremented.                    *)
Account_NoDecrement ==
  /\ phase = "running" /\ rpc = "account"
  /\ published' = published + 1
  /\ targets' = exact[cur.type]
  /\ rpc' = "wild"
  /\ UNCHANGED <<pubVars, ingest, depth, phase, cur, subVars, queue, dropped,
                 monVars, shutdown, routed, log>>

(* Both counters move, then route() copies the exact subscribers ...       *)
Account ==
  /\ phase = "running"
  /\ rpc = "account"
  /\ published' = published + 1
  /\ depth' = depth - 1
  /\ targets' = exact[cur.type]
  /\ rpc' = "wild"
  /\ UNCHANGED <<pubVars, ingest, phase, cur, subVars, queue, dropped, monVars,
                 shutdown, routed, log>>

(* ... and, under a second lock, the wildcard ones. The filter that route() *)
(* then collects through reads nothing that changes, so it is applied to   *)
(* an entry when its turn comes (Skip).                                    *)
Snapshot ==
  /\ phase = "running"
  /\ rpc = "wild"
  /\ targets' = targets \o wild
  /\ rpc' = IF targets \o wild = <<>> THEN "recv" ELSE "send"
  /\ UNCHANGED <<pubVars, ingest, depth, phase, cur, subVars, queue, published,
                 dropped, monVars, shutdown, routed, log>>

NextTarget ==
  /\ targets' = Tail(targets)
  /\ rpc' = IF Tail(targets) = <<>> THEN "recv" ELSE "send"
  /\ UNCHANGED <<pubVars, ingest, depth, phase, cur, subVars, published, monVars,
                 shutdown, routed>>

Deliver(s) ==
  /\ substate[s] # "closed" /\ HasSlot(queue[s], SubCap)
  /\ queue' = [queue EXCEPT ![s] = Append(@, cur)]
  /\ log' = [log EXCEPT ![s] = Append(@, cur)]
  /\ UNCHANGED dropped

Drop == dropped' = dropped + 1 /\ UNCHANGED <<queue, log>>

Sending == phase = "running" /\ rpc = "send" /\ Matches(Head(targets), cur)

Skip ==
  /\ phase = "running" /\ rpc = "send"
  /\ ~Matches(Head(targets), cur)
  /\ NextTarget
  /\ UNCHANGED <<queue, dropped, log>>

(* Wrong on purpose: try_send instead of send.                             *)
Send_TryOnly ==
  /\ Sending
  /\ Deliver(Head(targets)) \/ (~HasSlot(queue[Head(targets)], SubCap) /\ Drop)
  /\ NextTarget

(* Wrong on purpose: a closed channel is waited for.                       *)
Send_ClosedWaits == Sending /\ Deliver(Head(targets)) /\ NextTarget

(* send().await: waits while the target's channel is full, fails when its  *)
(* receiver is gone.                                                       *)
Send ==
  /\ Sending
  /\ Deliver(Head(targets)) \/ (substate[Head(targets)] = "closed" /\ Drop)
  /\ NextTarget

(* run()'s select! sees the shutdown at one of the loop's await points;    *)
(* what the loop was doing is dropped with it.                             *)
Stop ==
  /\ phase = "running"
  /\ shutdown
  /\ rpc = "recv" \/ Sending
  /\ phase' = "stopped"
  /\ UNCHANGED <<pubVars, ingest, depth, runVars, subVars, queue, published,
                 dropped, monVars, shutdown, routed, log>>

Shutdown ==
  /\ ~shutdown
  /\ shutdown' = TRUE
  /\ UNCHANGED <<pubVars, ingest, depth, phase, runVars, subVars, queue, published,
                 dropped, monVars, routed, log>>

(* One tick of the backpressure monitor, which outlives run().             *)
MonitorTick ==
  /\ phase # "created"
  /\ reported' = depth
  /\ signal' = Level(depth)
  /\ UNCHANGED <<pubVars, ingest, depth, phase, runVars, subVars, queue, published,
                 dropped, shutdown, routed, log>>

-----------------------------------------------------------------------------
Router == Receive \/ Account \/ Snapshot \/ Skip \/ Send

Next ==
  \/ \E p \in Publishers : EndPublish(p) \/ \E t \in Types : BeginPublish(p, t)
  \/ \E s \in Subscribers :
       \/ BeginSubscribe(s)
       \/ RegisterPattern(s)
       \/ EndSubscribe(s)
       \/ Unsubscribe(s)
       \/ Consume(s)
  \/ Start
  \/ Router
  \/ Stop
  \/ Shutdown
  \/ MonitorTick

Spec == Init /\ [][Next]_vars

(* The tokio runtime polls every ready task: the router, a publisher whose *)
(* permit arrives (the channel's semaphore is FIFO, hence strong fairness) *)
(* and the consumers in Attentive, which keep calling recv().              *)
Fairness ==
  /\ WF_vars(Start)
  /\ WF_vars(Router)
  /\ WF_vars(Stop)
  /\ WF_vars(MonitorTick)
  /\ \A p \in Publishers : SF_vars(EndPublish(p))
  /\ \A s \in Subscribers : WF_vars(RegisterPattern(s) \/ EndSubscribe(s))
  /\ \A s \in Attentive : WF_vars(Consume(s))

FairSpec == Spec /\ Fairness

-----------------------------------------------------------------------------
(* Properties *)

Count(seq, x) == Cardinality({i \in DOMAIN seq : seq[i] = x})

(* Every variable has its type, and the channels respect their capacities. *)
TypeOK ==
  /\ sent \in [Publishers -> Nat] /\ \A p \in Publishers : sent[p] <= MaxPublish[p]
  /\ sending \in [Publishers -> Event \cup {None}]
  /\ ingest \in Seq(Event) /\ Len(ingest) <= IngestCap
  /\ depth \in Nat
  /\ phase \in {"created", "running", "stopped"}
  /\ rpc \in {"recv", "account", "wild", "send"}
  /\ cur \in Event \cup {None} /\ (rpc # "recv" => cur \in Event)
  /\ targets \in Seq(Subscribers) /\ (rpc = "send" => targets # <<>>)
  /\ exact \in [Types -> Seq(Subscribers)]
  /\ wild \in Seq(Subscribers)
  /\ substate \in [Subscribers -> {"new", "registering", "active", "closed"}]
  /\ todo \in [Subscribers -> Seq(Types \cup {Star} \cup Prefixes)]
  /\ queue \in [Subscribers -> Seq(Event)]
  /\ \A s \in Subscribers : Len(queue[s]) <= SubCap
  /\ published \in Nat /\ dropped \in Nat /\ reported \in Nat
  /\ signal \in {"Normal", "Elevated", "High", "Critical"}
  /\ shutdown \in BOOLEAN
  /\ routed \in Seq(Event)
  /\ log \in [Subscribers -> Seq(Event)]
  /\ joined \in [Subscribers -> Nat]

(* ingest_depth, moved by publishers and by the router with no lock around *)
(* the channel operation it describes, is exactly the number of publish()  *)
(* calls that are blocked, queued or just taken out: it never underflows   *)
(* and, since a blocked call counts, it may exceed the channel capacity.   *)
Blocked == {p \in Publishers : sending[p] # None}
DepthAccounting ==
  depth = Len(ingest) + Cardinality(Blocked) + (IF rpc = "account" THEN 1 ELSE 0)

(* When the monitor's sample shows the ingest channel 90% full or more,    *)
(* the signal it sends with that sample is Critical.                       *)
FullMeansCritical == reported * 100 >= 90 * IngestCap => signal = "Critical"

(* From the return of subscribe() on, each event the router takes reaches  *)
(* the subscriber once per matching registration: none is missed while     *)
(* other subscribers come and go, none is repeated, and a snapshot taken   *)
(* during the routing of an earlier event changes nothing.                 *)
EveryEventDelivered ==
  \A s \in Subscribers : substate[s] = "active" =>
    \A i \in (joined[s] + 1)..Len(routed) :
      LET e == routed[i]
          left == IF Matches(s, e) THEN Count(targets, s) ELSE 0
          now == IF i < Len(routed) \/ rpc = "recv" THEN Entries(s, e)
                 ELSE IF rpc = "send" THEN Entries(s, e) - left
                 ELSE 0
      IN  Count(log[s], e) = now

(* A subscriber sees the events of one publisher in the order in which     *)
(* they were published, however the sends of publishers interleave.        *)
PublisherOrder ==
  \A s \in Subscribers : \A i, j \in DOMAIN log[s] :
    (i < j /\ log[s][i].src = log[s][j].src) => log[s][i].n <= log[s][j].n

(* publish() returns: the router frees a slot sooner or later, unless the  *)
(* bus is shut down (after which a full channel is never drained again).   *)
PublishReturns ==
  \A p \in Publishers : sending[p] # None ~> (sending[p] = None \/ shutdown)

(* An event in the ingest channel reaches every attentive subscriber whose *)
(* filter matches it and who was there before, and is taken by it.         *)
Received(s, e) == Count(log[s], e) > 0 /\ Count(queue[s], e) = 0
AcceptedIsReceived ==
  \A s \in Attentive : \A e \in Event :
    (substate[s] = "active" /\ Matches(s, e) /\ Count(ingest, e) > 0)
      ~> (Received(s, e) \/ substate[s] = "closed" \/ shutdown)

=============================================================================
