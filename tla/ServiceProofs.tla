----------------------------- MODULE ServiceProofs -----------------------------
(***************************************************************************)
(* Theorems about the running service: what the StreamAlerts clients are   *)
(* shown, against what the database has, for every number of alerts,       *)
(* handlers and clients, every capacity of the channel and every inter-    *)
(* leaving of statements and sends; and what the collector manager holds,  *)
(* for every number of tasks, workers and collectors.                      *)
(***************************************************************************)
EXTENDS Service, TLAPS, SequenceTheorems

-----------------------------------------------------------------------------
(* The alerts and their streams                                            *)

Working == [pc : {"update", "get", "send"}, id : Alerts, want : States, row : Row \cup {None}]

Typed ==
  /\ db \in [Alerts -> Row \cup {None}]
  /\ creator \in Alerts \cup {None}
  /\ handler \in [Handlers -> Working \cup {Idle}]
  /\ updates \in 0..MaxUpdates
  /\ sent \in Seq(Change)
  /\ client \in [Clients -> [on : BOOLEAN, next : Nat \ {0},
                             seen : [Alerts -> Change \cup {None}], lagged : BOOLEAN]]
  /\ \A c \in Clients : client[c].next \in 1..(Len(sent) + 1)
  /\ contended \subseteq Alerts

(* Where the next events come from: the row the creator has inserted was   *)
(* New when it was not written since, and the row a handler has read back  *)
(* is one the database had.                                                *)
Pending ==
  /\ \A a \in Alerts : db[a] # None /\ db[a].upd = 0 => db[a].state = New
  /\ creator # None => db[creator] # None
  /\ \A h \in Handlers : handler[h].pc = "send" =>
       /\ handler[h].row # None
       /\ Current([id |-> handler[h].id, state |-> handler[h].row.state,
                   upd |-> handler[h].row.upd])

RealInv == Typed /\ AckCoherent /\ Pending /\ OnlyRealStates

(* The constants.                                                          *)
LEMMA Constants ==
  /\ New \in States /\ Acknowledged \in States \ {New}
  /\ None \notin States /\ None \notin Handlers /\ None \notin Alerts /\ None \notin Row
  /\ Capacity \in Nat \ {0} /\ MaxUpdates \in Nat
  /\ Idle \notin Working
<1>1. Idle.id = None /\ \A w \in Working : w.id \in Alerts
  BY DEF Idle, Working
<1>2. QED
  BY <1>1, LifecycleAssumption DEF LifecycleAssumption

(* A handler that is busy has an alert, and one that is not has none.      *)
LEMMA HandlerTyped ==
  ASSUME Typed, NEW h \in Handlers
  PROVE  /\ handler[h].pc # "idle" => handler[h] \in Working
         /\ handler[h] \in Working =>
              /\ handler[h].pc \in {"update", "get", "send"} /\ handler[h].pc # "idle"
              /\ handler[h].id \in Alerts /\ handler[h].want \in States
              /\ handler[h].row \in Row \cup {None}
         /\ handler[h].pc = "idle" => handler[h] = Idle /\ handler[h].id = None
         /\ handler[h].id \in Alerts <=> handler[h].pc # "idle"
<1>1. handler[h] \in Working \cup {Idle}
  BY DEF Typed
<1>2. Idle.pc = "idle" /\ Idle.id = None
  BY DEF Idle
<1>3. QED
  BY <1>1, <1>2, Constants DEF Working

(* The channel: what was sent stays where it was, and an event is added.   *)
LEMMA SendAppends ==
  ASSUME Typed, NEW e \in Change, sent' = Append(sent, e)
  PROVE  /\ sent' \in Seq(Change) /\ Len(sent) \in Nat
         /\ DOMAIN sent = 1..Len(sent) /\ DOMAIN sent' = 1..(Len(sent) + 1)
         /\ Len(sent') = Len(sent) + 1
         /\ \A i \in DOMAIN sent : sent'[i] = sent[i] /\ sent[i] \in Change
         /\ sent'[Len(sent) + 1] = e
BY AppendProperties, LenProperties DEF Typed

(* An event that was real stays real when rows are only inserted or        *)
(* written again.                                                          *)
LEMMA CurrentStays ==
  ASSUME Typed, NEW e, Current(e), e.id \in Alerts, e.upd \in Nat,
         db'[e.id] = db[e.id]
           \/ (db[e.id] # None /\ db'[e.id] \in Row /\ db'[e.id].upd = db[e.id].upd + 1)
  PROVE  db'[e.id] # None /\ e.upd <= db'[e.id].upd
           /\ (e.upd = db'[e.id].upd => e.state = db'[e.id].state)
<1>1. db[e.id] \in Row /\ db[e.id].upd \in Nat
  BY DEF Current, Typed, Row
<1>2. QED
  BY <1>1, Constants DEF Current

-----------------------------------------------------------------------------
(* What goes out was in the database *)

(* A row is inserted, or written once more: what was real of the events    *)
(* sent and of those about to be sent stays so.                            *)
LEMMA WriteReal ==
  ASSUME RealInv, Typed', NEW a \in Alerts, NEW row \in Row,
         db' = [db EXCEPT ![a] = row],
         \/ db[a] = None /\ row.upd = 0 /\ row.state = New
         \/ db[a] # None /\ row.upd = db[a].upd + 1,
         row.by # None <=> row.state = Acknowledged,
         sent' = sent, creator' \in {creator, a},
         \A h \in Handlers : handler'[h].pc = "send" => handler'[h] = handler[h]
  PROVE  RealInv'
<1>0. Typed /\ AckCoherent /\ Pending /\ OnlyRealStates /\ row # None /\ row.upd \in Nat
  BY Constants DEF RealInv, Row
<1>1. db'[a] = row /\ \A b \in Alerts \ {a} : db'[b] = db[b]
  BY <1>0 DEF Typed
<1>2. \A b \in Alerts : db[b] # None => db[b].upd \in Nat
  BY <1>0 DEF Typed, Row
<1>3. AckCoherent'
  BY <1>0, <1>1 DEF AckCoherent
<1>4. ASSUME NEW e \in Change, Current(e) PROVE Current(e)'
  <2>1. e.id \in Alerts /\ e.upd \in Nat /\ db[e.id] # None
    BY <1>4 DEF Current, Change
  <2>2. CASE e.id # a
    BY <1>1, <1>4, <2>1, <2>2 DEF Current
  <2>3. CASE e.id = a
    <3>1. row.upd = db[a].upd + 1 /\ db[a].upd \in Nat /\ e.upd <= db[a].upd
      BY <1>2, <1>4, <2>1, <2>3 DEF Current
    <3>2. e.upd <= row.upd /\ e.upd # row.upd
      BY <2>1, <3>1
    <3>3. QED
      BY <1>0, <1>1, <2>3, <3>2 DEF Current
  <2>4. QED
    BY <2>2, <2>3
<1>5. Pending'
  <2>1. ASSUME NEW h \in Handlers, handler'[h].pc = "send"
        PROVE  /\ handler'[h].row # None
               /\ Current([id |-> handler[h].id, state |-> handler[h].row.state,
                           upd |-> handler[h].row.upd])'
    <3> DEFINE e == [id |-> handler[h].id, state |-> handler[h].row.state,
                     upd |-> handler[h].row.upd]
    <3>1. /\ handler'[h] = handler[h] /\ handler[h].pc = "send"
          /\ handler[h].row \in Row /\ handler[h].row # None /\ handler[h].id \in Alerts
      BY <1>0, <2>1, HandlerTyped DEF Pending
    <3>2. e \in Change
      BY <3>1 DEF Change, Row
    <3>3. Current(e)
      BY <1>0, <3>1 DEF Pending
    <3>4. e' = e
      BY <3>1
    <3> HIDE DEF e
    <3>5. Current(e)'
      BY <1>4, <3>2, <3>3, <3>4 DEF Current
    <3>6. QED
      BY <3>1, <3>5 DEF e
  <2>2. \A b \in Alerts : db'[b] # None /\ db'[b].upd = 0 => db'[b].state = New
    <3>1. db[a] # None => row.upd # 0
      BY <1>0, <1>2
    <3>2. QED
      BY <1>0, <1>1, <3>1 DEF Pending
  <2>3. creator' # None => db'[creator'] # None
    BY <1>0, <1>1 DEF Pending, Typed
  <2>4. \A h \in Handlers : handler'[h].pc = "send" => handler'[h] = handler[h]
    OBVIOUS
  <2>5. QED
    BY <2>1, <2>2, <2>3, <2>4 DEF Pending
<1>6. OnlyRealStates'
  BY <1>0, <1>4, ElementOfSeq DEF OnlyRealStates, Typed
<1>7. QED
  BY <1>3, <1>5, <1>6 DEF RealInv

(* A row that is inserted is new, and its first event is true of it.       *)
LEMMA InsertReal ==
  ASSUME RealInv, NEW a \in Alerts, Insert(a)
  PROVE  RealInv'
<1> DEFINE row == [state |-> New, by |-> None, upd |-> 0]
<1>0. Typed /\ db[a] = None
  BY DEF RealInv, Insert
<1>1. row \in Row /\ row # None /\ row.by = None /\ row.state = New /\ row.upd = 0
  BY Constants DEF Row
<1>2. db' = [db EXCEPT ![a] = row] /\ creator' = a /\ UNCHANGED <<handler, updates, sent, client>>
        /\ contended' \subseteq Alerts
  BY <1>0 DEF Insert, Typed
<1> HIDE DEF row
<1>3. Typed'
  BY <1>0, <1>1, <1>2 DEF Typed
<1>4. QED
  BY <1>0, <1>1, <1>2, <1>3, WriteReal, Constants

(* What the write of a handler does: nothing when there is no row.         *)
LEMMA UpdateType ==
  ASSUME Typed, NEW h \in Handlers, Update(h)
  PROVE  /\ Typed' /\ handler[h] \in Working /\ handler[h].id \in Alerts
         /\ handler'[h] = [handler[h] EXCEPT !.pc = "get"]
         /\ handler'[h].pc = "get" /\ handler'[h].id = handler[h].id
         /\ \A k \in Handlers \ {h} : handler'[k] = handler[k]
<1>1. /\ handler[h] \in Working /\ handler[h].id \in Alerts /\ handler[h].want \in States
      /\ handler[h].pc = "update"
  BY HandlerTyped DEF Update
<1>2. [handler[h] EXCEPT !.pc = "get"] \in Working
  BY <1>1 DEF Working
<1>3. /\ handler' = [handler EXCEPT ![h] = [handler[h] EXCEPT !.pc = "get"]]
      /\ UNCHANGED <<creator, updates, sent, client, contended>>
  BY DEF Update
<1>4. handler' \in [Handlers -> Working \cup {Idle}]
  BY <1>2, <1>3 DEF Typed
<1>5. db' \in [Alerts -> Row \cup {None}]
  <2>1. ASSUME NEW row \in Row, NEW s \in States PROVE Written(row, h, s) \in Row
    BY DEF Written, Row
  <2>2. db[handler[h].id] # None => Written(db[handler[h].id], h, handler[h].want) \in Row
    BY <1>1, <2>1 DEF Typed
  <2>3. QED
    BY <1>1, <2>2 DEF Update, Typed
<1>6. Typed'
  BY <1>3, <1>4, <1>5 DEF Typed
<1>7. handler'[h] = [handler[h] EXCEPT !.pc = "get"]
        /\ \A k \in Handlers \ {h} : handler'[k] = handler[k]
  BY <1>3 DEF Typed
<1>8. QED
  BY <1>1, <1>6, <1>7 DEF Working

(* A row that is written keeps its columns in agreement.                   *)
LEMMA UpdateReal ==
  ASSUME RealInv, NEW h \in Handlers, Update(h)
  PROVE  RealInv'
<1> DEFINE a == handler[h].id
           row == Written(db[a], h, handler[h].want)
<1>0. /\ Typed /\ AckCoherent /\ Pending /\ OnlyRealStates
      /\ Typed' /\ a \in Alerts /\ handler[h].want \in States
      /\ \A k \in Handlers : handler'[k].pc = "send" => handler'[k] = handler[k]
      /\ UNCHANGED <<sent, creator>>
  <2>1. Typed
    BY DEF RealInv
  <2>2. QED
    BY <2>1, UpdateType DEF RealInv, Update, Working
<1>1. CASE db[a] = None
  <2>1. db' = db
    BY <1>1 DEF Update
  <2>2. Pending' /\ AckCoherent' /\ OnlyRealStates'
    BY <1>0, <2>1 DEF Pending, AckCoherent, OnlyRealStates, Current
  <2>3. QED
    BY <1>0, <2>2 DEF RealInv
<1>2. CASE db[a] # None
  <2>1. db' = [db EXCEPT ![a] = row]
    BY <1>2 DEF Update
  <2>2. db[a] \in Row
    BY <1>0, <1>2 DEF Typed
  <2>3. row \in Row /\ row.upd = db[a].upd + 1 /\ (row.by # None <=> row.state = Acknowledged)
    BY <1>0, <2>2, Constants DEF Row, Written
  <2> HIDE DEF row, a
  <2>4. QED
    BY <1>0, <1>2, <2>1, <2>3, WriteReal
<1>3. QED
  BY <1>1, <1>2

(* A send: the event is real, and everything else stays.                   *)
LEMMA SendReal ==
  ASSUME RealInv, UNCHANGED <<db, updates, client, contended>>,
         NEW e \in Change, Current(e), sent' = Append(sent, e),
         creator' \in {creator, None},
         handler' \in [Handlers -> Working \cup {Idle}],
         \A h \in Handlers : handler'[h].pc = "send" => handler'[h] = handler[h]
  PROVE  RealInv'
<1>0. Typed /\ AckCoherent /\ Pending /\ OnlyRealStates
  BY DEF RealInv
<1>1. /\ sent' \in Seq(Change) /\ Len(sent) \in Nat
      /\ DOMAIN sent = 1..Len(sent) /\ DOMAIN sent' = 1..(Len(sent) + 1)
      /\ Len(sent') = Len(sent) + 1
      /\ \A i \in DOMAIN sent : sent'[i] = sent[i]
      /\ sent'[Len(sent) + 1] = e
  BY <1>0, SendAppends
<1>2. 1..(Len(sent) + 1) \subseteq 1..(Len(sent') + 1)
  BY <1>1
<1>3. Typed'
  BY <1>0, <1>1, <1>2 DEF Typed
<1>4. Pending' /\ AckCoherent'
  BY <1>0 DEF Pending, AckCoherent, Current
<1>5. OnlyRealStates'
  <2> SUFFICES ASSUME NEW i \in DOMAIN sent' PROVE Current(sent'[i])
    BY DEF OnlyRealStates, Current
  <2>1. CASE i \in DOMAIN sent
    BY <1>0, <1>1, <2>1 DEF OnlyRealStates
  <2>2. CASE i = Len(sent) + 1
    BY <1>1, <2>2
  <2>3. QED
    BY <1>1, <2>1, <2>2
<1>6. QED
  BY <1>3, <1>4, <1>5 DEF RealInv

(* AlertManager::create announces the row as it was inserted.              *)
LEMMA AnnounceCreatedReal ==
  ASSUME RealInv, AnnounceCreated
  PROVE  RealInv'
<1> DEFINE e == [id |-> creator, state |-> New, upd |-> 0]
<1>0. Typed /\ Pending /\ creator \in Alerts
  BY DEF RealInv, AnnounceCreated, Typed
<1>1. e \in Change /\ sent' = Append(sent, e)
  BY <1>0, Constants DEF Change, AnnounceCreated, Send
<1>2. db[creator] # None /\ db[creator].upd \in Nat
  BY <1>0 DEF Pending, AnnounceCreated, Typed, Row
<1>3. Current(e)
  BY <1>0, <1>2 DEF Current, Pending
<1> HIDE DEF e
<1>4. QED
  BY <1>0, <1>1, <1>3, SendReal DEF AnnounceCreated, Typed

(* A handler announces the row it has read back.                           *)
LEMMA AnnounceUpdatedReal ==
  ASSUME RealInv, NEW h \in Handlers, AnnounceUpdated(h)
  PROVE  RealInv'
<1> DEFINE e == [id |-> handler[h].id, state |-> handler[h].row.state, upd |-> handler[h].row.upd]
<1>0. /\ Typed /\ Pending /\ handler[h].pc = "send"
      /\ handler[h].row \in Row /\ handler[h].id \in Alerts
  BY HandlerTyped DEF RealInv, AnnounceUpdated, Pending
<1>1. e \in Change /\ sent' = Append(sent, e) /\ Current(e)
  BY <1>0 DEF Change, Row, AnnounceUpdated, Send, Pending
<1>2. /\ handler' = [handler EXCEPT ![h] = Idle] /\ handler' \in [Handlers -> Working \cup {Idle}]
      /\ UNCHANGED <<db, creator, updates, client, contended>>
  BY <1>0 DEF AnnounceUpdated, Typed
<1>3. \A k \in Handlers : handler'[k].pc = "send" => handler'[k] = handler[k]
  BY <1>0, <1>2 DEF Typed, Idle
<1> HIDE DEF e
<1>4. QED
  BY <1>1, <1>2, <1>3, SendReal

(* The other steps of a handler: a call comes in, a row is read back, the  *)
(* database fails.                                                         *)
LEMMA HandlerType ==
  ASSUME Typed, NEW h \in Handlers,
         (\E a \in Alerts, s \in States : Request(h, a, s)) \/ Get(h) \/ StorageError(h)
  PROVE  /\ Typed'
         /\ UNCHANGED <<db, creator, sent, client>>
         /\ \A k \in Handlers \ {h} : handler'[k] = handler[k]
<1>1. UNCHANGED <<db, creator, sent, client>>
  BY DEF Request, Get, StorageError
<1>2. ASSUME NEW a \in Alerts, NEW s \in States, Request(h, a, s)
      PROVE  Typed' /\ \A k \in Handlers \ {h} : handler'[k] = handler[k]
  <2>1. [pc |-> "update", id |-> a, want |-> s, row |-> None] \in Working
    BY DEF Working
  <2>2. updates' \in 0..MaxUpdates /\ contended' \subseteq Alerts
    BY <1>2, Constants DEF Typed, Request
  <2>3. QED
    BY <1>1, <1>2, <2>1, <2>2 DEF Typed, Request
<1>3. CASE Get(h)
  <2>1. handler[h] \in Working /\ handler[h].id \in Alerts
    BY <1>3, HandlerTyped DEF Get
  <2>2. db[handler[h].id] \in Row \cup {None}
    BY <2>1 DEF Typed
  <2>3. [handler[h] EXCEPT !.pc = "send", !.row = db[handler[h].id]] \in Working
    BY <2>1, <2>2 DEF Working
  <2>4. QED
    BY <1>1, <1>3, <2>3 DEF Typed, Get
<1>4. CASE StorageError(h)
  <2>1. handler[h].id \in Alerts
    BY <1>4, HandlerTyped DEF StorageError
  <2>2. QED
    BY <1>1, <1>4, <2>1 DEF Typed, StorageError
<1>5. QED
  BY <1>1, <1>2, <1>3, <1>4

(* A handler announces the row it has read back, whoever wrote since.      *)
LEMMA HandlerReal ==
  ASSUME RealInv, NEW h \in Handlers,
         (\E a \in Alerts, s \in States : Request(h, a, s)) \/ Get(h) \/ StorageError(h)
  PROVE  RealInv'
<1>0. /\ Typed /\ AckCoherent /\ Pending /\ OnlyRealStates
      /\ Typed' /\ UNCHANGED <<db, creator, sent>>
      /\ \A k \in Handlers \ {h} : handler'[k] = handler[k]
  BY HandlerType DEF RealInv
<1>1. AckCoherent' /\ OnlyRealStates'
  BY <1>0 DEF AckCoherent, OnlyRealStates, Current
<1>2. handler'[h].pc = "send" =>
        /\ handler'[h].row # None
        /\ Current([id |-> handler'[h].id, state |-> handler'[h].row.state,
                    upd |-> handler'[h].row.upd])
  <2>1. CASE Get(h) /\ db[handler[h].id] # None
    <3> DEFINE row == db[handler[h].id]
    <3>1. handler[h] \in Working /\ handler[h].id \in Alerts
      BY <1>0, <2>1, HandlerTyped DEF Get
    <3>2. handler'[h] = [handler[h] EXCEPT !.pc = "send", !.row = row]
      BY <1>0, <2>1 DEF Get, Typed
    <3>3. handler'[h].row = row /\ handler'[h].id = handler[h].id /\ row \in Row
      BY <1>0, <2>1, <3>1, <3>2 DEF Working, Typed
    <3>4. row.upd \in Nat
      BY <3>3 DEF Row
    <3>5. QED
      BY <2>1, <3>3, <3>4 DEF Current
  <2>2. CASE Get(h) /\ db[handler[h].id] = None
    BY <1>0, <2>2 DEF Get, Typed, Idle
  <2>3. CASE (\E a \in Alerts, s \in States : Request(h, a, s)) \/ StorageError(h)
    BY <1>0, <2>3 DEF Request, StorageError, Typed, Idle
  <2>4. QED
    BY <2>1, <2>2, <2>3
<1>3. Pending'
  BY <1>0, <1>2 DEF Pending, Current
<1>4. QED
  BY <1>0, <1>1, <1>3 DEF RealInv

(* A client only changes itself.                                           *)
LEMMA ClientType ==
  ASSUME Typed, NEW c \in Clients, Subscribe(c) \/ Recv(c) \/ Lag(c)
  PROVE  /\ Typed'
         /\ UNCHANGED <<db, creator, handler, updates, sent, contended>>
         /\ \A d \in Clients \ {c} : client'[d] = client[d]
<1> DEFINE View == [on : BOOLEAN, next : Nat \ {0},
                    seen : [Alerts -> Change \cup {None}], lagged : BOOLEAN]
<1>0. /\ Len(sent) \in Nat /\ DOMAIN sent = 1..Len(sent) /\ Capacity \in Nat \ {0}
      /\ client[c] \in View /\ sent \in Seq(Change)
  BY LenProperties, Constants DEF Typed
<1>1. UNCHANGED <<db, creator, handler, updates, sent, contended>>
  BY DEF Subscribe, Recv, Lag
<1>2. \E v \in View : client' = [client EXCEPT ![c] = v] /\ v.next \in 1..(Len(sent) + 1)
  <2>1. CASE Subscribe(c)
    <3> DEFINE v == [Off EXCEPT !.on = TRUE, !.next = Len(sent) + 1]
    <3>1. [a \in Alerts |-> None] \in [Alerts -> Change \cup {None}]
      OBVIOUS
    <3>2. Off \in View
      BY <3>1 DEF Off
    <3>3. v \in View /\ v.next \in 1..(Len(sent) + 1)
      <4> DEFINE l == Len(sent) + 1
      <4>1. l \in Nat \ {0} /\ l \in 1..l
        BY <1>0
      <4> HIDE DEF l
      <4>2. [Off EXCEPT !.on = TRUE, !.next = l] \in View
        BY <3>2, <4>1
      <4>3. [Off EXCEPT !.on = TRUE, !.next = l].next = l
        BY DEF Off
      <4>4. QED
        BY <4>1, <4>2, <4>3 DEF l
    <3>4. client' = [client EXCEPT ![c] = v]
      BY <2>1 DEF Subscribe
    <3> HIDE DEF v
    <3>5. QED
      BY <3>3, <3>4
  <2>2. CASE Recv(c)
    <3> DEFINE e == sent[client[c].next]
    <3>1. client[c].next \in 1..Len(sent) /\ client[c].next + 1 \in 1..(Len(sent) + 1)
      BY <1>0, <2>2 DEF Recv
    <3>2. e \in Change
      BY <1>0, <3>1, ElementOfSeq
    <3>7. e.id \in Alerts
      BY <3>2 DEF Change
    <3>3. client' = [client EXCEPT ![c].next = @ + 1, ![c].seen[e.id] = e]
      BY <2>2 DEF Recv
    <3> HIDE DEF e
    <3>4. [client[c] EXCEPT !.next = @ + 1, !.seen[e.id] = e] \in View
      <4>1. [client[c].seen EXCEPT ![e.id] = e] \in [Alerts -> Change \cup {None}]
        BY <1>0, <3>2
      <4>2. client[c].next + 1 \in Nat \ {0}
        BY <1>0
      <4>3. QED
        BY <1>0, <4>1, <4>2
    <3>5. client' = [client EXCEPT ![c] = [client[c] EXCEPT !.next = @ + 1, !.seen[e.id] = e]]
      BY <3>3 DEF Typed
    <3>6. QED
      BY <1>0, <3>1, <3>4, <3>5
  <2>3. CASE Lag(c)
    <3>1. Oldest \in 1..(Len(sent) + 1) /\ Oldest \in Nat \ {0}
      BY <1>0 DEF Oldest
    <3>2. [client[c] EXCEPT !.next = Oldest, !.lagged = TRUE] \in View
      BY <1>0, <3>1
    <3>3. client' = [client EXCEPT ![c] = [client[c] EXCEPT !.next = Oldest, !.lagged = TRUE]]
      BY <2>3 DEF Lag, Typed
    <3>4. QED
      BY <1>0, <3>1, <3>2, <3>3
  <2>4. QED
    BY <2>1, <2>2, <2>3
<1>3. QED
  BY <1>1, <1>2 DEF Typed

(* Every step keeps what goes out real.                                    *)
LEMMA RealNext == RealInv /\ [Next]_vars => RealInv'
<1> SUFFICES ASSUME RealInv, [Next]_vars PROVE RealInv'
  OBVIOUS
<1>0. Typed
  BY DEF RealInv
<1>1. ASSUME NEW a \in Alerts, Insert(a) PROVE RealInv'
  BY <1>1, InsertReal
<1>2. CASE AnnounceCreated
  BY <1>2, AnnounceCreatedReal
<1>3. ASSUME NEW h \in Handlers, NEW a \in Alerts, NEW s \in States, Request(h, a, s) PROVE RealInv'
  BY <1>3, HandlerReal
<1>4. ASSUME NEW h \in Handlers, HandlerStep(h) PROVE RealInv'
  BY <1>4, UpdateReal, AnnounceUpdatedReal, HandlerReal DEF HandlerStep
<1>5. ASSUME NEW c \in Clients, Subscribe(c) \/ ClientStep(c) PROVE RealInv'
  <2>1. Typed' /\ UNCHANGED <<db, creator, handler, sent>>
    BY <1>0, <1>5, ClientType DEF ClientStep
  <2>2. QED
    BY <2>1 DEF RealInv, AckCoherent, Pending, OnlyRealStates, Current
<1>6. CASE UNCHANGED vars
  BY <1>6 DEF vars, RealInv, Typed, AckCoherent, Pending, OnlyRealStates, Current
<1>7. QED
  BY <1>1, <1>2, <1>3, <1>4, <1>5, <1>6 DEF Next

(* No row, no event and no client at the start.                            *)
LEMMA RealInit == Init => RealInv
<1> SUFFICES ASSUME Init PROVE RealInv
  OBVIOUS
<1>1. /\ sent \in Seq(Change) /\ Len(sent) = 0 /\ DOMAIN sent = {}
  BY EmptySeq DEF Init
<1>2. Typed
  BY <1>1, Constants DEF Init, Typed, Off
<1>3. QED
  BY <1>1, <1>2 DEF Init, RealInv, AckCoherent, Pending, OnlyRealStates, Idle

(* A StreamAlerts client is never shown a state the row did not have, nor  *)
(* an alert that is not stored, however the handlers' reads and writes     *)
(* interleave: update_alert_state, src/crates/sentinel-api/src/lib.rs.     *)
THEOREM RealStatesCorrect == Spec => []OnlyRealStates
<1>1. RealInv => OnlyRealStates
  BY DEF RealInv
<1>2. QED
  BY RealInit, RealNext, <1>1, PTL DEF Spec

-----------------------------------------------------------------------------
(* A client that is caught up shows what the database has *)

(* The last event about an alert shows the state of its row.               *)
Told(a) ==
  \A i \in DOMAIN sent :
    sent[i].id = a /\ (\A j \in DOMAIN sent : j > i => sent[j].id # a)
      => sent[i].state = db[a].state

(* An alert without overlapping writers has one writer at most, ...        *)
Solo ==
  \A a \in Alerts \ contended :
    /\ creator = a => \A h \in Handlers : handler[h].id # a
    /\ \A h, k \in Handlers : handler[h].id = a /\ handler[k].id = a => h = k

(* ... which announces what it has written before it lets the alert go.    *)
Settled ==
  \A a \in Alerts \ contended :
    /\ creator = a => db[a].state = New
    /\ \A h \in Handlers : handler[h].id = a /\ handler[h].pc = "send" => handler[h].row = db[a]
    /\ creator # a /\ (\A h \in Handlers : handler[h].id = a => handler[h].pc = "update")
         => Told(a)

(* What a client that never lagged shows of an alert is the last event     *)
(* about it among those it has taken.                                      *)
Views ==
  \A c \in Clients, a \in Alerts :
    ~client[c].lagged /\ client[c].seen[a] # None =>
      \E i \in 1..(client[c].next - 1) :
        /\ sent[i] = client[c].seen[a] /\ sent[i].id = a
        /\ \A j \in 1..(client[c].next - 1) : j > i => sent[j].id # a

ViewInv == RealInv /\ Solo /\ Settled /\ Views

(* An alert is busy exactly while a writer has it.                         *)
LEMMA BusyTyped ==
  ASSUME Typed, NEW a \in Alerts
  PROVE  Busy(a) <=> creator = a \/ \E h \in Handlers : handler[h].id = a
BY HandlerTyped DEF Busy

(* Steps of which the alert takes no notice: its row, its writers and the  *)
(* events about it stay.                                                   *)
LEMMA ToldStays ==
  ASSUME sent' = sent, NEW a, db'[a] = db[a], Told(a)
  PROVE  Told(a)'
BY DEF Told

(* An event about another alert tells nothing of this one.                 *)
LEMMA ToldAnother ==
  ASSUME Typed, NEW e \in Change, sent' = Append(sent, e), NEW a, e.id # a,
         db'[a] = db[a], Told(a)
  PROVE  Told(a)'
<1>0. /\ Len(sent) \in Nat /\ DOMAIN sent = 1..Len(sent) /\ DOMAIN sent' = 1..(Len(sent) + 1)
      /\ \A i \in DOMAIN sent : sent'[i] = sent[i]
      /\ sent'[Len(sent) + 1] = e
  BY SendAppends
<1> SUFFICES ASSUME NEW i \in DOMAIN sent', sent'[i].id = a,
                    \A j \in DOMAIN sent' : j > i => sent'[j].id # a
             PROVE  sent'[i].state = db'[a].state
  BY DEF Told
<1>1. i \in DOMAIN sent
  BY <1>0
<1>2. \A j \in DOMAIN sent : j > i => sent[j].id # a
  BY <1>0
<1>3. QED
  BY <1>0, <1>1, <1>2 DEF Told

(* The event just sent is the last about its alert.                        *)
LEMMA ToldNow ==
  ASSUME Typed, NEW e \in Change, sent' = Append(sent, e), NEW a, e.id = a,
         e.state = db'[a].state
  PROVE  Told(a)'
<1>0. /\ Len(sent) \in Nat /\ DOMAIN sent' = 1..(Len(sent) + 1)
      /\ sent'[Len(sent) + 1] = e
  BY SendAppends
<1> SUFFICES ASSUME NEW i \in DOMAIN sent', sent'[i].id = a,
                    \A j \in DOMAIN sent' : j > i => sent'[j].id # a
             PROVE  sent'[i].state = db'[a].state
  BY DEF Told
<1>1. i = Len(sent) + 1
  BY <1>0
<1>2. QED
  BY <1>0, <1>1

(* A send leaves what the clients have taken where it was.                 *)
LEMMA ViewsSend ==
  ASSUME Typed, Views, NEW e \in Change, sent' = Append(sent, e), UNCHANGED client
  PROVE  Views'
<1>0. /\ Len(sent) \in Nat /\ DOMAIN sent = 1..Len(sent)
      /\ \A i \in DOMAIN sent : sent'[i] = sent[i]
  BY SendAppends
<1>1. \A c \in Clients : client[c].next \in Nat \ {0} /\ client[c].next <= Len(sent) + 1
  BY <1>0 DEF Typed
<1>2. \A c \in Clients : \A i \in 1..(client[c].next - 1) : sent'[i] = sent[i]
  BY <1>0, <1>1
<1> SUFFICES ASSUME NEW c \in Clients, NEW a \in Alerts,
                    ~client'[c].lagged, client'[c].seen[a] # None
             PROVE  \E i \in 1..(client'[c].next - 1) :
                      /\ sent'[i] = client'[c].seen[a] /\ sent'[i].id = a
                      /\ \A j \in 1..(client'[c].next - 1) : j > i => sent'[j].id # a
  BY DEF Views
<1>3. PICK i \in 1..(client[c].next - 1) :
        /\ sent[i] = client[c].seen[a] /\ sent[i].id = a
        /\ \A j \in 1..(client[c].next - 1) : j > i => sent[j].id # a
  BY DEF Views
<1>4. client' = client /\ sent'[i] = sent[i] /\ \A j \in 1..(client[c].next - 1) : sent'[j] = sent[j]
  BY <1>2
<1>5. \A j \in 1..(client[c].next - 1) : j > i => sent'[j].id # a
  BY <1>3, <1>4
<1>6. sent'[i] = client[c].seen[a] /\ sent'[i].id = a
  BY <1>3, <1>4
<1>7. QED
  BY <1>4, <1>5, <1>6

(* AlertManager::create: insert ...                                        *)
LEMMA InsertView ==
  ASSUME ViewInv, NEW a \in Alerts, Insert(a)
  PROVE  ViewInv'
<1>0. /\ RealInv' /\ Typed /\ Solo /\ Settled /\ Views /\ creator = None
      /\ creator' = a /\ UNCHANGED <<handler, sent, client>>
      /\ db' = [db EXCEPT ![a] = [state |-> New, by |-> None, upd |-> 0]]
      /\ contended' = IF Busy(a) THEN contended \cup {a} ELSE contended
  BY InsertReal DEF ViewInv, RealInv, Insert
<1>1. /\ db'[a].state = New
      /\ \A b \in Alerts \ {a} : db'[b] = db[b] /\ creator # b /\ creator' # b
      /\ contended \subseteq contended'
      /\ a \notin contended' => \A h \in Handlers : handler[h].id # a
  BY <1>0, BusyTyped, Constants DEF Typed
<1>2. Solo'
  BY <1>0, <1>1 DEF Solo
<1>3. Settled'
  <2> SUFFICES ASSUME NEW b \in Alerts \ contended'
               PROVE  /\ creator' = b => db'[b].state = New
                      /\ \A h \in Handlers : handler'[h].id = b /\ handler'[h].pc = "send"
                                              => handler'[h].row = db'[b]
                      /\ creator' # b
                           /\ (\A h \in Handlers : handler'[h].id = b => handler'[h].pc = "update")
                           => Told(b)'
    BY DEF Settled
  <2>1. CASE b = a
    BY <1>0, <1>1, <2>1
  <2>2. CASE b # a
    BY <1>0, <1>1, <2>2, ToldStays DEF Settled
  <2>3. QED
    BY <2>1, <2>2
<1>4. Views'
  BY <1>0 DEF Views
<1>5. QED
  BY <1>0, <1>2, <1>3, <1>4 DEF ViewInv

(* ... then send Created.                                                  *)
LEMMA AnnounceCreatedView ==
  ASSUME ViewInv, AnnounceCreated
  PROVE  ViewInv'
<1> DEFINE a == creator
           e == [id |-> creator, state |-> New, upd |-> 0]
<1>0. /\ RealInv' /\ Typed /\ Solo /\ Settled /\ Views /\ a \in Alerts
      /\ creator' = None /\ UNCHANGED <<db, handler, client, contended>>
  BY AnnounceCreatedReal DEF ViewInv, RealInv, AnnounceCreated, Typed
<1>1. e \in Change /\ e.id = a /\ e.state = New /\ sent' = Append(sent, e)
  BY <1>0, Constants DEF Change, AnnounceCreated, Send
<1> HIDE DEF e
<1>2. Solo'
  BY <1>0, Constants DEF Solo
<1>3. Settled'
  <2> SUFFICES ASSUME NEW b \in Alerts \ contended
               PROVE  /\ creator' = b => db'[b].state = New
                      /\ \A h \in Handlers : handler'[h].id = b /\ handler'[h].pc = "send"
                                              => handler'[h].row = db'[b]
                      /\ creator' # b
                           /\ (\A h \in Handlers : handler'[h].id = b => handler'[h].pc = "update")
                           => Told(b)'
    BY <1>0 DEF Settled
  <2>1. creator' # b
    BY <1>0, Constants
  <2>2. CASE b = a
    <3>1. db[b].state = New
      BY <1>0, <2>2 DEF Settled
    <3>2. Told(b)'
      BY <1>0, <1>1, <2>2, <3>1, ToldNow
    <3>3. QED
      BY <1>0, <2>1, <3>2 DEF Settled
  <2>3. CASE b # a
    BY <1>0, <1>1, <2>1, <2>3, ToldAnother DEF Settled
  <2>4. QED
    BY <2>2, <2>3
<1>4. Views'
  BY <1>0, <1>1, ViewsSend
<1>5. QED
  BY <1>0, <1>2, <1>3, <1>4 DEF ViewInv

(* update_alert_state: a call comes in.                                    *)
LEMMA RequestView ==
  ASSUME ViewInv, NEW h \in Handlers, NEW a \in Alerts, NEW s \in States, Request(h, a, s)
  PROVE  ViewInv'
<1>0. /\ RealInv' /\ Typed /\ Solo /\ Settled /\ Views
      /\ handler[h].id = None /\ UNCHANGED <<db, creator, sent, client>>
      /\ contended' = IF Busy(a) THEN contended \cup {a} ELSE contended
      /\ handler'[h].pc = "update" /\ handler'[h].id = a
      /\ \A k \in Handlers \ {h} : handler'[k] = handler[k]
  BY HandlerReal, HandlerTyped DEF ViewInv, RealInv, Request, Typed
<1>1. /\ contended \subseteq contended'
      /\ a \notin contended' => creator # a /\ \A k \in Handlers : handler[k].id # a
      /\ \A b \in Alerts : handler[h].id # b
  BY <1>0, BusyTyped, Constants
<1>2. Solo'
  BY <1>0, <1>1 DEF Solo
<1>3. Settled'
  <2> SUFFICES ASSUME NEW b \in Alerts \ contended'
               PROVE  /\ creator = b => db[b].state = New
                      /\ \A k \in Handlers : handler'[k].id = b /\ handler'[k].pc = "send"
                                              => handler'[k].row = db[b]
                      /\ creator # b
                           /\ (\A k \in Handlers : handler'[k].id = b => handler'[k].pc = "update")
                           => Told(b)
    BY <1>0 DEF Settled, Told
  <2>1. \A k \in Handlers : handler'[k].id = b /\ handler'[k].pc = "send" => handler'[k] = handler[k]
    BY <1>0
  <2>2. \A k \in Handlers : handler[k].id = b => handler'[k] = handler[k]
    BY <1>0, <1>1
  <2>3. QED
    BY <1>1, <1>0, <2>1, <2>2 DEF Settled
<1>4. Views'
  BY <1>0 DEF Views
<1>5. QED
  BY <1>0, <1>2, <1>3, <1>4 DEF ViewInv

(* The write of a handler; until it has announced it the alert is its own. *)
LEMMA UpdateView ==
  ASSUME ViewInv, NEW h \in Handlers, Update(h)
  PROVE  ViewInv'
<1> DEFINE a == handler[h].id
<1>0. /\ RealInv' /\ Typed /\ Solo /\ Settled /\ Views /\ a \in Alerts
      /\ UNCHANGED <<creator, sent, client, contended>>
      /\ handler'[h].pc = "get" /\ handler'[h].id = a
      /\ \A k \in Handlers \ {h} : handler'[k] = handler[k]
  BY UpdateReal, UpdateType DEF ViewInv, RealInv, Update
<1>1. \A b \in Alerts \ {a} : db'[b] = db[b]
  BY <1>0 DEF Update, Typed
<1> HIDE DEF a
<1>2. Solo'
  <2>1. \A k \in Handlers : handler'[k].id = handler[k].id
    BY <1>0 DEF a
  <2>2. QED
    BY <1>0, <2>1 DEF Solo
<1>3. Settled'
  <2> SUFFICES ASSUME NEW b \in Alerts \ contended
               PROVE  /\ creator = b => db'[b].state = New
                      /\ \A k \in Handlers : handler'[k].id = b /\ handler'[k].pc = "send"
                                              => handler'[k].row = db'[b]
                      /\ creator # b
                           /\ (\A k \in Handlers : handler'[k].id = b => handler'[k].pc = "update")
                           => Told(b)'
    BY <1>0 DEF Settled
  <2>1. CASE b = a
    <3>1. creator # b /\ \A k \in Handlers : handler[k].id = b => k = h
      BY <1>0, <2>1 DEF Solo, a
    <3>2. \A k \in Handlers : handler'[k].id = b => k = h
      BY <1>0, <3>1
    <3>3. QED
      BY <1>0, <2>1, <3>1, <3>2
  <2>2. CASE b # a
    <3>1. \A k \in Handlers : handler[k].id = b \/ handler'[k].id = b => handler'[k] = handler[k]
      BY <1>0, <2>2 DEF a
    <3>2. db'[b] = db[b]
      BY <1>1, <2>2
    <3>3. QED
      BY <1>0, <3>1, <3>2, ToldStays DEF Settled
  <2>3. QED
    BY <2>1, <2>2
<1>4. Views'
  BY <1>0 DEF Views
<1>5. QED
  BY <1>0, <1>2, <1>3, <1>4 DEF ViewInv

(* A handler reads back what it has written; where there is no row nothing *)
(* was ever announced.                                                     *)
LEMMA GetView ==
  ASSUME ViewInv, NEW h \in Handlers, Get(h)
  PROVE  ViewInv'
<1> DEFINE a == handler[h].id
<1>0. /\ RealInv' /\ Typed /\ Solo /\ Settled /\ Views /\ OnlyRealStates /\ a \in Alerts
      /\ handler[h] \in Working
      /\ UNCHANGED <<db, creator, sent, client, contended>>
      /\ \A k \in Handlers \ {h} : handler'[k] = handler[k]
  BY HandlerReal, HandlerTyped, HandlerType DEF ViewInv, RealInv, Get
<1>1. \/ db[a] = None /\ handler'[h] = Idle /\ handler'[h].id = None
      \/ /\ db[a] # None
         /\ handler'[h].id = a /\ handler'[h].pc = "send" /\ handler'[h].row = db[a]
  BY <1>0 DEF Get, Typed, Working, Idle
<1> HIDE DEF a
<1>2. \A k \in Handlers, b \in Alerts : handler'[k].id = b => handler[k].id = b
  BY <1>0, <1>1, Constants DEF a
<1>3. Solo'
  BY <1>0, <1>2 DEF Solo
<1>4. Settled'
  <2> SUFFICES ASSUME NEW b \in Alerts \ contended
               PROVE  /\ creator = b => db[b].state = New
                      /\ \A k \in Handlers : handler'[k].id = b /\ handler'[k].pc = "send"
                                              => handler'[k].row = db[b]
                      /\ creator # b
                           /\ (\A k \in Handlers : handler'[k].id = b => handler'[k].pc = "update")
                           => Told(b)
    BY <1>0 DEF Settled, Told
  <2>1. CASE b = a /\ db[a] = None
    <3>1. \A i \in DOMAIN sent : sent[i].id # b
      BY <1>0, <2>1 DEF OnlyRealStates, Current
    <3>2. Told(b)
      BY <3>1 DEF Told
    <3>3. \A k \in Handlers : handler'[k].id = b /\ handler'[k].pc = "send" => handler'[k] = handler[k]
      BY <1>0, <1>1, <2>1, Constants DEF Idle
    <3>4. QED
      BY <1>0, <1>2, <3>2, <3>3 DEF Settled
  <2>2. CASE b = a /\ db[a] # None
    <3>1. handler'[h].id = b /\ handler'[h].pc = "send" /\ handler'[h].row = db[b]
      BY <1>1, <2>2
    <3>2. QED
      BY <1>0, <3>1 DEF Settled
  <2>3. CASE b # a
    <3>1. \A k \in Handlers : handler[k].id = b \/ handler'[k].id = b => handler'[k] = handler[k]
      BY <1>0, <1>1, <2>3, Constants DEF a
    <3>2. QED
      BY <1>0, <3>1 DEF Settled
  <2>4. QED
    BY <2>1, <2>2, <2>3
<1>5. Views'
  BY <1>0 DEF Views
<1>6. QED
  BY <1>0, <1>3, <1>4, <1>5 DEF ViewInv

(* A call that fails before its write leaves no trace; after it, the alert *)
(* is one of those whose last write was not announced.                     *)
LEMMA ErrorView ==
  ASSUME ViewInv, NEW h \in Handlers, StorageError(h)
  PROVE  ViewInv'
<1> DEFINE a == handler[h].id
<1>0. /\ RealInv' /\ Typed /\ Solo /\ Settled /\ Views /\ a \in Alerts
      /\ UNCHANGED <<db, creator, sent, client>>
      /\ \A k \in Handlers \ {h} : handler'[k] = handler[k]
      /\ handler'[h].id = None
      /\ contended' = IF handler[h].pc = "get" THEN contended \cup {a} ELSE contended
      /\ handler[h].pc \in {"update", "get"}
  BY HandlerReal, HandlerTyped, HandlerType DEF ViewInv, RealInv, StorageError, Typed, Idle
<1>1. contended \subseteq contended' /\ (a \notin contended' => handler[h].pc = "update")
  BY <1>0
<1> HIDE DEF a
<1>2. \A k \in Handlers, b \in Alerts : handler'[k].id = b => handler'[k] = handler[k]
  BY <1>0, Constants
<1>3. Solo'
  BY <1>0, <1>1, <1>2 DEF Solo
<1>4. Settled'
  <2> SUFFICES ASSUME NEW b \in Alerts \ contended'
               PROVE  /\ creator = b => db[b].state = New
                      /\ \A k \in Handlers : handler'[k].id = b /\ handler'[k].pc = "send"
                                              => handler'[k].row = db[b]
                      /\ creator # b
                           /\ (\A k \in Handlers : handler'[k].id = b => handler'[k].pc = "update")
                           => Told(b)
    BY <1>0 DEF Settled, Told
  <2>1. \A k \in Handlers : handler[k].id = b => handler'[k] = handler[k] \/ handler[k].pc = "update"
    BY <1>0, <1>1 DEF a
  <2>2. QED
    BY <1>0, <1>1, <1>2, <2>1 DEF Settled
<1>5. Views'
  BY <1>0 DEF Views
<1>6. QED
  BY <1>0, <1>3, <1>4, <1>5 DEF ViewInv

(* A handler sends the row it has read and lets the alert go.              *)
LEMMA AnnounceUpdatedView ==
  ASSUME ViewInv, NEW h \in Handlers, AnnounceUpdated(h)
  PROVE  ViewInv'
<1> DEFINE a == handler[h].id
           e == [id |-> handler[h].id, state |-> handler[h].row.state, upd |-> handler[h].row.upd]
<1>0. /\ RealInv' /\ Typed /\ Pending /\ Solo /\ Settled /\ Views /\ a \in Alerts
      /\ handler[h].pc = "send" /\ handler[h].row \in Row
      /\ UNCHANGED <<db, creator, client, contended>>
      /\ handler'[h].id = None
      /\ \A k \in Handlers \ {h} : handler'[k] = handler[k]
  BY AnnounceUpdatedReal, HandlerTyped DEF ViewInv, RealInv, AnnounceUpdated, Typed, Idle, Pending
<1>1. /\ e \in Change /\ e.id = a /\ e.state = handler[h].row.state /\ sent' = Append(sent, e)
  BY <1>0 DEF Change, Row, AnnounceUpdated, Send
<1> HIDE DEF e, a
<1>2. \A k \in Handlers, b \in Alerts : handler'[k].id = b => handler'[k] = handler[k]
  BY <1>0, Constants
<1>3. Solo'
  BY <1>0, <1>2 DEF Solo
<1>4. Settled'
  <2> SUFFICES ASSUME NEW b \in Alerts \ contended
               PROVE  /\ creator = b => db[b].state = New
                      /\ \A k \in Handlers : handler'[k].id = b /\ handler'[k].pc = "send"
                                              => handler'[k].row = db[b]
                      /\ creator # b
                           /\ (\A k \in Handlers : handler'[k].id = b => handler'[k].pc = "update")
                           => Told(b)'
    BY <1>0 DEF Settled
  <2>1. CASE b = a
    <3>1. handler[h].row = db[b]
      BY <1>0, <2>1 DEF Settled, a
    <3>2. Told(b)'
      BY <1>0, <1>1, <2>1, <3>1, ToldNow
    <3>3. QED
      BY <1>0, <1>2, <3>2 DEF Settled
  <2>2. CASE b # a
    <3>1. \A k \in Handlers : handler[k].id = b => handler'[k] = handler[k]
      BY <1>0, <2>2 DEF a
    <3>2. Told(b) => Told(b)'
      BY <1>0, <1>1, <2>2, ToldAnother
    <3>3. QED
      BY <1>0, <1>2, <3>1, <3>2 DEF Settled
  <2>3. QED
    BY <2>1, <2>2
<1>5. Views'
  BY <1>0, <1>1, ViewsSend
<1>6. QED
  BY <1>0, <1>3, <1>4, <1>5 DEF ViewInv

(* StreamAlerts: a client begins with nothing, takes the next event, or    *)
(* learns that it has lagged.                                              *)
LEMMA ClientView ==
  ASSUME ViewInv, NEW c \in Clients, Subscribe(c) \/ Recv(c) \/ Lag(c)
  PROVE  ViewInv'
<1>0. /\ RealInv /\ Typed /\ Typed' /\ Solo /\ Settled /\ Views
      /\ UNCHANGED <<db, creator, handler, updates, sent, contended>>
      /\ \A d \in Clients \ {c} : client'[d] = client[d]
      /\ Len(sent) \in Nat /\ DOMAIN sent = 1..Len(sent)
  BY ClientType, LenProperties DEF ViewInv, RealInv, Typed
<1>1. RealInv' /\ Solo' /\ Settled'
  BY <1>0 DEF RealInv, AckCoherent, Pending, OnlyRealStates, Current, Solo, Settled, Told
<1>2. Views'
  <2> SUFFICES ASSUME NEW a \in Alerts, ~client'[c].lagged, client'[c].seen[a] # None
               PROVE  \E i \in 1..(client'[c].next - 1) :
                        /\ sent[i] = client'[c].seen[a] /\ sent[i].id = a
                        /\ \A j \in 1..(client'[c].next - 1) : j > i => sent[j].id # a
    BY <1>0 DEF Views
  <2>1. CASE Subscribe(c)
    BY <1>0, <2>1 DEF Subscribe, Off, Typed
  <2>2. CASE Lag(c)
    BY <1>0, <2>2 DEF Lag, Typed
  <2>3. CASE Recv(c)
    <3> DEFINE n == client[c].next
               e == sent[n]
    <3>1. /\ n \in Nat \ {0} /\ n <= Len(sent) /\ n \in DOMAIN sent
          /\ client[c].seen \in [Alerts -> Change \cup {None}]
      BY <1>0, <2>3 DEF Recv, Typed
    <3>2. e \in Change /\ e.id \in Alerts
      <4>1. e \in Change
        BY <1>0, <3>1, ElementOfSeq DEF Typed
      <4>2. QED
        BY <4>1 DEF Change
    <3>3. /\ client'[c].next = n + 1 /\ client'[c].lagged = client[c].lagged
          /\ client'[c].seen = [client[c].seen EXCEPT ![e.id] = e]
      BY <1>0, <2>3 DEF Recv, Typed
    <3>4. (n + 1) - 1 = n /\ n \in 1..n /\ \A j \in 1..n : j = n \/ j \in 1..(n - 1)
      BY <3>1
    <3>5. CASE e.id = a
      <4>1. client'[c].seen[a] = sent[n] /\ sent[n].id = a
        BY <3>1, <3>3, <3>5
      <4>2. \A j \in 1..n : ~(j > n)
        BY <3>1
      <4>3. QED
        BY <3>3, <3>4, <4>1, <4>2
    <3>6. CASE e.id # a
      <4>1. client'[c].seen[a] = client[c].seen[a] /\ ~client[c].lagged
        BY <3>1, <3>3, <3>6
      <4>2. PICK i \in 1..(n - 1) :
              /\ sent[i] = client[c].seen[a] /\ sent[i].id = a
              /\ \A j \in 1..(n - 1) : j > i => sent[j].id # a
        BY <1>0, <4>1 DEF Views
      <4>3. i \in 1..n /\ \A j \in 1..n : j > i => sent[j].id # a
        BY <3>1, <3>4, <3>6, <4>2
      <4>4. QED
        BY <3>3, <3>4, <4>1, <4>2, <4>3
    <3>7. QED
      BY <3>5, <3>6
  <2>4. QED
    BY <2>1, <2>2, <2>3
<1>3. QED
  BY <1>1, <1>2 DEF ViewInv

(* Every step keeps it.                                                    *)
LEMMA ViewNext == ViewInv /\ [Next]_vars => ViewInv'
<1> SUFFICES ASSUME ViewInv, [Next]_vars PROVE ViewInv'
  OBVIOUS
<1>1. ASSUME NEW a \in Alerts, Insert(a) PROVE ViewInv'
  BY <1>1, InsertView
<1>2. CASE AnnounceCreated
  BY <1>2, AnnounceCreatedView
<1>3. ASSUME NEW h \in Handlers, NEW a \in Alerts, NEW s \in States, Request(h, a, s) PROVE ViewInv'
  BY <1>3, RequestView
<1>4. ASSUME NEW h \in Handlers, HandlerStep(h) PROVE ViewInv'
  BY <1>4, UpdateView, GetView, AnnounceUpdatedView, ErrorView DEF HandlerStep
<1>5. ASSUME NEW c \in Clients, Subscribe(c) \/ ClientStep(c) PROVE ViewInv'
  BY <1>5, ClientView DEF ClientStep
<1>6. CASE UNCHANGED vars
  <2>1. RealInv'
    BY <1>6, RealNext DEF ViewInv
  <2>2. QED
    BY <1>6, <2>1 DEF vars, ViewInv, Solo, Settled, Told, Views
<1>7. QED
  BY <1>1, <1>2, <1>3, <1>4, <1>5, <1>6 DEF Next

(* A client that has taken every event and never lagged shows the state in *)
(* the database of every alert whose writers did not overlap: an announce- *)
(* ment is never missing and never overtaken, AlertManager::create and     *)
(* update_alert_state, src/crates/sentinel-api/src/lib.rs.                 *)
THEOREM ViewCorrect == Spec => []ViewConverges
<1>1. Init => ViewInv
  <2> SUFFICES ASSUME Init PROVE ViewInv
    OBVIOUS
  <2>1. RealInv /\ DOMAIN sent = {}
    BY RealInit, EmptySeq DEF Init
  <2>2. \A a \in Alerts : creator # a /\ \A h \in Handlers : handler[h].id # a
    BY Constants DEF Init, Idle
  <2>3. Views
    BY DEF Init, Views, Off
  <2>4. Solo
    BY <2>2 DEF Solo
  <2>5. \A a \in Alerts : Told(a)
    BY <2>1 DEF Told
  <2>6. Settled
    <3> SUFFICES ASSUME NEW a \in Alerts
                 PROVE  /\ creator # a /\ \A h \in Handlers : handler[h].id # a
                        /\ Told(a)
      BY DEF Settled
    <3>1. QED
      BY <2>2, <2>5
  <2>7. QED
    BY <2>1, <2>3, <2>4, <2>6 DEF ViewInv
<1>2. ViewInv => ViewConverges
  <2> SUFFICES ASSUME ViewInv, NEW c \in Clients, NEW a \in Alerts,
                      CaughtUp(c), ~Busy(a), a \notin contended, client[c].seen[a] # None
               PROVE  client[c].seen[a].state = db[a].state
    BY DEF ViewConverges
  <2>0. /\ Typed /\ Settled /\ Views /\ Len(sent) \in Nat /\ DOMAIN sent = 1..Len(sent)
        /\ ~client[c].lagged /\ client[c].next - 1 = Len(sent)
    BY LenProperties DEF ViewInv, RealInv, Typed, CaughtUp
  <2>1. PICK i \in 1..(client[c].next - 1) :
          /\ sent[i] = client[c].seen[a] /\ sent[i].id = a
          /\ \A j \in 1..(client[c].next - 1) : j > i => sent[j].id # a
    BY <2>0 DEF Views
  <2>2. Told(a)
    BY <2>0, BusyTyped DEF Settled
  <2>3. QED
    BY <2>0, <2>1, <2>2 DEF Told
<1>3. QED
  BY <1>1, <1>2, ViewNext, PTL DEF Spec

-----------------------------------------------------------------------------
(* The collector manager                                                   *)

(* The tasks that have the write lock, as their place in the code says;    *)
(* those that have a collector in hand; and those that have taken one out  *)
(* of the map.                                                             *)
Holds(t) ==
  \/ task[t].pc = "stopping"
  \/ task[t].pc = "starting" /\ task[t].op = "restart"
  \/ task[t].pc = "asking" /\ task[t].op = "reconfigure"
Reads(t) == task[t].pc = "asking" /\ task[t].op = "health"
Carries(t) ==
  \/ task[t].pc \in {"stopping", "starting"}
  \/ task[t].pc = "blocked" /\ task[t].op = "register"
TookOut(t) == Holds(t) /\ task[t].pc # "asking"

(* Every place has its operations.                                         *)
Placed ==
  \A t \in Tasks :
    /\ task[t].pc = "stopping" => task[t].op \in {"unregister", "restart"}
    /\ task[t].pc = "starting" => task[t].op \in {"register", "restart"}
    /\ task[t].pc = "asking" => task[t].op \in {"reconfigure", "health"}
    /\ task[t].pc = "storing" => task[t].op = "register" /\ task[t].inst # 0

(* The lock's account of its holders is right, and what a task has taken   *)
(* out of the map nobody puts another in the place of.                     *)
LockHeld ==
  /\ \A t \in Tasks : writer = t <=> Holds(t)
  /\ \A t \in Tasks : t \in readers <=> Reads(t)
  /\ \A t \in Tasks : TookOut(t) => collectors[task[t].id] = 0

(* A collector in hand is nobody else's and not in the map; one that waits *)
(* to be put there runs.                                                   *)
Carried ==
  \A t \in Tasks : Carries(t) =>
    /\ task[t].inst \in 1..created
    /\ \A i \in Ids : collectors[i] # task[t].inst
    /\ \A u \in Tasks \ {t} : Carries(u) => task[u].inst # task[t].inst
    /\ task[t].pc = "blocked" => task[t].inst \in running

MgrInv == Mgr!TypeOK /\ Placed /\ LockHeld /\ Carried /\ Mgr!RegistryCoherent

Call == [pc : {"idle", "blocked", "stopping", "starting", "asking", "storing"},
         op : Mgr!Ops, id : Ids, inst : 0..MaxInstances]

(* The types, one by one.                                                  *)
LEMMA MgrTyped ==
  ASSUME Mgr!TypeOK
  PROVE  /\ collectors \in [Ids -> 0..MaxInstances] /\ contexts \in [Ids -> 0..MaxInstances]
         /\ writer \in Tasks \cup {NoTask} /\ readers \subseteq Tasks
         /\ (writer # NoTask => readers = {})
         /\ task \in [Tasks -> Call] /\ created \in 0..MaxInstances /\ running \subseteq 1..created
         /\ MaxInstances \in Nat /\ created \in Nat /\ NoTask \notin Tasks /\ Ids # {}
BY ServiceAssumptions DEF Mgr!TypeOK, Mgr!ManagerAssumption, Call

(* A step of a task changes its own entry.                                 *)
LEMMA TaskMoves ==
  ASSUME task \in [Tasks -> Call], NEW t \in Tasks, NEW k \in Call,
         NEW p \in {"idle", "blocked", "stopping", "starting", "asking", "storing"},
         Mgr!Become(t, k, p)
  PROVE  /\ task' \in [Tasks -> Call]
         /\ task'[t].pc = p /\ task'[t].op = k.op /\ task'[t].id = k.id /\ task'[t].inst = k.inst
         /\ \A u \in Tasks \ {t} : task'[u] = task[u]
BY DEF Mgr!Become, Call

(* A task whose call is over.                                              *)
LEMMA TaskRests ==
  ASSUME Mgr!TypeOK, NEW t \in Tasks, Mgr!Finish(t)
  PROVE  /\ task' \in [Tasks -> Call] /\ task'[t].pc = "idle" /\ task'[t].op = "health"
         /\ \A u \in Tasks \ {t} : task'[u] = task[u]
<1>1. Mgr!Rest \in Call /\ Mgr!Rest.pc = "idle" /\ Mgr!Rest.op = "health"
  BY MgrTyped DEF Mgr!Rest, Call, Mgr!Ops
<1>2. QED
  BY <1>1, MgrTyped DEF Mgr!Finish

(* What a call may have in hand when it comes to the lock.                 *)
Comes(t, k) ==
  /\ k \in Call /\ ~Holds(t) /\ ~Reads(t) /\ task[t].pc # "storing"
  /\ running \subseteq running' /\ running' \subseteq 1..created
  /\ k.op = "register" =>
       /\ k.inst \in running'
       /\ \A i \in Ids : collectors[i] # k.inst
       /\ \A u \in Tasks \ {t} : Carries(u) => task[u].inst # k.inst

Free(k) == writer = NoTask /\ (k.op # "health" => readers = {})

(* A call that finds no collector under its id is over.                    *)
LEMMA MissingKeeps ==
  ASSUME MgrInv, NEW t \in Tasks, NEW k, Comes(t, k), Free(k), Mgr!Missing(t, k)
  PROVE  MgrInv'
<1>0. /\ Mgr!TypeOK /\ Placed /\ LockHeld /\ Carried
      /\ Mgr!RegisteredRuns /\ Mgr!RegisteredHasContext
  BY DEF MgrInv, Mgr!RegistryCoherent
<1>1. /\ task' \in [Tasks -> Call] /\ task'[t].pc = "idle" /\ task'[t].op = "health"
      /\ \A u \in Tasks \ {t} : task'[u] = task[u]
      /\ UNCHANGED <<collectors, contexts, writer, readers, created>>
      /\ running \subseteq running' /\ running' \subseteq 1..created
  BY <1>0, TaskRests DEF Mgr!Missing, Comes
<1>2. Mgr!TypeOK'
  BY <1>0, <1>1, MgrTyped DEF Mgr!TypeOK, Call
<1>3. Placed'
  BY <1>0, <1>1 DEF Placed
<1>4. LockHeld'
  BY <1>0, <1>1 DEF LockHeld, Holds, Reads, TookOut, Comes
<1>5. Carried'
  BY <1>0, <1>1 DEF Carried, Carries
<1>6. Mgr!RegisteredRuns'
  BY <1>0, <1>1 DEF Mgr!RegisteredRuns
<1>7. Mgr!RegisteredHasContext'
  BY <1>0, <1>1 DEF Mgr!RegisteredHasContext, Mgr!Storing, Comes
<1>8. QED
  BY <1>2, <1>3, <1>4, <1>5, <1>6, <1>7 DEF MgrInv, Mgr!RegistryCoherent

(* unregister and restart take the collector out: it was in the map, so    *)
(* nobody else has it, and it runs.                                        *)
LEMMA TakeOutKeeps ==
  ASSUME MgrInv, NEW t \in Tasks, NEW k, Comes(t, k), Free(k), Mgr!TakeOut(t, k)
  PROVE  MgrInv'
<1>0. /\ Mgr!TypeOK /\ Placed /\ LockHeld /\ Carried
      /\ Mgr!RegisteredRuns /\ Mgr!RegisteredHasContext
  BY DEF MgrInv, Mgr!RegistryCoherent
<1> DEFINE n == collectors[k.id]
<1>1. /\ k \in Call /\ k.id \in Ids /\ k.op \in {"unregister", "restart"}
      /\ n \in 1..MaxInstances /\ n # 0 /\ n \in running /\ n \in 1..created
      /\ writer = NoTask /\ readers = {} /\ writer' = t /\ t # NoTask
      /\ UNCHANGED <<contexts, readers, created>>
      /\ collectors' = [collectors EXCEPT ![k.id] = 0]
      /\ running \subseteq running' /\ running' \subseteq 1..created
  BY <1>0, MgrTyped DEF Mgr!TakeOut, Comes, Free, Call, Mgr!RegisteredRuns
<1>2. [k EXCEPT !.inst = n] \in Call /\ [k EXCEPT !.inst = n].op = k.op
      /\ [k EXCEPT !.inst = n].id = k.id /\ [k EXCEPT !.inst = n].inst = n
  BY <1>1 DEF Call
<1>3. /\ task' \in [Tasks -> Call] /\ task'[t].pc = "stopping"
      /\ task'[t].op = k.op /\ task'[t].id = k.id /\ task'[t].inst = n
      /\ \A u \in Tasks \ {t} : task'[u] = task[u]
  <2>1. Mgr!Become(t, [k EXCEPT !.inst = n], "stopping")
    BY DEF Mgr!TakeOut
  <2>2. QED
    BY <1>0, <1>2, <2>1, MgrTyped, TaskMoves
<1>4. /\ collectors' \in [Ids -> 0..MaxInstances] /\ collectors'[k.id] = 0
      /\ \A i \in Ids \ {k.id} : collectors'[i] = collectors[i]
  BY <1>0, <1>1, MgrTyped
<1>5. Mgr!TypeOK'
  BY <1>0, <1>1, <1>3, <1>4, MgrTyped DEF Mgr!TypeOK, Call
<1>6. Placed'
  BY <1>0, <1>1, <1>3 DEF Placed
<1>7. LockHeld'
  <2>1. \A u \in Tasks : ~Holds(u) /\ ~Reads(u)
    BY <1>0, <1>1, MgrTyped DEF LockHeld
  <2>2. \A u \in Tasks \ {t} : ~Holds(u)' /\ ~Reads(u)'
    BY <1>3, <2>1 DEF Holds, Reads
  <2>3. Holds(t)' /\ ~Reads(t)'
    BY <1>3 DEF Holds, Reads
  <2>4. QED
    BY <1>1, <1>3, <1>4, <2>2, <2>3 DEF LockHeld, TookOut
<1>8. Carried'
  <2>1. \A u \in Tasks \ {t} : Carries(u)' <=> Carries(u)
    BY <1>3 DEF Carries
  <2>2. \A i \in Ids : collectors'[i] # n
    BY <1>0, <1>1, <1>4 DEF Mgr!RegisteredRuns
  <2>3. \A u \in Tasks \ {t} : Carries(u) => task[u].inst # n
    BY <1>0, <1>1 DEF Carried
  <2>4. \A u \in Tasks : Carries(u)' => task'[u].inst \in 1..created
    BY <1>0, <1>1, <1>3, <2>1 DEF Carried
  <2>5. \A u \in Tasks : Carries(u)' => \A i \in Ids : collectors'[i] # task'[u].inst
    BY <1>0, <1>1, <1>3, <1>4, <2>1, <2>2, <2>4 DEF Carried
  <2>6. QED
    BY <1>0, <1>1, <1>3, <2>1, <2>3, <2>4, <2>5 DEF Carried
<1>9. Mgr!RegisteredRuns'
  BY <1>0, <1>1, <1>4 DEF Mgr!RegisteredRuns
<1>10. Mgr!RegisteredHasContext'
  BY <1>0, <1>1, <1>3, <1>4 DEF Mgr!RegisteredHasContext, Mgr!Storing, Comes
<1>11. QED
  BY <1>5, <1>6, <1>7, <1>8, <1>9, <1>10 DEF MgrInv, Mgr!RegistryCoherent

(* reconfigure and health leave the map alone and take the lock, one for   *)
(* writing, the other for reading.                                         *)
LEMMA AskKeeps ==
  ASSUME MgrInv, NEW t \in Tasks, NEW k, Comes(t, k), Free(k), Mgr!Ask(t, k)
  PROVE  MgrInv'
<1>0. /\ Mgr!TypeOK /\ Placed /\ LockHeld /\ Carried
      /\ Mgr!RegisteredRuns /\ Mgr!RegisteredHasContext
  BY DEF MgrInv, Mgr!RegistryCoherent
<1>1. /\ k \in Call /\ k.op \in {"reconfigure", "health"}
      /\ writer = NoTask /\ (k.op = "reconfigure" => readers = {}) /\ t # NoTask
      /\ UNCHANGED <<collectors, contexts, created>>
      /\ running \subseteq running' /\ running' \subseteq 1..created
      /\ IF k.op = "health" THEN readers' = readers \cup {t} /\ writer' = NoTask
                            ELSE writer' = t /\ readers' = {}
  BY <1>0, MgrTyped DEF Mgr!Ask, Comes, Free
<1>2. /\ task' \in [Tasks -> Call] /\ task'[t].pc = "asking"
      /\ task'[t].op = k.op /\ task'[t].id = k.id /\ task'[t].inst = k.inst
      /\ \A u \in Tasks \ {t} : task'[u] = task[u]
  <2>1. Mgr!Become(t, k, "asking")
    BY DEF Mgr!Ask
  <2>2. QED
    BY <1>0, <1>1, <2>1, MgrTyped, TaskMoves
<1>3. Mgr!TypeOK'
  BY <1>0, <1>1, <1>2, MgrTyped DEF Mgr!TypeOK, Call
<1>4. Placed'
  BY <1>0, <1>1, <1>2 DEF Placed
<1>5. LockHeld'
  <2>1. \A u \in Tasks : ~Holds(u) /\ (k.op = "reconfigure" => ~Reads(u))
    BY <1>0, <1>1, MgrTyped DEF LockHeld
  <2>2. \A u \in Tasks \ {t} : ~Holds(u)' /\ (Reads(u)' <=> Reads(u))
    BY <1>2, <2>1 DEF Holds, Reads
  <2>3. /\ Holds(t)' <=> k.op = "reconfigure"
        /\ Reads(t)' <=> k.op = "health"
        /\ ~TookOut(t)'
    BY <1>1, <1>2 DEF Holds, Reads, TookOut
  <2>4. \A u \in Tasks \ {t} : ~TookOut(u)'
    BY <2>2 DEF TookOut
  <2>5. QED
    BY <1>0, <1>1, <2>1, <2>2, <2>3, <2>4 DEF LockHeld
<1>6. Carried'
  BY <1>0, <1>1, <1>2 DEF Carried, Carries
<1>7. Mgr!RegisteredRuns'
  BY <1>0, <1>1 DEF Mgr!RegisteredRuns
<1>8. Mgr!RegisteredHasContext'
  BY <1>0, <1>1, <1>2 DEF Mgr!RegisteredHasContext, Mgr!Storing, Comes
<1>9. QED
  BY <1>3, <1>4, <1>5, <1>6, <1>7, <1>8 DEF MgrInv, Mgr!RegistryCoherent

(* register puts a collector in that runs and nobody else has; what was    *)
(* there before runs on, in the map no longer.                             *)
LEMMA PutInKeeps ==
  ASSUME MgrInv, NEW t \in Tasks, NEW k, Comes(t, k), Free(k), Mgr!PutIn(t, k)
  PROVE  MgrInv'
<1>0. /\ Mgr!TypeOK /\ Placed /\ LockHeld /\ Carried
      /\ Mgr!RegisteredRuns /\ Mgr!RegisteredHasContext
  BY DEF MgrInv, Mgr!RegistryCoherent
<1>1. /\ k \in Call /\ k.op = "register" /\ k.id \in Ids
      /\ k.inst \in 1..created /\ k.inst # 0 /\ k.inst \in 0..MaxInstances /\ k.inst \in running'
      /\ writer = NoTask /\ readers = {} /\ t # NoTask
      /\ UNCHANGED <<contexts, writer, readers, created>>
      /\ collectors' = [collectors EXCEPT ![k.id] = k.inst]
      /\ running \subseteq running' /\ running' \subseteq 1..created
  BY <1>0, MgrTyped DEF Mgr!PutIn, Comes, Free, Call
<1>2. /\ task' \in [Tasks -> Call] /\ task'[t].pc = "storing"
      /\ task'[t].op = "register" /\ task'[t].id = k.id /\ task'[t].inst = k.inst
      /\ \A u \in Tasks \ {t} : task'[u] = task[u]
  <2>1. Mgr!Become(t, k, "storing")
    BY DEF Mgr!PutIn
  <2>2. QED
    BY <1>0, <1>1, <2>1, MgrTyped, TaskMoves
<1>3. /\ collectors' \in [Ids -> 0..MaxInstances] /\ collectors'[k.id] = k.inst
      /\ \A i \in Ids \ {k.id} : collectors'[i] = collectors[i]
  BY <1>0, <1>1, MgrTyped
<1>4. Mgr!TypeOK'
  BY <1>0, <1>1, <1>2, <1>3, MgrTyped DEF Mgr!TypeOK, Call
<1>5. Placed'
  BY <1>0, <1>1, <1>2 DEF Placed
<1>6. LockHeld'
  <2>1. \A u \in Tasks : ~Holds(u) /\ ~Reads(u)
    BY <1>0, <1>1, MgrTyped DEF LockHeld
  <2>2. \A u \in Tasks : ~Holds(u)' /\ ~Reads(u)'
    BY <1>2, <2>1 DEF Holds, Reads
  <2>3. \A u \in Tasks : writer' # u /\ u \notin readers' /\ ~TookOut(u)'
    BY <1>0, <1>1, <2>2, MgrTyped DEF TookOut
  <2>4. QED
    BY <2>2, <2>3 DEF LockHeld
<1>7. Carried'
  <2>1. \A u \in Tasks \ {t} : Carries(u)' <=> Carries(u)
    BY <1>2 DEF Carries
  <2>2. ~Carries(t)'
    BY <1>2 DEF Carries
  <2>3. \A u \in Tasks \ {t} : Carries(u) => task[u].inst # k.inst
    BY <1>1 DEF Comes
  <2>4. QED
    BY <1>0, <1>1, <1>2, <1>3, <2>1, <2>2, <2>3 DEF Carried
<1>8. Mgr!RegisteredRuns'
  <2>1. \A i \in Ids : collectors[i] # k.inst
    BY <1>1 DEF Comes
  <2>2. QED
    BY <1>0, <1>1, <1>3, <2>1 DEF Mgr!RegisteredRuns
<1>9. Mgr!RegisteredHasContext'
  <2>1. \A i \in Ids : Mgr!Storing(i) => Mgr!Storing(i)'
    BY <1>2 DEF Mgr!Storing, Comes
  <2>2. Mgr!Storing(k.id)'
    BY <1>2 DEF Mgr!Storing
  <2>3. QED
    BY <1>0, <1>1, <1>3, <2>1, <2>2 DEF Mgr!RegisteredHasContext
<1>10. QED
  BY <1>4, <1>5, <1>6, <1>7, <1>8, <1>9 DEF MgrInv, Mgr!RegistryCoherent

(* A task that finds the lock taken waits, with what it has in hand.       *)
LEMMA BlockKeeps ==
  ASSUME MgrInv, NEW t \in Tasks, NEW k, Comes(t, k), Mgr!Become(t, k, "blocked"),
         UNCHANGED <<collectors, contexts, writer, readers, created>>
  PROVE  MgrInv'
<1>0. /\ Mgr!TypeOK /\ Placed /\ LockHeld /\ Carried
      /\ Mgr!RegisteredRuns /\ Mgr!RegisteredHasContext
  BY DEF MgrInv, Mgr!RegistryCoherent
<1>1. k \in Call /\ running \subseteq running' /\ running' \subseteq 1..created
  BY DEF Comes
<1>2. /\ task' \in [Tasks -> Call] /\ task'[t].pc = "blocked"
      /\ task'[t].op = k.op /\ task'[t].id = k.id /\ task'[t].inst = k.inst
      /\ \A u \in Tasks \ {t} : task'[u] = task[u]
  BY <1>0, <1>1, MgrTyped, TaskMoves
<1>3. Mgr!TypeOK'
  BY <1>0, <1>1, <1>2, MgrTyped DEF Mgr!TypeOK, Call
<1>4. Placed'
  BY <1>0, <1>2 DEF Placed
<1>5. LockHeld'
  BY <1>0, <1>2 DEF LockHeld, Holds, Reads, TookOut, Comes
<1>6. Carried'
  <2>1. \A u \in Tasks \ {t} : Carries(u)' <=> Carries(u)
    BY <1>2 DEF Carries
  <2>2. Carries(t)' => k.op = "register"
    BY <1>2 DEF Carries
  <2>3. k.op = "register" =>
          /\ k.inst \in running' /\ k.inst \in 1..created
          /\ \A i \in Ids : collectors[i] # k.inst
          /\ \A u \in Tasks \ {t} : Carries(u) => task[u].inst # k.inst
    BY <1>1 DEF Comes
  <2>4. QED
    BY <1>0, <1>1, <1>2, <2>1, <2>2, <2>3 DEF Carried
<1>7. Mgr!RegisteredRuns'
  BY <1>0, <1>1 DEF Mgr!RegisteredRuns
<1>8. Mgr!RegisteredHasContext'
  BY <1>0, <1>2 DEF Mgr!RegisteredHasContext, Mgr!Storing, Comes
<1>9. QED
  BY <1>3, <1>4, <1>5, <1>6, <1>7, <1>8 DEF MgrInv, Mgr!RegistryCoherent

(* What a call does with the lock, once it has it.                         *)
LEMMA EnterKeeps ==
  ASSUME MgrInv, NEW t \in Tasks, NEW k, Comes(t, k), Free(k), Mgr!Enter(t, k)
  PROVE  MgrInv'
BY MissingKeeps, TakeOutKeeps, AskKeeps, PutInKeeps DEF Mgr!Enter

(* A call that comes to the lock gets it or waits.                         *)
LEMMA LockKeeps ==
  ASSUME MgrInv, NEW t \in Tasks, NEW k, Comes(t, k), Mgr!Lock(t, k)
  PROVE  MgrInv'
<1>1. CASE Mgr!CanEnter(k.op) /\ Mgr!Enter(t, k)
  <2>1. Free(k)
    BY <1>1 DEF Free, Mgr!CanEnter, Mgr!CanRead, Mgr!CanWrite
  <2>2. QED
    BY <1>1, <2>1, EnterKeeps
<1>2. CASE ~Mgr!CanEnter(k.op) /\ Mgr!Become(t, k, "blocked")
           /\ UNCHANGED <<collectors, contexts, writer, readers, created>>
  BY <1>2, BlockKeeps
<1>3. QED
  BY <1>1, <1>2 DEF Mgr!Lock

(* The calls, and the lock handed to a call that waits for it.             *)
LEMMA CallKeeps ==
  ASSUME MgrInv, NEW t \in Tasks, NEW i \in Ids, NEW op \in Mgr!Ops \ {"register"}, Mgr!Call(t, op, i)
  PROVE  MgrInv'
<1> DEFINE k == [pc |-> "idle", op |-> op, id |-> i, inst |-> 0]
<1>1. k \in Call /\ k.op = op
  BY MgrTyped DEF Call, MgrInv
<1>2. task[t].pc = "idle" /\ running' = running /\ running \subseteq 1..created
  BY MgrTyped DEF Mgr!Call, MgrInv
<1>3. Comes(t, k)
  BY <1>1, <1>2 DEF Comes, Holds, Reads
<1>4. Mgr!Lock(t, k)
  BY DEF Mgr!Call
<1>5. QED
  BY <1>3, <1>4, LockKeeps

(* A collector whose start succeeded runs, and its task comes to the lock. *)
LEMMA StartedKeeps ==
  ASSUME MgrInv, NEW t \in Tasks, Mgr!Started(t)
  PROVE  MgrInv'
<1>0. Mgr!TypeOK /\ Carried
  BY DEF MgrInv
<1>1. /\ task[t] \in Call /\ task[t].pc = "starting" /\ task[t].op = "register" /\ Carries(t)
      /\ running' = running \cup {task[t].inst} /\ running \subseteq 1..created
  BY <1>0, MgrTyped DEF Mgr!Started, Carries
<1>2. /\ task[t].inst \in 1..created
      /\ \A i \in Ids : collectors[i] # task[t].inst
      /\ \A u \in Tasks \ {t} : Carries(u) => task[u].inst # task[t].inst
  BY <1>0, <1>1 DEF Carried
<1>3. Comes(t, task[t])
  BY <1>1, <1>2 DEF Comes, Holds, Reads
<1>4. QED
  BY <1>3, LockKeeps DEF Mgr!Started

(* A task that waited has what it waited with.                             *)
LEMMA GrantedKeeps ==
  ASSUME MgrInv, NEW t \in Tasks, Mgr!Granted(t)
  PROVE  MgrInv'
<1>0. Mgr!TypeOK /\ Carried
  BY DEF MgrInv
<1>1. /\ task[t] \in Call /\ task[t].pc = "blocked" /\ running' = running /\ running \subseteq 1..created
      /\ task[t].op = "register" => Carries(t)
  BY <1>0, MgrTyped DEF Mgr!Granted, Carries
<1>2. Free(task[t])
  BY DEF Mgr!Granted, Free, Mgr!CanWrite
<1>3. task[t].op = "register" =>
        /\ task[t].inst \in running
        /\ \A i \in Ids : collectors[i] # task[t].inst
        /\ \A u \in Tasks \ {t} : Carries(u) => task[u].inst # task[t].inst
  BY <1>0, <1>1 DEF Carried
<1>4. Comes(t, task[t])
  BY <1>1, <1>3 DEF Comes, Holds, Reads
<1>5. QED
  BY <1>2, <1>4, EnterKeeps DEF Mgr!Granted

(* A step after which the task rests: it lets the lock go, and what it may *)
(* have changed of the map, of the contexts and of what runs.              *)
LetsGo(t) ==
  /\ \A u \in Tasks \ {t} : (writer' = u <=> writer = u) /\ (u \in readers' <=> u \in readers)
  /\ writer' \in (Tasks \cup {NoTask}) \ {t} /\ readers' \subseteq readers /\ t \notin readers'

Leaves(t) ==
  /\ created' = created /\ running' \subseteq 1..created
  /\ collectors' \in [Ids -> 0..MaxInstances] /\ contexts' \in [Ids -> 0..MaxInstances]
  /\ \A i \in Ids : collectors'[i] = collectors[i]
       \/ /\ TookOut(t) /\ task[t].id = i /\ collectors'[i] = task[t].inst
          /\ contexts'[i] # 0 /\ task[t].inst \in running'
  /\ \A i \in Ids : contexts'[i] = contexts[i] \/ contexts'[i] # 0 \/ collectors'[i] = 0
  /\ task[t].pc = "storing" => contexts'[task[t].id] # 0
  /\ \A n \in running \ running' : n = task[t].inst /\ Carries(t)

(* Such a step keeps the invariant.                                        *)
LEMMA RestKeeps ==
  ASSUME MgrInv, NEW t \in Tasks, Mgr!Finish(t), LetsGo(t), Leaves(t)
  PROVE  MgrInv'
<1>a. /\ created' = created /\ running' \subseteq 1..created
      /\ collectors' \in [Ids -> 0..MaxInstances] /\ contexts' \in [Ids -> 0..MaxInstances]
      /\ \A u \in Tasks \ {t} : (writer' = u <=> writer = u) /\ (u \in readers' <=> u \in readers)
      /\ writer' \in (Tasks \cup {NoTask}) \ {t} /\ readers' \subseteq readers /\ t \notin readers'
  BY DEF LetsGo, Leaves
<1>b. /\ \A i \in Ids : collectors'[i] = collectors[i]
           \/ (TookOut(t) /\ task[t].id = i /\ collectors'[i] = task[t].inst /\ contexts'[i] # 0)
      /\ \A i \in Ids : contexts'[i] = contexts[i] \/ contexts'[i] # 0 \/ collectors'[i] = 0
      /\ task[t].pc = "storing" => contexts'[task[t].id] # 0
      /\ \A n \in running \ running' : n = task[t].inst /\ Carries(t)
      /\ \A i \in Ids : collectors'[i] # collectors[i] => collectors'[i] \in running'
  BY DEF Leaves
<1>0. /\ Mgr!TypeOK /\ Placed /\ LockHeld /\ Carried
      /\ Mgr!RegisteredRuns /\ Mgr!RegisteredHasContext
  BY DEF MgrInv, Mgr!RegistryCoherent
<1>1. /\ task' \in [Tasks -> Call] /\ task'[t].pc = "idle" /\ task'[t].op = "health"
      /\ \A u \in Tasks \ {t} : task'[u] = task[u]
  BY <1>0, TaskRests
<1>2. /\ ~Holds(t)' /\ ~Reads(t)' /\ ~Carries(t)' /\ ~TookOut(t)'
      /\ \A u \in Tasks \ {t} : /\ Holds(u)' <=> Holds(u)
                                /\ Reads(u)' <=> Reads(u)
                                /\ Carries(u)' <=> Carries(u)
                                /\ TookOut(u)' <=> TookOut(u)
  BY <1>1 DEF Holds, Reads, Carries, TookOut
<1>3. Mgr!TypeOK'
  <2>1. writer' # NoTask => readers' = {}
    <3>1. SUFFICES ASSUME writer' # NoTask PROVE readers' = {}
      OBVIOUS
    <3>2. writer' \in Tasks \ {t}
      BY <1>a, <3>1
    <3>3. writer # NoTask
      BY <1>0, <1>a, <3>2, MgrTyped
    <3>4. QED
      BY <1>0, <1>a, <3>3, MgrTyped
  <2>2. QED
    BY <1>0, <1>1, <1>a, <2>1, MgrTyped DEF Mgr!TypeOK, Call
<1>4. Placed'
  BY <1>0, <1>1 DEF Placed
<1>5. LockHeld'
  <2>1. \A u \in Tasks \ {t} : TookOut(u) => collectors'[task[u].id] = 0
    <3> SUFFICES ASSUME NEW u \in Tasks \ {t}, TookOut(u) PROVE collectors'[task[u].id] = 0
      OBVIOUS
    <3>1. writer = u /\ collectors[task[u].id] = 0 /\ task[u].id \in Ids
      BY <1>0, MgrTyped DEF LockHeld, TookOut, Call
    <3>2. ~TookOut(t)
      BY <1>0, <3>1 DEF LockHeld, TookOut
    <3>3. QED
      BY <1>b, <3>1, <3>2
  <2>2. QED
    BY <1>0, <1>1, <1>2, <1>a, <2>1 DEF LockHeld
<1>6. Carried'
  <2>1. \A u \in Tasks \ {t} : Carries(u) => \A i \in Ids : collectors'[i] # task[u].inst
    <3> SUFFICES ASSUME NEW u \in Tasks \ {t}, Carries(u), NEW i \in Ids
                 PROVE  collectors'[i] # task[u].inst
      OBVIOUS
    <3>1. collectors[i] # task[u].inst /\ (Carries(t) => task[t].inst # task[u].inst)
      BY <1>0 DEF Carried
    <3>2. TookOut(t) => Carries(t)
      BY DEF TookOut, Carries, Holds
    <3>3. QED
      BY <1>b, <3>1, <3>2
  <2>2. \A u \in Tasks \ {t} : Carries(u) /\ task[u].pc = "blocked" => task[u].inst \in running'
    BY <1>0, <1>b DEF Carried
  <2>3. QED
    BY <1>0, <1>1, <1>2, <1>a, <2>1, <2>2 DEF Carried
<1>7. Mgr!RegisteredRuns'
  <2>1. TookOut(t) => Carries(t)
    BY DEF TookOut, Carries, Holds
  <2>2. \A i \in Ids : Carries(t) => collectors[i] # task[t].inst
    BY <1>0 DEF Carried
  <2>3. \A i \in Ids : collectors'[i] # 0 => collectors'[i] \in running'
    <3> SUFFICES ASSUME NEW i \in Ids, collectors'[i] # 0 PROVE collectors'[i] \in running'
      OBVIOUS
    <3>1. CASE collectors'[i] = collectors[i]
      BY <1>0, <1>b, <2>2, <3>1 DEF Mgr!RegisteredRuns
    <3>2. CASE collectors'[i] # collectors[i]
      BY <1>b, <3>2
    <3>3. QED
      BY <3>1, <3>2
  <2>4. ASSUME NEW i \in Ids, NEW j \in Ids, collectors'[i] = collectors'[j], collectors'[i] # 0
        PROVE  i = j
    BY <1>0, <1>b, <2>1, <2>2, <2>4 DEF Mgr!RegisteredRuns
  <2>5. QED
    BY <2>3, <2>4 DEF Mgr!RegisteredRuns
<1>8. Mgr!RegisteredHasContext'
  <2> SUFFICES ASSUME NEW i \in Ids, collectors'[i] # 0, ~Mgr!Storing(i)' PROVE contexts'[i] # 0
    BY DEF Mgr!RegisteredHasContext
  <2>1. CASE collectors'[i] # collectors[i]
    BY <1>b, <2>1
  <2>2. CASE collectors'[i] = collectors[i] /\ Mgr!Storing(i)
    <3>1. task[t].pc = "storing" /\ task[t].id = i
      BY <1>1, <2>2 DEF Mgr!Storing
    <3>2. QED
      BY <1>b, <3>1
  <2>3. CASE collectors'[i] = collectors[i] /\ ~Mgr!Storing(i)
    BY <1>0, <1>b, <2>3 DEF Mgr!RegisteredHasContext
  <2>4. QED
    BY <2>1, <2>2, <2>3
<1>9. QED
  BY <1>3, <1>4, <1>5, <1>6, <1>7, <1>8 DEF MgrInv, Mgr!RegistryCoherent

(* Every way in which a call ends is such a step.                          *)
LEMMA FinishKeeps ==
  ASSUME MgrInv, NEW t \in Tasks,
         \/ Mgr!StartFailed(t) \/ Mgr!StoreContext(t) \/ Mgr!Unregistered(t)
         \/ Mgr!Restarted(t) \/ Mgr!Failed(t) \/ Mgr!Answered(t)
  PROVE  MgrInv'
<1>0. Mgr!TypeOK /\ Placed /\ LockHeld /\ Carried
  BY DEF MgrInv
<1>1. /\ task[t] \in Call /\ task[t].id \in Ids /\ task[t].inst \in 0..MaxInstances /\ NoTask \notin Tasks
      /\ collectors \in [Ids -> 0..MaxInstances] /\ contexts \in [Ids -> 0..MaxInstances]
      /\ writer \in Tasks \cup {NoTask} /\ readers \subseteq Tasks
      /\ running \subseteq 1..created /\ 0 \in 0..MaxInstances
  BY <1>0, MgrTyped DEF Call
<1>2. CASE Mgr!StartFailed(t)
  <2>1. ~Holds(t) /\ ~Reads(t) /\ task[t].pc # "storing"
    BY <1>2 DEF Mgr!StartFailed, Holds, Reads
  <2>2. writer # t /\ t \notin readers
    BY <1>0, <2>1 DEF LockHeld
  <2>3. Mgr!Finish(t)
    BY <1>2 DEF Mgr!StartFailed
  <2>4. LetsGo(t)
    BY <1>1, <1>2, <2>1, <2>2 DEF LetsGo, Mgr!StartFailed
  <2>5. Leaves(t)
    BY <1>1, <1>2, <2>1, <2>2 DEF Leaves, Mgr!StartFailed
  <2>6. QED
    BY <2>3, <2>4, <2>5, RestKeeps
<1>3. CASE Mgr!StoreContext(t)
  <2>1. ~Holds(t) /\ ~Reads(t) /\ task[t].inst # 0
    BY <1>0, <1>3 DEF Mgr!StoreContext, Holds, Reads, Placed
  <2>2. writer # t /\ t \notin readers
    BY <1>0, <2>1 DEF LockHeld
  <2>3. contexts' \in [Ids -> 0..MaxInstances] /\ contexts'[task[t].id] = task[t].inst
        /\ \A i \in Ids \ {task[t].id} : contexts'[i] = contexts[i]
    BY <1>1, <1>3 DEF Mgr!StoreContext
  <2>4. Mgr!Finish(t)
    BY <1>3 DEF Mgr!StoreContext
  <2>5. LetsGo(t)
    BY <1>1, <1>3, <2>1, <2>2, <2>3 DEF LetsGo, Mgr!StoreContext
  <2>6. Leaves(t)
    BY <1>1, <1>3, <2>1, <2>2, <2>3 DEF Leaves, Mgr!StoreContext
  <2>7. QED
    BY <2>4, <2>5, <2>6, RestKeeps
<1>4. CASE Mgr!Unregistered(t)
  <2>1. Holds(t) /\ TookOut(t) /\ Carries(t) /\ ~Reads(t) /\ task[t].pc = "stopping"
    BY <1>4 DEF Mgr!Unregistered, Holds, Reads, TookOut, Carries
  <2>2. writer = t /\ t \notin readers /\ collectors[task[t].id] = 0
    BY <1>0, <2>1 DEF LockHeld
  <2>3. contexts' \in [Ids -> 0..MaxInstances]
        /\ \A i \in Ids \ {task[t].id} : contexts'[i] = contexts[i]
    BY <1>1, <1>4 DEF Mgr!Unregistered
  <2>4. Mgr!Finish(t)
    BY <1>4 DEF Mgr!Unregistered
  <2>5. LetsGo(t)
    BY <1>1, <1>4, <2>1, <2>2, <2>3 DEF LetsGo, Mgr!Unregistered
  <2>6. Leaves(t)
    BY <1>1, <1>4, <2>1, <2>2, <2>3 DEF Leaves, Mgr!Unregistered
  <2>7. QED
    BY <2>4, <2>5, <2>6, RestKeeps
<1>5. CASE Mgr!Restarted(t)
  <2>1. Holds(t) /\ TookOut(t) /\ Carries(t) /\ ~Reads(t) /\ task[t].pc = "starting"
    BY <1>5 DEF Mgr!Restarted, Holds, Reads, TookOut, Carries
  <2>2. writer = t /\ t \notin readers /\ task[t].inst \in 1..created /\ task[t].inst # 0
    BY <1>0, <2>1, MgrTyped DEF LockHeld, Carried
  <2>3. /\ contexts' \in [Ids -> 0..MaxInstances] /\ collectors' \in [Ids -> 0..MaxInstances]
        /\ contexts'[task[t].id] = task[t].inst /\ collectors'[task[t].id] = task[t].inst
        /\ \A i \in Ids \ {task[t].id} : contexts'[i] = contexts[i] /\ collectors'[i] = collectors[i]
    BY <1>1, <1>5 DEF Mgr!Restarted
  <2>4. Mgr!Finish(t)
    BY <1>5 DEF Mgr!Restarted
  <2>5. LetsGo(t)
    BY <1>1, <1>5, <2>1, <2>2, <2>3 DEF LetsGo, Mgr!Restarted
  <2>6. Leaves(t)
    BY <1>1, <1>5, <2>1, <2>2, <2>3 DEF Leaves, Mgr!Restarted
  <2>7. QED
    BY <2>4, <2>5, <2>6, RestKeeps
<1>6. CASE Mgr!Failed(t)
  <2>1. Holds(t) /\ ~Reads(t) /\ task[t].pc # "storing"
    BY <1>6 DEF Mgr!Failed, Holds, Reads
  <2>2. writer = t /\ t \notin readers
    BY <1>0, <2>1 DEF LockHeld
  <2>3. Mgr!Finish(t)
    BY <1>6 DEF Mgr!Failed
  <2>4. LetsGo(t)
    BY <1>1, <1>6, <2>1, <2>2 DEF LetsGo, Mgr!Failed
  <2>5. Leaves(t)
    BY <1>1, <1>6, <2>1, <2>2 DEF Leaves, Mgr!Failed
  <2>6. QED
    BY <2>3, <2>4, <2>5, RestKeeps
<1>7. CASE Mgr!Answered(t)
  <2>1. task[t].pc # "storing" /\ readers' = readers \ {t} /\ writer' = (IF writer = t THEN NoTask ELSE writer)
    BY <1>7 DEF Mgr!Answered
  <2>2. Mgr!Finish(t)
    BY <1>7 DEF Mgr!Answered
  <2>3. LetsGo(t)
    BY <1>1, <1>7, <2>1 DEF LetsGo, Mgr!Answered
  <2>4. Leaves(t)
    BY <1>1, <1>7, <2>1 DEF Leaves, Mgr!Answered
  <2>5. QED
    BY <2>2, <2>3, <2>4, RestKeeps
<1>8. QED
  BY <1>2, <1>3, <1>4, <1>5, <1>6, <1>7

(* A new collector is nobody's yet; one stopped for a restart stays in     *)
(* hand.                                                                   *)
LEMMA MgrMoves ==
  ASSUME MgrInv, NEW t \in Tasks,
         (\E i \in Ids : Mgr!CallRegister(t, i)) \/ Mgr!StoppedForRestart(t)
  PROVE  MgrInv'
<1>0. /\ Mgr!TypeOK /\ Placed /\ LockHeld /\ Carried
      /\ Mgr!RegisteredRuns /\ Mgr!RegisteredHasContext
  BY DEF MgrInv, Mgr!RegistryCoherent
<1>1. ASSUME NEW i \in Ids, Mgr!CallRegister(t, i) PROVE MgrInv'
  <2>1. /\ task[t].pc = "idle" /\ created' = created + 1 /\ created' \in 1..MaxInstances
        /\ UNCHANGED <<collectors, contexts, writer, readers, running>>
    BY <1>0, <1>1, MgrTyped DEF Mgr!CallRegister
  <2>2. /\ task' \in [Tasks -> Call] /\ task'[t].pc = "starting" /\ task'[t].op = "register"
        /\ task'[t].inst = created + 1
        /\ \A u \in Tasks \ {t} : task'[u] = task[u]
    BY <1>0, <1>1, <2>1, MgrTyped DEF Mgr!CallRegister, Call, Mgr!Ops
  <2>3. Mgr!TypeOK'
    BY <1>0, <2>1, <2>2, MgrTyped DEF Mgr!TypeOK, Call
  <2>4. Placed'
    BY <1>0, <2>2 DEF Placed
  <2>5. LockHeld'
    BY <1>0, <2>1, <2>2 DEF LockHeld, Holds, Reads, TookOut
  <2>6. Carried'
    <3>1. \A u \in Tasks \ {t} : Carries(u)' <=> Carries(u)
      BY <2>2 DEF Carries
    <3>2. \A j \in Ids : collectors[j] # created + 1
      BY <1>0, MgrTyped DEF Mgr!RegisteredRuns
    <3>3. \A u \in Tasks \ {t} : Carries(u) => task[u].inst \in 1..created
      BY <1>0 DEF Carried
    <3>4. created \in Nat /\ created + 1 \in 1..created'
      BY <1>0, <2>1, MgrTyped
    <3>5. QED
      BY <1>0, <2>1, <2>2, <3>1, <3>2, <3>3, <3>4 DEF Carried
  <2>7. Mgr!RegisteredRuns'
    BY <1>0, <2>1 DEF Mgr!RegisteredRuns
  <2>8. Mgr!RegisteredHasContext'
    BY <1>0, <2>1, <2>2 DEF Mgr!RegisteredHasContext, Mgr!Storing
  <2>9. QED
    BY <2>3, <2>4, <2>5, <2>6, <2>7, <2>8 DEF MgrInv, Mgr!RegistryCoherent
<1>2. CASE Mgr!StoppedForRestart(t)
  <2>1. /\ task[t] \in Call /\ task[t].pc = "stopping" /\ task[t].op = "restart" /\ Carries(t)
        /\ UNCHANGED <<collectors, contexts, writer, readers, created>>
        /\ running' = running \ {task[t].inst}
    BY <1>0, <1>2, MgrTyped DEF Mgr!StoppedForRestart, Carries
  <2>2. /\ task' \in [Tasks -> Call] /\ task'[t].pc = "starting" /\ task'[t].op = "restart"
        /\ task'[t].id = task[t].id /\ task'[t].inst = task[t].inst
        /\ \A u \in Tasks \ {t} : task'[u] = task[u]
    <3>1. Mgr!Become(t, task[t], "starting")
      BY <1>2 DEF Mgr!StoppedForRestart
    <3>2. QED
      BY <1>0, <2>1, <3>1, MgrTyped, TaskMoves
  <2>3. Mgr!TypeOK'
    BY <1>0, <2>1, <2>2, MgrTyped DEF Mgr!TypeOK, Call
  <2>4. Placed'
    BY <1>0, <2>2 DEF Placed
  <2>5. LockHeld'
    BY <1>0, <2>1, <2>2 DEF LockHeld, Holds, Reads, TookOut
  <2>6. Carried'
    BY <1>0, <2>1, <2>2 DEF Carried, Carries
  <2>7. Mgr!RegisteredRuns'
    BY <1>0, <2>1 DEF Mgr!RegisteredRuns, Carried
  <2>8. Mgr!RegisteredHasContext'
    BY <1>0, <2>1, <2>2 DEF Mgr!RegisteredHasContext, Mgr!Storing
  <2>9. QED
    BY <2>3, <2>4, <2>5, <2>6, <2>7, <2>8 DEF MgrInv, Mgr!RegistryCoherent
<1>3. QED
  BY <1>1, <1>2

(* Every step keeps the invariant.                                         *)
LEMMA MgrNext == MgrInv /\ [Mgr!Next]_(Mgr!vars) => MgrInv'
<1> SUFFICES ASSUME MgrInv, [Mgr!Next]_(Mgr!vars) PROVE MgrInv'
  OBVIOUS
<1>1. ASSUME NEW t \in Tasks, NEW i \in Ids, Mgr!CallRegister(t, i) PROVE MgrInv'
  BY <1>1, MgrMoves
<1>2. ASSUME NEW t \in Tasks, NEW i \in Ids, NEW op \in Mgr!Ops \ {"register"}, Mgr!Call(t, op, i)
      PROVE  MgrInv'
  BY <1>2, CallKeeps
<1>3. ASSUME NEW t \in Tasks, Mgr!Step(t) PROVE MgrInv'
  BY <1>3, GrantedKeeps, StartedKeeps, FinishKeeps, MgrMoves DEF Mgr!Step
<1>4. CASE UNCHANGED Mgr!vars
  BY <1>4 DEF Mgr!vars, MgrInv, Mgr!TypeOK, Placed, LockHeld, Carried, Holds, Reads, Carries, TookOut,
              Mgr!RegistryCoherent, Mgr!RegisteredRuns, Mgr!RegisteredHasContext, Mgr!Storing
<1>5. QED
  BY <1>1, <1>2, <1>3, <1>4 DEF Mgr!Next

(* Nothing is registered, held or in hand at the start.                    *)
LEMMA MgrInit == Mgr!Init => MgrInv
<1> SUFFICES ASSUME Mgr!Init PROVE MgrInv
  OBVIOUS
<1>1. /\ Mgr!Rest \in Call /\ Mgr!Rest.pc = "idle"
      /\ 0 \in 0..MaxInstances /\ NoTask \notin Tasks
  BY ServiceAssumptions DEF Mgr!ManagerAssumption, Mgr!Rest, Call, Mgr!Ops
<1>2. \A t \in Tasks : task[t].pc = "idle"
  BY <1>1 DEF Mgr!Init
<1>3. Mgr!TypeOK
  BY <1>1 DEF Mgr!Init, Mgr!TypeOK, Call
<1>4. Placed /\ LockHeld /\ Carried
  BY <1>1, <1>2 DEF Mgr!Init, Placed, LockHeld, Carried, Holds, Reads, Carries, TookOut
<1>5. Mgr!RegistryCoherent
  BY DEF Mgr!Init, Mgr!RegistryCoherent, Mgr!RegisteredRuns, Mgr!RegisteredHasContext
<1>6. QED
  BY <1>3, <1>4, <1>5 DEF MgrInv

-----------------------------------------------------------------------------
(* The life of the process                                                 *)

(* Notifications are lost once, when the process ends, and all at once.    *)
CoreInv == Core!TypeOK /\ (Core!Running => lost = 0)

(* The end of the process, from any place where it runs.                   *)
LEMMA GoneKeeps ==
  ASSUME CoreInv, Core!Running, NEW end \in Core!Ends, Core!Gone(end)
  PROVE  CoreInv'
<1>1. /\ {MaxEvents, MaxTasks} \subseteq Nat /\ tasks \in 0..MaxTasks /\ lost = 0
      /\ lost' \in 0..MaxTasks /\ tasks' \in 0..MaxTasks /\ pc' = end
  BY ServiceAssumptions DEF CoreInv, Core!TypeOK, Core!ServiceAssumption, Core!Gone
<1>2. ~Core!Running'
  BY <1>1 DEF Core!Running
<1>3. Core!TypeOK'
  BY <1>1 DEF CoreInv, Core!TypeOK, Core!Gone
<1>4. QED
  BY <1>2, <1>3 DEF CoreInv

(* Every step keeps the invariant.                                         *)
LEMMA CoreNext == CoreInv /\ [Core!Next]_(Core!vars) => CoreInv'
<1> SUFFICES ASSUME CoreInv, [Core!Next]_(Core!vars) PROVE CoreInv'
  OBVIOUS
<1>0. /\ {MaxEvents, MaxTasks} \subseteq Nat /\ Core!TypeOK /\ (Core!Running => lost = 0)
      /\ "killed" \in Core!Ends /\ "failed" \in Core!Ends /\ "stopped" \in Core!Ends
  BY ServiceAssumptions DEF CoreInv, Core!ServiceAssumption, Core!Ends
<1>1. CASE Core!Interrupt
  <2>1. CASE Core!Gone("killed")
    BY <1>0, <1>1, <2>1, GoneKeeps DEF Core!Interrupt
  <2>2. CASE ~Core!Gone("killed")
    BY <1>0, <1>1, <2>2 DEF Core!Interrupt, CoreInv, Core!TypeOK, Core!Running, Core!Ends
  <2>3. QED
    BY <2>1, <2>2
<1>2. CASE Core!Terminate
  <2>1. CASE Core!Gone("killed")
    BY <1>0, <1>2, <2>1, GoneKeeps DEF Core!Terminate
  <2>2. CASE ~Core!Gone("killed")
    BY <1>0, <1>2, <2>2 DEF Core!Terminate, CoreInv, Core!TypeOK, Core!Running, Core!Ends
  <2>3. QED
    BY <2>1, <2>2
<1>3. CASE Core!StartFails \/ Core!Return
  <2>1. Core!Running
    BY <1>3 DEF Core!StartFails, Core!Return, Core!Running, Core!Ends
  <2>2. QED
    BY <1>0, <1>3, <2>1, GoneKeeps DEF Core!StartFails, Core!Return
<1>4. CASE Core!Listen \/ Core!Open \/ Core!Serve \/ Core!Subscribe \/ Core!NoAlert \/ Core!Break
  BY <1>0, <1>4 DEF Core!Listen, Core!Open, Core!Serve, Core!Subscribe, Core!NoAlert, Core!Break,
                    CoreInv, Core!TypeOK, Core!Running, Core!Ends
<1>5. CASE Core!Take \/ Core!RaiseAlert
  BY <1>0, <1>5 DEF Core!Take, Core!RaiseAlert, CoreInv, Core!TypeOK, Core!Running, Core!Ends
<1>6. CASE Core!Publish \/ Core!Notified
  BY <1>0, <1>6 DEF Core!Publish, Core!Notified, CoreInv, Core!TypeOK, Core!Running, Core!Ends
<1>7. CASE Core!Server
  BY <1>0, <1>7 DEF Core!Server, Core!Bind, Core!Drain, Core!Drained,
                    CoreInv, Core!TypeOK, Core!Running, Core!Ends
<1>8. ASSUME NEW c \in Followers, Core!Follow(c) \/ Core!Leave(c) PROVE CoreInv'
  BY <1>0, <1>8 DEF Core!Follow, Core!Leave, CoreInv, Core!TypeOK, Core!Running, Core!Ends
<1>9. CASE UNCHANGED Core!vars
  BY <1>9 DEF Core!vars, CoreInv, Core!TypeOK, Core!Running
<1>10. QED
  BY <1>1, <1>2, <1>3, <1>4, <1>5, <1>6, <1>7, <1>8, <1>9 DEF Core!Next, Core!MainStep

(* Nothing has happened at the start.                                      *)
LEMMA CoreInit == Core!Init => CoreInv
<1> SUFFICES ASSUME Core!Init PROVE CoreInv
  OBVIOUS
<1>1. 0 \in 0..MaxEvents /\ 0 \in 0..MaxTasks /\ 0 \in 0..0
  BY ServiceAssumptions DEF Core!ServiceAssumption
<1>2. Core!TypeOK
  BY <1>1 DEF Core!Init, Core!TypeOK
<1>3. QED
  BY <1>2 DEF Core!Init, CoreInv

-----------------------------------------------------------------------------
(* Side by side                                                            *)

(* What is proved of the alerts is more than their type.                   *)
LEMMA RealTyped == RealInv => TypeOK
<1> SUFFICES ASSUME RealInv PROVE TypeOK
  OBVIOUS
<1>1. \A h \in Handlers : handler[h] \in Working \cup {Idle}
  BY DEF RealInv, Typed
<1>2. \A c \in Clients : client[c].seen \in [Alerts -> Change \cup {None}]
  BY DEF RealInv, Typed
<1>3. QED
  BY <1>1, <1>2 DEF RealInv, Typed, TypeOK, Working

(* A step of the whole is a step of one part; the others rest.             *)
LEMMA PartSteps ==
  [AllNext]_allVars => [Next]_vars /\ [Core!Next]_(Core!vars) /\ [Mgr!Next]_(Mgr!vars)
BY DEF AllNext, allVars, alertVars, coreVars, mgrVars, Core!vars, Mgr!vars

(* Every part's state has its type, the process loses no more notifications *)
(* than it began, and the manager's lock never has a writer together with  *)
(* readers, whichever calls fail between its awaits: RwLock and guards in  *)
(* src/collectors/src/framework/mod.rs.                                    *)
THEOREM ServiceTyped == AllSpec => []AllTyped
<1>1. AllInit => RealInv /\ CoreInv /\ MgrInv
  BY RealInit, CoreInit, MgrInit DEF AllInit
<1>2. RealInv /\ CoreInv /\ MgrInv /\ [AllNext]_allVars => (RealInv /\ CoreInv /\ MgrInv)'
  BY PartSteps, RealNext, CoreNext, MgrNext
<1>3. RealInv /\ CoreInv /\ MgrInv => AllTyped
  BY RealTyped DEF CoreInv, MgrInv, AllTyped
<1>4. QED
  BY <1>1, <1>2, <1>3, PTL DEF AllSpec

(* The collector manager's map holds what runs, under one id only, and     *)
(* with its context once the register call is over, for any number of      *)
(* tasks and workers: register, unregister and restart,                    *)
(* src/collectors/src/framework/mod.rs:58-136.                             *)
THEOREM RegistryCorrect == AllSpec => []RegistryCoherent
<1>1. AllInit => MgrInv
  BY MgrInit DEF AllInit
<1>2. MgrInv /\ [AllNext]_allVars => MgrInv'
  BY PartSteps, MgrNext
<1>3. MgrInv => RegistryCoherent
  BY DEF MgrInv, RegistryCoherent
<1>4. QED
  BY <1>1, <1>2, <1>3, PTL DEF AllSpec

=============================================================================
