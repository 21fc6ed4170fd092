---------------------------- MODULE AlertLifecycle ----------------------------
(***************************************************************************)
(* The life of stored alerts: the service creates them (AlertManager::     *)
(* create), gRPC handlers move them between states (update_alert_state),   *)
(* both through the SQLite repository, and both tell the StreamAlerts      *)
(* clients through one tokio broadcast channel.                            *)
(*                                                                         *)
(* Every statement on the database is one step and every send another: a   *)
(* handler awaits between them and others run meanwhile.                   *)
(***************************************************************************)
EXTENDS Integers, Sequences, FiniteSets

CONSTANTS
  Alerts,       \* alert ids
  Handlers,     \* concurrent UpdateAlertState calls
  Clients,      \* StreamAlerts clients
  States,       \* alert states a client may ask for
  New, Acknowledged, \* members of States
  Capacity,     \* of the broadcast channel (256 in the service)
  MaxUpdates,   \* bound: UpdateAlertState calls
  None          \* no row, no user, nothing seen

(* A row of the table, and an event of the channel; upd counts the writes  *)
(* of a row.                                                               *)
Row == [state : States, by : Handlers \cup {None}, upd : Nat]
Change == [id : Alerts, state : States, upd : Nat]

ASSUME LifecycleAssumption ==
  /\ New \in States /\ Acknowledged \in States \ {New}
  /\ None \notin States \cup Handlers \cup Alerts /\ None \notin Row
  /\ Capacity \in Nat \ {0} /\ MaxUpdates \in Nat

VARIABLES
  db,       \* alert -> its row [state, by, upd], or None; upd counts its writes
  creator,  \* the event loop: the alert inserted but not yet announced, or None
  handler,  \* handler -> [pc, id, want, row]
  updates,  \* UpdateAlertState calls so far
  sent,     \* all events sent to the channel: [id, state, upd]
  client,   \* client -> [on, next, seen, lagged]
  contended \* alerts two writers worked on at the same time, or whose last
            \* write was not announced because of an error

vars == <<db, creator, handler, updates, sent, client, contended>>

Idle == [pc |-> "idle", id |-> None, want |-> None, row |-> None]
Off == [on |-> FALSE, next |-> 1, seen |-> [a \in Alerts |-> None],
        lagged |-> FALSE]

-----------------------------------------------------------------------------
Init ==
  /\ db = [a \in Alerts |-> None]
  /\ creator = None
  /\ handler = [h \in Handlers |-> Idle]
  /\ updates = 0
  /\ sent = <<>>
  /\ client = [c \in Clients |-> Off]
  /\ contended = {}

(* broadcast::Sender::send                                                 *)
Send(a, row) == sent' = Append(sent, [id |-> a, state |-> row.state, upd |-> row.upd])

Busy(a) == creator = a \/ \E h \in Handlers : handler[h].id = a /\ handler[h].pc # "idle"

-----------------------------------------------------------------------------
(* AlertManager::create: insert, then send Created.                        *)

Insert(a) ==
  /\ creator = None /\ db[a] = None
  /\ db' = [db EXCEPT ![a] = [state |-> New, by |-> None, upd |-> 0]]
  /\ creator' = a
  /\ contended' = IF Busy(a) THEN contended \cup {a} ELSE contended
  /\ UNCHANGED <<handler, updates, sent, client>>

AnnounceCreated ==
  /\ creator # None
  /\ Send(creator, [state |-> New, upd |-> 0])
  /\ creator' = None
  /\ UNCHANGED <<db, handler, updates, client, contended>>

-----------------------------------------------------------------------------
(* update_alert_state of the API (and AlertManager::update_state, which    *)
(* does the same): UPDATE, read the row back, send Updated.                *)

Request(h, a, s) ==
  /\ handler[h].pc = "idle" /\ updates < MaxUpdates
  /\ updates' = updates + 1
  /\ handler' = [handler EXCEPT ![h] = [pc |-> "update", id |-> a, want |-> s, row |-> None]]
  /\ contended' = IF Busy(a) THEN contended \cup {a} ELSE contended
  /\ UNCHANGED <<db, creator, sent, client>>

(* The columns UPDATE sets: the user is kept only for Acknowledged.        *)
Written(row, h, s) ==
  [state |-> s, by |-> IF s = Acknowledged THEN h ELSE None, upd |-> row.upd + 1]

Update(h) ==
  /\ handler[h].pc = "update"
  /\ LET a == handler[h].id IN
       db' = IF db[a] = None THEN db
             ELSE [db EXCEPT ![a] = Written(@, h, handler[h].want)]
  /\ handler' = [handler EXCEPT ![h].pc = "get"]
  /\ UNCHANGED <<creator, updates, sent, client, contended>>

(* Wrong on purpose: the state asked for is read instead of the row.       *)
Get_Requested(h) ==
  /\ handler[h].pc = "get"
  /\ handler' = [handler EXCEPT ![h] =
       [@ EXCEPT !.pc = "send", !.row = [state |-> handler[h].want, by |-> None, upd |-> 1]]]
  /\ UNCHANGED <<db, creator, updates, sent, client, contended>>

(* A row that is not there answers NotFound and sends nothing.             *)
Get(h) ==
  /\ handler[h].pc = "get"
  /\ LET row == db[handler[h].id] IN
       handler' = [handler EXCEPT ![h] =
         IF row = None THEN Idle ELSE [@ EXCEPT !.pc = "send", !.row = row]]
  /\ UNCHANGED <<db, creator, updates, sent, client, contended>>

(* Wrong on purpose: a handler may return without sending.                 *)
AnnounceUpdated_Silent(h) ==
  /\ handler[h].pc = "send"
  /\ handler' = [handler EXCEPT ![h] = Idle]
  /\ UNCHANGED <<db, creator, updates, sent, client, contended>>

AnnounceUpdated(h) ==
  /\ handler[h].pc = "send"
  /\ Send(handler[h].id, handler[h].row)
  /\ handler' = [handler EXCEPT ![h] = Idle]
  /\ UNCHANGED <<db, creator, updates, client, contended>>

(* A database error at either statement ends the call.                     *)
StorageError(h) ==
  /\ handler[h].pc \in {"update", "get"}
  /\ contended' = IF handler[h].pc = "get" THEN contended \cup {handler[h].id} ELSE contended
  /\ handler' = [handler EXCEPT ![h] = Idle]
  /\ UNCHANGED <<db, creator, updates, sent, client>>

-----------------------------------------------------------------------------
(* StreamAlerts: subscribe, and the loop over rx.recv().                   *)

Oldest == IF Len(sent) > Capacity THEN Len(sent) - Capacity + 1 ELSE 1

Subscribe(c) ==
  /\ ~client[c].on
  /\ client' = [client EXCEPT ![c] =
       [Off EXCEPT !.on = TRUE, !.next = Len(sent) + 1]]
  /\ UNCHANGED <<db, creator, handler, updates, sent, contended>>

Recv(c) ==
  /\ client[c].on /\ client[c].next >= Oldest /\ client[c].next <= Len(sent)
  /\ LET e == sent[client[c].next] IN
       client' = [client EXCEPT ![c].next = @ + 1, ![c].seen[e.id] = e]
  /\ UNCHANGED <<db, creator, handler, updates, sent, contended>>

(* Wrong on purpose: a lagged receiver resumes one past the end.           *)
Lag_Past(c) ==
  /\ client[c].on /\ client[c].next < Oldest
  /\ client' = [client EXCEPT ![c].next = Len(sent) + 2, ![c].lagged = TRUE]
  /\ UNCHANGED <<db, creator, handler, updates, sent, contended>>

(* Lagged: recv skips what the channel has overwritten; the loop logs it.  *)
Lag(c) ==
  /\ client[c].on /\ client[c].next < Oldest
  /\ client' = [client EXCEPT ![c].next = Oldest, ![c].lagged = TRUE]
  /\ UNCHANGED <<db, creator, handler, updates, sent, contended>>

-----------------------------------------------------------------------------
HandlerStep(h) == Update(h) \/ Get(h) \/ AnnounceUpdated(h) \/ StorageError(h)
ClientStep(c) == Recv(c) \/ Lag(c)

Next ==
  \/ \E a \in Alerts : Insert(a)
  \/ AnnounceCreated
  \/ \E h \in Handlers, a \in Alerts, s \in States : Request(h, a, s)
  \/ \E h \in Handlers : HandlerStep(h)
  \/ \E c \in Clients : Subscribe(c)
  \/ \E c \in Clients : ClientStep(c)

Spec == Init /\ [][Next]_vars

-----------------------------------------------------------------------------
(* Properties *)

(* An alert carries the name of who acknowledged it exactly while it is    *)
(* acknowledged, whichever handlers race on it.                            *)
AckCoherent ==
  \A a \in Alerts : db[a] # None => (db[a].by # None <=> db[a].state = Acknowledged)

(* Types, and a row's columns agree with each other.                       *)
TypeOK ==
  /\ db \in [Alerts -> Row \cup {None}]
  /\ creator \in Alerts \cup {None}
  /\ \A h \in Handlers : handler[h] = Idle \/
       handler[h] \in [pc : {"update", "get", "send"}, id : Alerts, want : States,
                       row : Row \cup {None}]
  /\ updates \in 0..MaxUpdates
  /\ sent \in Seq(Change)
  /\ \A c \in Clients : /\ client[c].next \in 1..(Len(sent) + 1)
                        /\ client[c].seen \in [Alerts -> Change \cup {None}]
  /\ contended \subseteq Alerts
  /\ AckCoherent

(* What goes out was in the database: an event never shows a state that    *)
(* the row did not have, and never one of an alert that does not exist.    *)
Current(e) == db[e.id] # None /\ e.upd <= db[e.id].upd
              /\ (e.upd = db[e.id].upd => e.state = db[e.id].state)
OnlyRealStates == \A i \in DOMAIN sent : Current(sent[i])

(* A client that is caught up shows the state of the database, for every   *)
(* alert whose writers did not overlap.                                    *)
CaughtUp(c) == client[c].on /\ ~client[c].lagged /\ client[c].next = Len(sent) + 1
ViewConverges ==
  \A c \in Clients, a \in Alerts :
    CaughtUp(c) /\ ~Busy(a) /\ a \notin contended /\ client[c].seen[a] # None
      => client[c].seen[a].state = db[a].state

=============================================================================
