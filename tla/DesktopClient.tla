---------------------------- MODULE DesktopClient ----------------------------
(***************************************************************************)
(* The desktop application over the event repository: its backend's        *)
(* commands (ui/tauri-app/src-tauri/src/state/mod.rs) and two hooks of its *)
(* window, the list of events (ui/tauri-app/src/hooks/useInfiniteEvents.ts *)
(* with pages/Events.tsx) and the alert notifications                      *)
(* (useAlertNotifications.ts). A hook's call is answered at one moment and *)
(* handled at a later one, and nothing keeps calls from overlapping.       *)
(***************************************************************************)
EXTENDS EventStore

CONSTANTS
  PageSize,     \* PAGE_SIZE, 100
  Slots,        \* bound: calls of the list under way
  MaxCalls,     \* bound: calls of the list
  Alerts,       \* alerts, numbered in order of creation
  AlertLimit,   \* 5
  NotifiedMax,  \* 100
  Checks,       \* bound: checks for alerts under way
  MaxChecks     \* bound: checks

(* A call of the list under way: the first page or more, the offset it     *)
(* asks for, and its reply, None until it is served.                       *)
Call ==
  [reset : BOOLEAN, from : Nat,
   reply : {None} \cup [events : Seq({Read(e) : e \in Rows}), total : Nat, more : BOOLEAN]]

DesktopAssumption == StoreAssumption /\ None \notin Call /\ PageSize \in Nat

VARIABLES
  call,       \* slot -> None or a call
  items, total, hasMore, loadingMore, offset,   \* the hook's state
  latest,     \* latestTimestamp, 0 at first
  calls, tangled,   \* history: calls made; did one fail or overlap since the list was whole
  raised,     \* how many of the alerts exist
  check,      \* check -> None or the alerts it still has to show
  notified,   \* notifiedIds
  checks, shown, repeats  \* history: checks made, notifications of each alert, are repeats possible

listVars == <<call, items, total, hasMore, loadingMore, offset, latest, calls, tangled>>
alertVars == <<raised, check, notified, checks, shown, repeats>>
vars == <<storeVars, listVars, alertVars>>

Init ==
  /\ StoreInit
  /\ call = [s \in Slots |-> None] /\ items = <<>> /\ total = 0
  /\ hasMore = TRUE /\ loadingMore = FALSE /\ offset = 0 /\ latest = 0
  /\ calls = 0 /\ tangled = FALSE
  /\ raised = 0 /\ check = [c \in Checks |-> None] /\ notified = {}
  /\ checks = 0 /\ shown = [a \in Alerts |-> 0] /\ repeats = FALSE

-----------------------------------------------------------------------------
(* The backend. query_events and the API's call of that name ask newest    *)
(* first; has_more compares the rows of the page with the page's end.      *)
PageQuery(limit, from) == [AnyQuery EXCEPT !.limit = limit, !.offset = from]
query_events(limit, from) ==
  {[events |-> c.events, total |-> c.total, more |-> c.total > limit + from] :
     c \in Cursors(PageQuery(limit, from))}

(* get_status counts with a query for one row; the other commands select   *)
(* rows and keep those that have a time, a payload or a technique.         *)
get_status == {c.total : c \in Cursors(PageQuery(1, 0))}
get_risk_timeline(from, to) ==
  {SelectSeq(c.events, LAMBDA e : e.time # None) :
     c \in Cursors([AnyQuery EXCEPT !.start = from, !.end = to, !.limit = 1440, !.desc = FALSE])}
get_network_connections(limit) ==
  {SelectSeq(c.events, LAMBDA e : e.payload # None) :
     c \in Cursors([AnyQuery EXCEPT !.types = {"network"}, !.limit = limit])}
get_network_graph ==
  {SelectSeq(c.events, LAMBDA e : e.payload # None) :
     c \in Cursors([AnyQuery EXCEPT !.types = {"network"}, !.limit = 500])}
(* Every technique counts for each of the twelve tactics.                  *)
get_mitre_heatmap ==
  {FoldSeq(LAMBDA e, n : n + Cardinality(e.tags \cap {"mitre"}), 0, c.events) :
     c \in Cursors([AnyQuery EXCEPT !.limit = 5000])}

-----------------------------------------------------------------------------
(* The list of events: fetchPage                                           *)
Fetch(s, reset) ==
  /\ call[s] = None /\ calls < MaxCalls /\ calls' = calls + 1
  /\ call' = [call EXCEPT ![s] = [reset |-> reset, from |-> IF reset THEN 0 ELSE offset, reply |-> None]]
  /\ offset' = (IF reset THEN 0 ELSE offset)
  /\ hasMore' = (reset \/ hasMore)
  /\ loadingMore' = (IF reset THEN loadingMore ELSE TRUE)
  /\ tangled' = (tangled \/ \E t \in Slots : call[t] # None)
  /\ UNCHANGED <<storeVars, items, total, latest, alertVars>>

(* Wrong on purpose: the end of the list is not looked at.                 *)
LoadMore_Anyway(s) == ~loadingMore /\ Fetch(s, FALSE)

(* loadMore when the list is scrolled down                                 *)
LoadMore(s) == ~loadingMore /\ hasMore /\ Fetch(s, FALSE)

(* On mounting, on a new filter, by the buttons: refresh.                  *)
Refresh(s) == Fetch(s, TRUE)

Served(s) ==
  /\ call[s] # None /\ call[s].reply = None
  /\ \E r \in query_events(PageSize, call[s].from) : call' = [call EXCEPT ![s].reply = r]
  /\ UNCHANGED <<storeVars, items, total, hasMore, loadingMore, offset, latest, calls, tangled, alertVars>>

Alone(s) == \A t \in Slots \ {s} : call[t] = None

(* The reply is handled. Without a time on the rows latest stays 0, and    *)
(* the poll for new events does nothing.                                   *)
Arrived(s) ==
  /\ call[s] # None /\ call[s].reply # None
  /\ LET r == call[s].reply IN
       /\ items' = IF call[s].reset THEN r.events ELSE items \o r.events
       /\ total' = r.total /\ hasMore' = r.more
       /\ offset' = offset + Len(r.events)
       /\ latest' = IF r.events # <<>> /\ Last(r.events).time # None THEN Last(r.events).time ELSE latest
       /\ tangled' = (tangled /\ ~(call[s].reset /\ Alone(s) /\ offset = 0))
  /\ loadingMore' = FALSE
  /\ call' = [call EXCEPT ![s] = None]
  /\ UNCHANGED <<storeVars, calls, alertVars>>

FetchFailed(s) ==
  /\ call[s] # None
  /\ call' = [call EXCEPT ![s] = None] /\ loadingMore' = FALSE /\ tangled' = TRUE
  /\ UNCHANGED <<storeVars, items, total, hasMore, offset, latest, calls, alertVars>>

-----------------------------------------------------------------------------
(* The notifications: get_alerts, newest first, then one after the other.  *)
RaiseAlert ==
  /\ raised < Cardinality(Alerts) /\ raised' = raised + 1
  /\ UNCHANGED <<storeVars, listVars, check, notified, checks, shown, repeats>>

Newest == {a \in 1..raised : a > raised - AlertLimit}

CheckNewAlerts(c) ==
  /\ check[c] = None /\ checks < MaxChecks /\ checks' = checks + 1
  /\ check' = [check EXCEPT ![c] = Newest \ notified]
  /\ repeats' = (repeats \/ \E d \in Checks : check[d] # None)
  /\ UNCHANGED <<storeVars, listVars, raised, notified, shown>>

ShowNotification(c) ==
  /\ check[c] \notin {None, {}}
  /\ LET a == Max(check[c]) IN
       /\ shown' = [shown EXCEPT ![a] = @ + 1] /\ notified' = notified \cup {a}
       /\ check' = [check EXCEPT ![c] = @ \ {a}]
  /\ UNCHANGED <<storeVars, listVars, raised, checks, repeats>>

(* The check is done, and too many ids are forgotten; or showing fails,    *)
(* which ends the check.                                                   *)
CheckDone(c) ==
  /\ check[c] # None
  /\ \/ /\ check[c] = {}
        /\ notified' = IF Cardinality(notified) > NotifiedMax THEN {} ELSE notified
        /\ repeats' = (repeats \/ Cardinality(notified) > NotifiedMax)
     \/ check[c] # {} /\ UNCHANGED <<notified, repeats>>
  /\ check' = [check EXCEPT ![c] = None]
  /\ UNCHANGED <<storeVars, listVars, raised, checks, shown>>

ListNext ==
  \/ StoreNext /\ UNCHANGED <<listVars, alertVars>>
  \/ \E s \in Slots : LoadMore(s) \/ Refresh(s) \/ Served(s) \/ Arrived(s) \/ FetchFailed(s)

AlertNext ==
  \/ RaiseAlert
  \/ \E c \in Checks : CheckNewAlerts(c) \/ ShowNotification(c) \/ CheckDone(c)

Next == ListNext \/ AlertNext

Spec == Init /\ [][Next]_vars

-----------------------------------------------------------------------------
(* The variables have their types; what the other commands show of any     *)
(* table is nothing with a time or a payload.                              *)
TypeOK ==
  /\ StoreTypeOK
  /\ Range(items) \subseteq {Read(e) : e \in Rows} /\ total \in 0..PageSize
  /\ hasMore \in BOOLEAN /\ loadingMore \in BOOLEAN /\ offset \in Nat
  /\ latest = 0 /\ get_status \subseteq 0..1
  /\ get_risk_timeline(0, MaxTime) \cup get_network_connections(200)
       \cup get_network_graph = {<<>>}
  /\ get_mitre_heatmap \subseteq Nat
  /\ notified \subseteq 1..raised /\ shown \in [Alerts -> Nat]

(* The window repeats nothing by itself: as long as no two calls of the    *)
(* list overlapped and none failed since it was whole, it holds no event   *)
(* twice, although events arrive and are deleted between and during the    *)
(* calls; and as long as no two checks overlapped and no ids were          *)
(* forgotten no alert is shown twice.                                      *)
NothingTwice ==
  /\ ~tangled => \A i, j \in DOMAIN items : items[i].id = items[j].id => i = j
  /\ ~repeats => \A a \in Alerts : shown[a] <= 1
=============================================================================
