----------------------------- MODULE Correlation -----------------------------
(***************************************************************************)
(* The correlation engine (crates/sentinel-correlation/src/lib.rs): every  *)
(* event is put in one chain, by its process, by its parent process, by    *)
(* its source within a time window, or in a new chain; prune() forgets the *)
(* chains without recent events.                                           *)
(*                                                                         *)
(* ingest() is called by the service's event loop only, one event at a     *)
(* time, so it is one action per way an event finds its chain.             *)
(***************************************************************************)
EXTENDS Integers, Sequences, FiniteSets

CONSTANTS
  Pids,            \* process ids (positive)
  EventSources,    \* values of event.source
  ChainTimeout,    \* config.chain_timeout_secs
  TemporalWindow,  \* config.temporal_window_secs
  TrimAt,          \* the literal 500 in add_event
  MaxEvents,       \* bound: events ingested
  MaxTime,         \* bound: the clock
  NoPid,           \* the event has no process information, or ppid is 0
  NoChain          \* the index has no entry

ChainIds == 1..MaxEvents

ASSUME CorrelationAssumption ==
  /\ ChainTimeout \in Nat /\ TemporalWindow \in Nat
  /\ TrimAt \in Nat \ {0}
  /\ MaxEvents \in Nat /\ MaxTime \in Nat
  /\ NoPid \notin Pids
  /\ NoChain \notin ChainIds

VARIABLES
  now,        \* the clock Instant::now() reads, in seconds
  count,      \* events ingested so far; names new events and new chains
  live,       \* DOMAIN of chains
  chains,     \* contents of the live chains
  pidIndex,   \* pid_index, NoChain where there is no entry
  temporal,   \* temporal_index: source -> [at, id], id = NoChain if absent
  returned    \* id of the chain the last ingest() returned

vars == <<now, count, live, chains, pidIndex, temporal, returned>>

(* An event: its number, its process (with a parent or not), its source    *)
(* and the time at which it is ingested.                                   *)
Event == [n : ChainIds, pid : Pids \cup {NoPid}, ppid : Pids \cup {NoPid},
          src : EventSources, at : 0..MaxTime]
(* all is a history field: every event the chain was ever given.           *)
Chain == [events : Seq(Event), all : SUBSET Event, pids : SUBSET Pids, last : 0..MaxTime]

EmptyChain == [events |-> <<>>, all |-> {}, pids |-> {}, last |-> 0]

-----------------------------------------------------------------------------
(* CorrelationChain *)

(* add_event: the 501st event pushes the oldest one out.                   *)
AddEvent(c, e) ==
  LET grown == Append(c.events, e) IN
  [events |-> IF Len(grown) > TrimAt THEN Tail(grown) ELSE grown,
   all    |-> c.all \cup {e},
   pids   |-> c.pids \cup ({e.pid} \ {NoPid}),
   last   |-> now]

Expired(id) == now - chains[id].last > ChainTimeout

-----------------------------------------------------------------------------
Init ==
  /\ now = 0
  /\ count = 0
  /\ live = {}
  /\ chains = [id \in ChainIds |-> EmptyChain]
  /\ pidIndex = [p \in Pids |-> NoChain]
  /\ temporal = [s \in EventSources |-> [at |-> 0, id |-> NoChain]]
  /\ returned = NoChain

-----------------------------------------------------------------------------
(* ingest() *)

(* The index after  index.insert(p, id)  where p may be no process at all. *)
Indexed(index, p, id) == IF p = NoPid THEN index ELSE [index EXCEPT ![p] = id]
Lookup(p) == IF p = NoPid THEN NoChain ELSE pidIndex[p]

ParentOf(e) == IF e.pid = NoPid THEN NoPid ELSE e.ppid
ByPid(e) == Lookup(e.pid) \in live
ByParent(e) == ~ByPid(e) /\ Lookup(ParentOf(e)) \in live

(* A parent that is indexed hands its chain id to the child even if that   *)
(* chain is gone.                                                          *)
AfterCausal(e) ==
  IF Lookup(ParentOf(e)) = NoChain THEN pidIndex
  ELSE Indexed(pidIndex, e.pid, Lookup(ParentOf(e)))

(* Wrong on purpose: the window is not looked at.                          *)
InWindow_NoClock(e) == temporal[e.src].id \in live

InWindow(e) ==
  /\ temporal[e.src].id \in live
  /\ now - temporal[e.src].at < TemporalWindow

Extend(id, e) ==
  /\ chains' = [chains EXCEPT ![id] = AddEvent(@, e)]
  /\ returned' = id
  /\ UNCHANGED live

(* Wrong on purpose: the process is indexed to its parent's chain.         *)
JoinByPid_IndexesChild(e) ==
  /\ ByPid(e)
  /\ Extend(Lookup(e.pid), e)
  /\ pidIndex' = Indexed(pidIndex, e.pid, Lookup(ParentOf(e)))
  /\ UNCHANGED temporal

(* 1: the process has a chain; its parent is indexed to it as well.        *)
JoinByPid(e) ==
  /\ ByPid(e)
  /\ Extend(Lookup(e.pid), e)
  /\ pidIndex' = Indexed(pidIndex, ParentOf(e), Lookup(e.pid))
  /\ UNCHANGED temporal

(* Wrong on purpose: no return after the join.                             *)
JoinByParent_FallsThrough(e) ==
  /\ ByParent(e)
  /\ chains' = [chains EXCEPT ![Lookup(ParentOf(e))] = AddEvent(@, e),
                              ![e.n] = AddEvent(EmptyChain, e)]
  /\ live' = live \cup {e.n}
  /\ returned' = e.n
  /\ pidIndex' = AfterCausal(e)
  /\ UNCHANGED temporal

(* 1: the parent has a chain, and the process is indexed to it.            *)
JoinByParent(e) ==
  /\ ByParent(e)
  /\ Extend(Lookup(ParentOf(e)), e)
  /\ pidIndex' = AfterCausal(e)
  /\ UNCHANGED temporal

(* 2: the last chain of the source, if it is recent enough.                *)
JoinBySource(e) ==
  /\ ~ByPid(e) /\ ~ByParent(e)
  /\ InWindow(e)
  /\ Extend(temporal[e.src].id, e)
  /\ pidIndex' = AfterCausal(e)
  /\ temporal' = [temporal EXCEPT ![e.src].at = now]

(* 3: a chain of its own.                                                  *)
NewChain(e) ==
  /\ ~ByPid(e) /\ ~ByParent(e) /\ ~InWindow(e)
  /\ live' = live \cup {e.n}
  /\ chains' = [chains EXCEPT ![e.n] = AddEvent(EmptyChain, e)]
  /\ pidIndex' = Indexed(Indexed(pidIndex, e.pid, e.n), ParentOf(e), e.n)
  /\ temporal' = [temporal EXCEPT ![e.src] = [at |-> now, id |-> e.n]]
  /\ returned' = e.n

Ingest(pid, ppid, src) ==
  /\ count < MaxEvents
  /\ count' = count + 1
  /\ LET e == [n |-> count + 1, pid |-> pid, ppid |-> ppid, src |-> src, at |-> now]
     IN JoinByPid(e) \/ JoinByParent(e) \/ JoinBySource(e) \/ NewChain(e)
  /\ UNCHANGED now

-----------------------------------------------------------------------------
(* prune(), which active_chains() calls before it lists the chains.        *)

ExpiredChains == {id \in live : Expired(id)}

(* Wrong on purpose: temporal_index is not cleaned.                        *)
Prune_KeepTemporal ==
  /\ ExpiredChains # {}
  /\ live' = live \ ExpiredChains
  /\ chains' = [id \in ChainIds |-> IF id \in ExpiredChains THEN EmptyChain ELSE chains[id]]
  /\ pidIndex' = [p \in Pids |->
       IF \E id \in ExpiredChains : p \in chains[id].pids THEN NoChain ELSE pidIndex[p]]
  /\ UNCHANGED <<now, count, returned, temporal>>

Prune ==
  /\ ExpiredChains # {}
  /\ live' = live \ ExpiredChains
  /\ chains' = [id \in ChainIds |-> IF id \in ExpiredChains THEN EmptyChain ELSE chains[id]]
  /\ pidIndex' = [p \in Pids |->
       IF \E id \in ExpiredChains : p \in chains[id].pids THEN NoChain ELSE pidIndex[p]]
  /\ temporal' = [s \in EventSources |->
       IF temporal[s].id \in ExpiredChains THEN [temporal[s] EXCEPT !.id = NoChain]
       ELSE temporal[s]]
  /\ UNCHANGED <<now, count, returned>>

Tick == now < MaxTime /\ now' = now + 1
        /\ UNCHANGED <<count, live, chains, pidIndex, temporal, returned>>

Next ==
  \/ \E pid, ppid \in Pids \cup {NoPid}, src \in EventSources :
       (pid = NoPid => ppid = NoPid) /\ Ingest(pid, ppid, src)
  \/ Prune
  \/ Tick

Spec == Init /\ [][Next]_vars

-----------------------------------------------------------------------------
(* Properties *)

(* Every variable has its type; only live chains hold events, none more    *)
(* than the literal bound, and temporal_index names live chains only.      *)
TypeOK ==
  /\ now \in 0..MaxTime /\ count \in 0..MaxEvents
  /\ live \subseteq 1..count
  /\ chains \in [ChainIds -> Chain]
  /\ \A id \in ChainIds : Len(chains[id].events) <= TrimAt
  /\ pidIndex \in [Pids -> ChainIds \cup {NoChain}]
  /\ temporal \in [EventSources -> [at : 0..MaxTime, id : live \cup {NoChain}]]
  /\ returned \in ChainIds \cup {NoChain}

(* An event is given to one chain only, wherever its process and its       *)
(* source point, and the chain ingest() returned for the newest event      *)
(* holds it, also when it had to push its oldest event out.                *)
OneChainPerEvent ==
  /\ \A a, b \in live : \A e \in chains[a].all, f \in chains[b].all : e.n = f.n => a = b
  /\ returned \in live =>
       \E i \in DOMAIN chains[returned].events : chains[returned].events[i].n = count

(* What holds a chain together: every event but the first shares a process *)
(* or a parent with an earlier event of the chain, or comes from the same  *)
(* source within the temporal window. No event lands in a chain to which   *)
(* nothing connects it, also after prunes left stale index entries.        *)
Linked(e, f) ==
  \/ {e.pid, e.ppid} \cap {f.pid, f.ppid} \cap Pids # {}
  \/ e.src = f.src /\ e.at - f.at < TemporalWindow
ChainCoherent ==
  \A id \in live : \A e \in chains[id].all :
    e.n > id => \E f \in chains[id].all : f.n < e.n /\ Linked(e, f)

(* An index entry that names a live chain is justified by an event of that *)
(* chain: one of the process itself or of a child of it.                   *)
IndexJustified ==
  \A p \in Pids : pidIndex[p] \in live =>
    \E e \in chains[pidIndex[p]].all : p \in {e.pid, e.ppid}

=============================================================================
