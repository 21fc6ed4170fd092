--------------------------- MODULE CorrelationProofs ---------------------------
(***************************************************************************)
(* The correlation engine puts every event in one chain, for a reason, and *)
(* keeps its indexes to the point, for every set of processes and sources, *)
(* every timeout and window, and every order of events, ticks and prunes.  *)
(***************************************************************************)
EXTENDS Correlation, TLAPS, SequenceTheorems

(* The index may hold the ids of chains that are gone, but only of chains  *)
(* that were: a new chain is never hit by a stale entry.                   *)
Typed ==
  /\ TypeOK
  /\ pidIndex \in [Pids -> (1..count) \cup {NoChain}]
  /\ returned \in (1..count) \cup {NoChain}

(* Only live chains have events, and only events ingested so far.          *)
Given == \A id \in ChainIds : \A e \in chains[id].all : e.n <= count /\ id \in live

(* The time in temporal_index is that of an event of the source in the     *)
(* chain it names.                                                         *)
TemporalJustified ==
  \A s \in EventSources : temporal[s].id \in live =>
    \E f \in chains[temporal[s].id].all : f.src = s /\ f.at = temporal[s].at

CInv ==
  /\ Typed /\ Given /\ TemporalJustified
  /\ OneChainPerEvent /\ ChainCoherent /\ IndexJustified

(* The constants.                                                          *)
LEMMA Constants ==
  /\ ChainTimeout \in Nat /\ TemporalWindow \in Nat /\ TrimAt \in Nat \ {0}
  /\ MaxEvents \in Nat /\ MaxTime \in Nat /\ NoPid \notin Pids /\ NoChain \notin ChainIds
BY CorrelationAssumption DEF CorrelationAssumption

(* add_event keeps the newest event and the bound of the list: what is     *)
(* pushed out is never what has just come in.                              *)
LEMMA AddEventKeeps ==
  ASSUME NEW c \in Chain, Len(c.events) <= TrimAt, NEW e \in Event, now \in 0..MaxTime
  PROVE  /\ AddEvent(c, e) \in Chain
         /\ AddEvent(c, e).all = c.all \cup {e}
         /\ Len(AddEvent(c, e).events) <= TrimAt
         /\ \E i \in DOMAIN AddEvent(c, e).events : AddEvent(c, e).events[i] = e
<1> DEFINE grown == Append(c.events, e)
           kept == IF Len(grown) > TrimAt THEN Tail(grown) ELSE grown
<1>1. c.events \in Seq(Event) /\ c.all \in SUBSET Event /\ c.pids \in SUBSET Pids
  BY DEF Chain
<1>2. /\ grown \in Seq(Event) /\ Len(grown) = Len(c.events) + 1
      /\ grown[Len(grown)] = e /\ Len(c.events) \in Nat
  BY <1>1, AppendProperties, LenProperties
<1>3. /\ kept \in Seq(Event) /\ Len(kept) <= TrimAt
      /\ Len(kept) \in Nat \ {0} /\ kept[Len(kept)] = e
  <2>1. CASE Len(grown) > TrimAt
    <3>1. Len(grown) >= 2 /\ grown # <<>>
      BY <1>2, <2>1, Constants
    <3>2. /\ Tail(grown) \in Seq(Event) /\ Len(Tail(grown)) = Len(grown) - 1
          /\ \A i \in 1..Len(Tail(grown)) : Tail(grown)[i] = grown[i + 1]
      BY <1>2, <3>1, HeadTailProperties
    <3>3. Tail(grown)[Len(Tail(grown))] = grown[Len(grown)]
      BY <1>2, <3>1, <3>2
    <3> HIDE DEF grown
    <3>4. QED
      BY <1>2, <2>1, <3>1, <3>2, <3>3, Constants
  <2>2. CASE ~(Len(grown) > TrimAt)
    <3> HIDE DEF grown
    <3>1. QED
      BY <1>2, <2>2, Constants
  <2>3. QED
    BY <2>1, <2>2
<1>4. AddEvent(c, e) = [events |-> kept, all |-> c.all \cup {e},
                        pids |-> c.pids \cup ({e.pid} \ {NoPid}), last |-> now]
  BY DEF AddEvent
<1> HIDE DEF kept
<1>5. c.all \cup {e} \in SUBSET Event /\ c.pids \cup ({e.pid} \ {NoPid}) \in SUBSET Pids
  BY <1>1 DEF Event
<1>6. AddEvent(c, e) \in Chain
  BY <1>3, <1>4, <1>5 DEF Chain
<1>7. Len(kept) \in DOMAIN kept
  BY <1>3, LenProperties
<1>8. QED
  BY <1>3, <1>4, <1>6, <1>7

(* Chains bear the numbers of events, and NoChain is none of them.         *)
LEMMA LiveChains ==
  ASSUME TypeOK
  PROVE  /\ live \subseteq ChainIds /\ NoChain \notin live
         /\ count \in Nat /\ now \in Nat
<1>1. live \subseteq 1..count /\ count \in 0..MaxEvents /\ now \in 0..MaxTime
  BY DEF TypeOK
<1>2. 1..count \subseteq ChainIds /\ count \in Nat /\ now \in Nat
  BY <1>1, Constants DEF ChainIds
<1>3. QED
  BY <1>1, <1>2, Constants

(* The events of a chain are numbered, up to the one ingested last.        *)
LEMMA GivenTyped ==
  ASSUME TypeOK, Given, NEW id \in ChainIds, NEW x \in chains[id].all
  PROVE  x \in Event /\ x.n \in Nat /\ x.n <= count /\ id \in live
<1>1. chains[id].all \in SUBSET Event
  BY DEF TypeOK, Chain
<1>2. x \in Event /\ x.n \in ChainIds
  BY <1>1 DEF Event
<1>3. QED
  BY <1>2 DEF Given, ChainIds

(* An event joins a live chain with which it is linked; indexes may come   *)
(* to point to that chain for the sake of this event.                      *)
LEMMA JoinKeeps ==
  ASSUME CInv, count < MaxEvents, count' = count + 1, UNCHANGED now,
         NEW e \in Event, e.n = count + 1,
         NEW id \in live, Extend(id, e), \E f \in chains[id].all : Linked(e, f),
         pidIndex' \in [Pids -> (1..count) \cup {NoChain}],
         \A p \in Pids : pidIndex'[p] \in live =>
            pidIndex'[p] = pidIndex[p] \/ (pidIndex'[p] = id /\ p \in {e.pid, e.ppid}),
         temporal' \in [EventSources -> [at : 0..MaxTime, id : live \cup {NoChain}]],
         \A s \in EventSources : temporal'[s].id \in live =>
            temporal'[s] = temporal[s] \/ (temporal'[s] = [at |-> e.at, id |-> id] /\ e.src = s)
  PROVE  CInv'
<1>0. /\ Typed /\ TypeOK /\ Given /\ TemporalJustified
      /\ OneChainPerEvent /\ ChainCoherent /\ IndexJustified
      /\ count \in Nat /\ count' \in 0..MaxEvents /\ now \in 0..MaxTime
      /\ live \subseteq 1..count /\ live \subseteq ChainIds
  BY Constants DEF CInv, Typed, TypeOK, ChainIds
<1>1. /\ chains' = [chains EXCEPT ![id] = AddEvent(chains[id], e)]
      /\ returned' = id /\ live' = live
  BY DEF Extend
<1>2. chains \in [ChainIds -> Chain] /\ id \in ChainIds /\ Len(chains[id].events) <= TrimAt
  BY <1>0 DEF TypeOK
<1>3. /\ AddEvent(chains[id], e) \in Chain
      /\ AddEvent(chains[id], e).all = chains[id].all \cup {e}
      /\ Len(AddEvent(chains[id], e).events) <= TrimAt
      /\ \E i \in DOMAIN AddEvent(chains[id], e).events : AddEvent(chains[id], e).events[i] = e
  BY <1>0, <1>2, AddEventKeeps
<1>4. /\ chains' \in [ChainIds -> Chain]
      /\ chains'[id] = AddEvent(chains[id], e) /\ chains'[id].all = chains[id].all \cup {e}
      /\ \A a \in ChainIds \ {id} : chains'[a] = chains[a]
  BY <1>1, <1>2, <1>3
<1>5. \A a \in ChainIds : \A x \in chains'[a].all : x \in chains[a].all \/ (a = id /\ x = e)
  BY <1>4
<1>6. \A a \in ChainIds : chains[a].all \subseteq chains'[a].all
  BY <1>4
<1> HIDE DEF Extend
<1>7. Typed'
  <2>1. \A a \in ChainIds : Len(chains'[a].events) <= TrimAt
    BY <1>0, <1>3, <1>4 DEF TypeOK
  <2>2. live \subseteq 1..(count + 1) /\ id \in 1..(count + 1)
        /\ (1..count) \subseteq 1..(count + 1) /\ 1..count \subseteq ChainIds
    BY <1>0, Constants DEF ChainIds
  <2>3. pidIndex' \in [Pids -> (1..(count + 1)) \cup {NoChain}]
        /\ pidIndex' \in [Pids -> ChainIds \cup {NoChain}]
    BY <2>2
  <2>4. TypeOK'
    BY <1>0, <1>1, <1>2, <1>4, <2>1, <2>2, <2>3 DEF TypeOK
  <2>5. QED
    BY <1>1, <2>2, <2>3, <2>4 DEF Typed
<1>8. Given'
  <2> SUFFICES ASSUME NEW a \in ChainIds, NEW x \in chains'[a].all
               PROVE  x.n <= count + 1 /\ a \in live
    BY <1>1 DEF Given
  <2>1. CASE x \in chains[a].all
    BY <1>0, <2>1, GivenTyped
  <2>2. CASE a = id /\ x = e
    BY <1>0, <2>2
  <2>3. QED
    BY <1>5, <2>1, <2>2
<1>9. TemporalJustified'
  <2> SUFFICES ASSUME NEW s \in EventSources, temporal'[s].id \in live
               PROVE  \E f \in chains'[temporal'[s].id].all : f.src = s /\ f.at = temporal'[s].at
    BY <1>1 DEF TemporalJustified
  <2>1. CASE temporal'[s] = temporal[s]
    <3>1. PICK f \in chains[temporal[s].id].all : f.src = s /\ f.at = temporal[s].at
      BY <1>0, <2>1 DEF TemporalJustified
    <3>2. f \in chains'[temporal[s].id].all
      BY <1>0, <1>6, <2>1, <3>1
    <3>3. QED
      BY <2>1, <3>1, <3>2
  <2>2. CASE temporal'[s] = [at |-> e.at, id |-> id] /\ e.src = s
    BY <1>4, <2>2
  <2>3. QED
    BY <2>1, <2>2
<1>10. OneChainPerEvent'
  <2>1. ASSUME NEW a \in live, NEW b \in live,
               NEW x \in chains'[a].all, NEW y \in chains'[b].all, x.n = y.n
        PROVE  a = b
    <3>1. \A c \in ChainIds : \A z \in chains[c].all : z.n # e.n
      <4>1. ASSUME NEW c \in ChainIds, NEW z \in chains[c].all PROVE z.n # e.n
        <5>1. z.n <= count /\ z.n \in Nat
          BY <1>0, GivenTyped
        <5>2. QED
          BY <1>0, <5>1
      <4>2. QED
        BY <4>1
    <3>2. a \in ChainIds /\ b \in ChainIds
      BY <1>0
    <3>3. QED
      BY <1>0, <1>5, <2>1, <3>1, <3>2 DEF OneChainPerEvent
  <2>2. \E i \in DOMAIN chains'[id].events : chains'[id].events[i].n = count'
    BY <1>3, <1>4
  <2>3. QED
    BY <1>1, <2>1, <2>2 DEF OneChainPerEvent
<1>11. ChainCoherent'
  <2> SUFFICES ASSUME NEW a \in live, NEW x \in chains'[a].all, x.n > a
               PROVE  \E f \in chains'[a].all : f.n < x.n /\ Linked(x, f)
    BY <1>1 DEF ChainCoherent, Linked
  <2>0. a \in ChainIds
    BY <1>0
  <2>1. CASE x \in chains[a].all
    BY <1>0, <1>6, <2>0, <2>1 DEF ChainCoherent
  <2>2. CASE a = id /\ x = e
    <3>1. PICK f \in chains[id].all : Linked(e, f)
      OBVIOUS
    <3>2. f.n <= count /\ f.n \in Nat
      BY <1>0, <1>2, GivenTyped
    <3>3. f.n < e.n
      BY <1>0, <3>2
    <3>4. QED
      BY <1>6, <2>0, <2>2, <3>1, <3>3
  <2>3. QED
    BY <1>5, <2>0, <2>1, <2>2
<1>12. IndexJustified'
  <2> SUFFICES ASSUME NEW p \in Pids, pidIndex'[p] \in live
               PROVE  \E x \in chains'[pidIndex'[p]].all : p \in {x.pid, x.ppid}
    BY <1>1 DEF IndexJustified
  <2>1. CASE pidIndex'[p] = pidIndex[p]
    BY <1>0, <1>6, <2>1 DEF IndexJustified
  <2>2. CASE pidIndex'[p] = id /\ p \in {e.pid, e.ppid}
    BY <1>4, <2>2
  <2>3. QED
    BY <2>1, <2>2
<1>13. QED
  BY <1>7, <1>8, <1>9, <1>10, <1>11, <1>12 DEF CInv

(* An event that nothing connects to a live chain opens one. Its number is *)
(* new, so no index entry that outlived its chain can point to it.         *)
LEMMA NewChainKeeps ==
  ASSUME CInv, count < MaxEvents, count' = count + 1, UNCHANGED now,
         NEW e \in Event, e.n = count + 1, e.at = now, NewChain(e)
  PROVE  CInv'
<1> DEFINE id == e.n
           fresh == AddEvent(EmptyChain, e)
<1>0. /\ Typed /\ TypeOK /\ Given /\ TemporalJustified
      /\ OneChainPerEvent /\ ChainCoherent /\ IndexJustified
      /\ count \in Nat /\ count' \in 0..MaxEvents /\ now \in 0..MaxTime
      /\ live \subseteq 1..count /\ live \subseteq ChainIds
  BY Constants DEF CInv, Typed, TypeOK, ChainIds
<1>1. /\ live' = live \cup {id} /\ returned' = id
      /\ chains' = [chains EXCEPT ![id] = fresh]
      /\ pidIndex' = Indexed(Indexed(pidIndex, e.pid, id), ParentOf(e), id)
      /\ temporal' = [temporal EXCEPT ![e.src] = [at |-> now, id |-> id]]
  BY DEF NewChain
<1>2. /\ id \in ChainIds /\ id \notin live /\ id \in 1..(count + 1) /\ id \notin 1..count
      /\ e.pid \in Pids \cup {NoPid} /\ e.ppid \in Pids \cup {NoPid} /\ e.src \in EventSources
  BY <1>0 DEF Event
<1>3. /\ EmptyChain \in Chain /\ EmptyChain.all = {} /\ Len(EmptyChain.events) <= TrimAt
  BY Constants, EmptySeq DEF EmptyChain, Chain
<1>4. /\ fresh \in Chain /\ fresh.all = {e} /\ Len(fresh.events) <= TrimAt
      /\ \E i \in DOMAIN fresh.events : fresh.events[i] = e
  BY <1>0, <1>3, AddEventKeeps
<1> HIDE DEF fresh
<1>5. /\ chains' \in [ChainIds -> Chain] /\ chains'[id] = fresh
      /\ \A a \in ChainIds \ {id} : chains'[a] = chains[a]
      /\ \A a \in live : chains'[a] = chains[a] /\ a \in ChainIds /\ a # id
  BY <1>0, <1>1, <1>2, <1>4 DEF TypeOK
<1>6. /\ pidIndex' \in [Pids -> (1..(count + 1)) \cup {NoChain}]
      /\ \A p \in Pids : pidIndex'[p] = pidIndex[p] \/ (pidIndex'[p] = id /\ p \in {e.pid, e.ppid})
  <2>1. /\ pidIndex \in [Pids -> (1..(count + 1)) \cup {NoChain}]
    BY <1>0 DEF Typed
  <2>2. ParentOf(e) \in {NoPid, e.ppid}
    BY DEF ParentOf
  <2>3. QED
    BY <1>1, <1>2, <2>1, <2>2 DEF Indexed
<1>7. \A p \in Pids : pidIndex[p] # id
  BY <1>0, <1>2, Constants DEF Typed
<1>8. Typed'
  <2>1. 1..(count + 1) \subseteq ChainIds /\ live' \subseteq 1..(count + 1)
    BY <1>0, <1>1, <1>2, Constants DEF ChainIds
  <2>2. \A a \in ChainIds : Len(chains'[a].events) <= TrimAt
    BY <1>0, <1>4, <1>5 DEF TypeOK
  <2>3. temporal' \in [EventSources -> [at : 0..MaxTime, id : live' \cup {NoChain}]]
    BY <1>0, <1>1, <1>2 DEF TypeOK
  <2>4. pidIndex' \in [Pids -> ChainIds \cup {NoChain}]
    BY <1>6, <2>1
  <2>5. TypeOK'
    BY <1>0, <1>1, <1>2, <1>5, <2>1, <2>2, <2>3, <2>4 DEF TypeOK
  <2>6. QED
    BY <1>1, <1>2, <1>6, <2>5 DEF Typed
<1>9. Given'
  <2> SUFFICES ASSUME NEW a \in ChainIds, NEW x \in chains'[a].all
               PROVE  x.n <= count + 1 /\ a \in live'
    BY DEF Given
  <2>1. CASE a = id
    BY <1>0, <1>1, <1>4, <1>5, <2>1
  <2>2. CASE a # id
    BY <1>0, <1>1, <1>5, <2>2, GivenTyped
  <2>3. QED
    BY <2>1, <2>2
<1>10. TemporalJustified'
  <2> SUFFICES ASSUME NEW s \in EventSources, temporal'[s].id \in live'
               PROVE  \E f \in chains'[temporal'[s].id].all : f.src = s /\ f.at = temporal'[s].at
    BY DEF TemporalJustified
  <2>1. CASE s = e.src
    <3>1. temporal'[s] = [at |-> now, id |-> id]
      BY <1>0, <1>1, <1>2, <2>1 DEF TypeOK
    <3>2. QED
      BY <1>4, <1>5, <2>1, <3>1
  <2>2. CASE s # e.src
    <3>1. temporal'[s] = temporal[s] /\ temporal[s].id \in live \cup {NoChain}
      BY <1>0, <1>1, <2>2 DEF TypeOK
    <3>2. temporal[s].id \in live
      BY <1>0, <1>1, <1>2, <3>1, Constants
    <3>3. PICK f \in chains[temporal[s].id].all : f.src = s /\ f.at = temporal[s].at
      BY <1>0, <3>2 DEF TemporalJustified
    <3>4. chains'[temporal[s].id] = chains[temporal[s].id]
      BY <1>5, <3>2
    <3>5. QED
      BY <3>1, <3>3, <3>4
  <2>3. QED
    BY <2>1, <2>2
<1>11. OneChainPerEvent'
  <2>1. ASSUME NEW a \in live', NEW b \in live',
               NEW x \in chains'[a].all, NEW y \in chains'[b].all, x.n = y.n
        PROVE  a = b
    <3>1. \A c \in live : \A z \in chains'[c].all : z \in chains[c].all /\ z.n # id
      <4> SUFFICES ASSUME NEW c \in live, NEW z \in chains'[c].all
                   PROVE  z \in chains[c].all /\ z.n # id
        OBVIOUS
      <4>1. z \in chains[c].all /\ c \in ChainIds
        BY <1>5
      <4>2. z.n <= count /\ z.n \in Nat
        BY <1>0, <4>1, GivenTyped
      <4>3. QED
        BY <1>0, <4>1, <4>2
    <3>2. \A z \in chains'[id].all : z.n = id
      BY <1>4, <1>5
    <3>3. CASE a \in live /\ b \in live
      BY <1>0, <2>1, <3>1, <3>3 DEF OneChainPerEvent
    <3>4. CASE a = id \/ b = id
      BY <1>1, <2>1, <3>1, <3>2, <3>4
    <3>5. QED
      BY <1>1, <3>3, <3>4
  <2>2. \E i \in DOMAIN chains'[id].events : chains'[id].events[i].n = count'
    BY <1>4, <1>5
  <2>3. QED
    BY <1>1, <2>1, <2>2 DEF OneChainPerEvent
<1>12. ChainCoherent'
  <2> SUFFICES ASSUME NEW a \in live', NEW x \in chains'[a].all, x.n > a
               PROVE  \E f \in chains'[a].all : f.n < x.n /\ Linked(x, f)
    BY DEF ChainCoherent, Linked
  <2>1. a # id
    <3>1. CASE a = id
      <4>1. x = e
        BY <1>4, <1>5, <3>1
      <4>2. QED
        BY <1>0, <3>1, <4>1
    <3>2. QED
      BY <3>1
  <2>2. a \in live /\ chains'[a] = chains[a]
    BY <1>1, <1>5, <2>1
  <2>3. QED
    BY <1>0, <2>2 DEF ChainCoherent
<1>13. IndexJustified'
  <2> SUFFICES ASSUME NEW p \in Pids, pidIndex'[p] \in live'
               PROVE  \E x \in chains'[pidIndex'[p]].all : p \in {x.pid, x.ppid}
    BY DEF IndexJustified
  <2>1. CASE pidIndex'[p] = id /\ p \in {e.pid, e.ppid}
    BY <1>4, <1>5, <2>1
  <2>2. CASE pidIndex'[p] = pidIndex[p]
    <3>1. pidIndex[p] \in live
      BY <1>1, <1>7, <2>2
    <3>2. QED
      BY <1>0, <1>5, <2>2, <3>1 DEF IndexJustified
  <2>3. QED
    BY <1>6, <2>1, <2>2
<1>14. QED
  BY <1>8, <1>9, <1>10, <1>11, <1>12, <1>13 DEF CInv

(* ingest(): each of the ways an event finds its chain.                    *)
LEMMA IngestKeeps ==
  ASSUME CInv, NEW pid \in Pids \cup {NoPid}, NEW ppid \in Pids \cup {NoPid},
         NEW src \in EventSources, Ingest(pid, ppid, src)
  PROVE  CInv'
<1> DEFINE e == [n |-> count + 1, pid |-> pid, ppid |-> ppid, src |-> src, at |-> now]
<1>0. /\ Typed /\ TypeOK /\ TemporalJustified /\ IndexJustified
      /\ count \in Nat /\ now \in 0..MaxTime /\ now \in Nat
      /\ live \subseteq 1..count /\ NoChain \notin live
      /\ pidIndex \in [Pids -> (1..count) \cup {NoChain}]
      /\ temporal \in [EventSources -> [at : 0..MaxTime, id : live \cup {NoChain}]]
  BY LiveChains DEF CInv, Typed, TypeOK
<1>1. /\ count < MaxEvents /\ count' = count + 1 /\ UNCHANGED now
      /\ JoinByPid(e) \/ JoinByParent(e) \/ JoinBySource(e) \/ NewChain(e)
  BY DEF Ingest
<1>2. /\ e \in Event /\ e.n = count + 1 /\ e.at = now /\ e.src = src
      /\ e.pid \in Pids \cup {NoPid} /\ e.ppid \in Pids \cup {NoPid}
  BY <1>0, <1>1, Constants DEF Event, ChainIds
<1> HIDE DEF e
<1>3. ParentOf(e) = NoPid \/ (ParentOf(e) = e.ppid /\ e.ppid \in Pids)
  BY <1>2 DEF ParentOf
<1>4. \A p \in Pids \cup {NoPid} : Lookup(p) \in live =>
        /\ p \in Pids /\ Lookup(p) = pidIndex[p]
        /\ \E f \in chains[Lookup(p)].all : p \in {f.pid, f.ppid}
  BY <1>0 DEF Lookup, IndexJustified
<1>5. CASE JoinByPid(e)
  <2>1. /\ Lookup(e.pid) \in live /\ Extend(Lookup(e.pid), e) /\ UNCHANGED temporal
        /\ pidIndex' = Indexed(pidIndex, ParentOf(e), Lookup(e.pid))
    BY <1>5 DEF JoinByPid, ByPid
  <2>2. \E f \in chains[Lookup(e.pid)].all : Linked(e, f)
    BY <1>2, <1>4, <2>1 DEF Linked
  <2>3. /\ pidIndex' \in [Pids -> (1..count) \cup {NoChain}]
        /\ \A p \in Pids : pidIndex'[p] = pidIndex[p]
                             \/ (pidIndex'[p] = Lookup(e.pid) /\ p \in {e.pid, e.ppid})
    BY <1>0, <1>3, <2>1 DEF Indexed
  <2>4. QED
    BY <1>0, <1>1, <1>2, <2>1, <2>2, <2>3, JoinKeeps
<1>6. CASE JoinByParent(e)
  <2>1. /\ Lookup(ParentOf(e)) \in live /\ Extend(Lookup(ParentOf(e)), e) /\ UNCHANGED temporal
        /\ pidIndex' = AfterCausal(e)
    BY <1>6 DEF JoinByParent, ByParent
  <2>2. ParentOf(e) = e.ppid /\ e.ppid \in Pids
    BY <1>0, <1>3, <2>1 DEF Lookup
  <2>3. \E f \in chains[Lookup(ParentOf(e))].all : Linked(e, f)
    BY <1>4, <2>1, <2>2 DEF Linked
  <2>4. /\ pidIndex' \in [Pids -> (1..count) \cup {NoChain}]
        /\ \A p \in Pids : pidIndex'[p] = pidIndex[p]
                             \/ (pidIndex'[p] = Lookup(ParentOf(e)) /\ p \in {e.pid, e.ppid})
    BY <1>0, <1>2, <2>1 DEF AfterCausal, Indexed
  <2>5. QED
    BY <1>0, <1>1, <1>2, <2>1, <2>3, <2>4, JoinKeeps
<1>7. CASE JoinBySource(e)
  <2> DEFINE id == temporal[src].id
  <2>1. /\ id \in live /\ now - temporal[src].at < TemporalWindow /\ Extend(id, e)
        /\ Lookup(ParentOf(e)) \notin live
        /\ pidIndex' = AfterCausal(e)
        /\ temporal' = [temporal EXCEPT ![src].at = now]
    BY <1>2, <1>7 DEF JoinBySource, InWindow, ByPid, ByParent
  <2>2. \E f \in chains[id].all : Linked(e, f)
    <3>1. PICK f \in chains[id].all : f.src = src /\ f.at = temporal[src].at
      BY <1>0, <2>1 DEF TemporalJustified
    <3>2. QED
      BY <1>2, <2>1, <3>1 DEF Linked
  <2>3. Lookup(ParentOf(e)) \in (1..count) \cup {NoChain}
    BY <1>0, <1>3 DEF Lookup
  <2>4. /\ pidIndex' \in [Pids -> (1..count) \cup {NoChain}]
        /\ \A p \in Pids : pidIndex'[p] \in live => pidIndex'[p] = pidIndex[p]
    BY <1>0, <1>2, <2>1, <2>3 DEF AfterCausal, Indexed
  <2>5. /\ temporal' \in [EventSources -> [at : 0..MaxTime, id : live \cup {NoChain}]]
        /\ \A s \in EventSources : temporal'[s] = temporal[s]
                                    \/ (temporal'[s] = [at |-> e.at, id |-> id] /\ e.src = s)
    BY <1>0, <1>2, <2>1
  <2> HIDE DEF id
  <2>6. QED
    BY <1>0, <1>1, <1>2, <2>1, <2>2, <2>4, <2>5, JoinKeeps
<1>8. CASE NewChain(e)
  BY <1>0, <1>1, <1>2, <1>8, NewChainKeeps
<1>9. QED
  BY <1>1, <1>5, <1>6, <1>7, <1>8

(* prune(): what stays keeps its events, and no index names what goes      *)
(* unless it did so before.                                                *)
LEMMA PruneKeeps ==
  ASSUME CInv, Prune
  PROVE  CInv'
<1>0. /\ Typed /\ TypeOK /\ Given /\ TemporalJustified
      /\ OneChainPerEvent /\ ChainCoherent /\ IndexJustified
      /\ live \subseteq ChainIds /\ NoChain \notin live
  BY LiveChains DEF CInv, Typed
<1>1. /\ UNCHANGED <<now, count, returned>>
      /\ live' = live \ ExpiredChains /\ live' \subseteq live
      /\ chains' = [id \in ChainIds |-> IF id \in ExpiredChains THEN EmptyChain ELSE chains[id]]
      /\ pidIndex' = [p \in Pids |->
           IF \E id \in ExpiredChains : p \in chains[id].pids THEN NoChain ELSE pidIndex[p]]
      /\ temporal' = [s \in EventSources |->
           IF temporal[s].id \in ExpiredChains THEN [temporal[s] EXCEPT !.id = NoChain]
           ELSE temporal[s]]
  BY DEF Prune
<1>2. EmptyChain \in Chain /\ EmptyChain.all = {} /\ Len(EmptyChain.events) <= TrimAt
  BY <1>0, Constants, EmptySeq DEF EmptyChain, Chain
<1>3. /\ chains' \in [ChainIds -> Chain]
      /\ \A id \in ChainIds : chains'[id] = EmptyChain \/ chains'[id] = chains[id]
      /\ \A id \in live' : chains'[id] = chains[id]
      /\ \A id \in ExpiredChains : chains'[id] = EmptyChain
  BY <1>0, <1>1, <1>2 DEF TypeOK, ExpiredChains
<1>4. \A p \in Pids : pidIndex'[p] = NoChain \/ pidIndex'[p] = pidIndex[p]
  BY <1>1
<1>5. \A s \in EventSources :
        /\ temporal'[s] \in [at : 0..MaxTime, id : live' \cup {NoChain}]
        /\ temporal'[s].id \in live' => temporal'[s] = temporal[s]
  <2> SUFFICES ASSUME NEW s \in EventSources
               PROVE  /\ temporal'[s] \in [at : 0..MaxTime, id : live' \cup {NoChain}]
                      /\ temporal'[s].id \in live' => temporal'[s] = temporal[s]
    OBVIOUS
  <2>0. temporal[s] \in [at : 0..MaxTime, id : live \cup {NoChain}]
    BY <1>0 DEF TypeOK
  <2>1. CASE temporal[s].id \in ExpiredChains
    <3>1. temporal'[s] = [temporal[s] EXCEPT !.id = NoChain]
      BY <1>1, <2>1
    <3>2. QED
      BY <1>0, <1>1, <2>0, <3>1
  <2>2. CASE temporal[s].id \notin ExpiredChains
    BY <1>1, <2>0, <2>2
  <2>3. QED
    BY <2>1, <2>2
<1>6. Typed'
  <2>1. \A id \in ChainIds : Len(chains'[id].events) <= TrimAt
    BY <1>0, <1>2, <1>3 DEF TypeOK
  <2>2. pidIndex' \in [Pids -> (1..count) \cup {NoChain}]
          /\ pidIndex' \in [Pids -> ChainIds \cup {NoChain}]
    BY <1>0, <1>1 DEF Typed, TypeOK
  <2>3. temporal' \in [EventSources -> [at : 0..MaxTime, id : live' \cup {NoChain}]]
    BY <1>1, <1>5
  <2>4. live' \subseteq 1..count
    BY <1>0, <1>1 DEF TypeOK
  <2>5. QED
    BY <1>0, <1>1, <1>3, <2>1, <2>2, <2>3, <2>4 DEF Typed, TypeOK
<1>7. Given'
  BY <1>0, <1>1, <1>2, <1>3 DEF Given
<1>8. TemporalJustified'
  BY <1>0, <1>1, <1>3, <1>5 DEF TemporalJustified
<1>9. OneChainPerEvent'
  BY <1>0, <1>1, <1>3 DEF OneChainPerEvent
<1>10. ChainCoherent'
  BY <1>0, <1>1, <1>3 DEF ChainCoherent, Linked
<1>11. IndexJustified'
  BY <1>0, <1>1, <1>3, <1>4 DEF IndexJustified
<1>12. QED
  BY <1>6, <1>7, <1>8, <1>9, <1>10, <1>11 DEF CInv

(* Every step keeps the invariant.                                         *)
LEMMA CNext == CInv /\ [Next]_vars => CInv'
<1> SUFFICES ASSUME CInv, [Next]_vars PROVE CInv'
  OBVIOUS
<1>1. ASSUME NEW pid \in Pids \cup {NoPid}, NEW ppid \in Pids \cup {NoPid},
             NEW src \in EventSources, Ingest(pid, ppid, src)
      PROVE  CInv'
  BY <1>1, IngestKeeps
<1>2. CASE Prune
  BY <1>2, PruneKeeps
<1>3. CASE Tick \/ UNCHANGED vars
  <2>1. UNCHANGED <<count, live, chains, pidIndex, temporal, returned>> /\ now' \in 0..MaxTime
    BY <1>3, Constants DEF CInv, Typed, TypeOK, Tick, vars
  <2>2. Typed'
    BY <2>1 DEF CInv, Typed, TypeOK
  <2>3. QED
    BY <2>1, <2>2 DEF CInv, Given, TemporalJustified, OneChainPerEvent, ChainCoherent,
                      IndexJustified, Linked
<1>4. QED
  BY <1>1, <1>2, <1>3 DEF Next

(* There is no chain at the start, and nothing in the indexes.             *)
LEMMA CInit == Init => CInv
<1> SUFFICES ASSUME Init PROVE CInv
  OBVIOUS
<1>1. EmptyChain \in Chain /\ EmptyChain.all = {} /\ Len(EmptyChain.events) <= TrimAt
  BY Constants, EmptySeq DEF EmptyChain, Chain
<1>2. Typed
  BY <1>1, Constants DEF Init, Typed, TypeOK
<1>3. QED
  BY <1>1, <1>2, Constants DEF Init, CInv, Given, TemporalJustified, OneChainPerEvent,
                              ChainCoherent, IndexJustified

(* The engine's maps are well typed: no list of events outgrows the        *)
(* literal of add_event and temporal_index names live chains only, also    *)
(* after prune(); crates/sentinel-correlation/src/lib.rs:117.              *)
THEOREM TypeCorrect == Spec => []TypeOK
<1>1. CInv => TypeOK
  BY DEF CInv, Typed
<1>2. QED
  BY CInit, CNext, <1>1, PTL DEF Spec

(* ingest() puts an event in one chain and returns that chain.             *)
THEOREM OneChainCorrect == Spec => []OneChainPerEvent
<1>1. CInv => OneChainPerEvent
  BY DEF CInv
<1>2. QED
  BY CInit, CNext, <1>1, PTL DEF Spec

(* ingest() never joins events that nothing connects, whatever the indexes *)
(* still hold of chains that prune() has dropped.                          *)
THEOREM CoherenceCorrect == Spec => []ChainCoherent
<1>1. CInv => ChainCoherent
  BY DEF CInv
<1>2. QED
  BY CInit, CNext, <1>1, PTL DEF Spec

(* pid_index names a live chain only for a process that has an event in    *)
(* it, or a child that has.                                                *)
THEOREM IndexCorrect == Spec => []IndexJustified
<1>1. CInv => IndexJustified
  BY DEF CInv
<1>2. QED
  BY CInit, CNext, <1>1, PTL DEF Spec
=============================================================================
