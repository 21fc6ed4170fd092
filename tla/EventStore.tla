------------------------------ MODULE EventStore ------------------------------
(***************************************************************************)
(* The event repository on SQLite (SqliteEventRepository in                *)
(* crates/sentinel-storage/src/sqlite.rs). append() is one transaction     *)
(* with an INSERT per event; SQLite admits one writing transaction at a    *)
(* time, from the first INSERT to its end. Nothing under src/ but tests    *)
(* calls append or retention: the writers make any call the interface      *)
(* allows.                                                                 *)
(***************************************************************************)
EXTENDS Integers, Sequences, FiniteSets, FiniteSetsExt, SequencesExt

CONSTANTS
  Rows,       \* the events; tags and words hold every text found within the stored ones
  Writers,    \* callers of append
  Batch,      \* writer -> the sequence of events it appends
  Policies,   \* [types, age, count]: retention's LIKE pattern as a set of types
  DayLength, MaxTime,   \* bound: the clock
  None

(* An event without a timestamp is stored with the empty text as its time, *)
(* which is before every other and, as a text, before any limit.           *)
NoTime == -1

StoreAssumption ==
  /\ IsFiniteSet(Rows) /\ Batch \in [Writers -> Seq(Rows)]
  /\ DayLength \in Nat \ {0} /\ MaxTime \in Nat
  /\ None \notin Writers /\ None \notin {"open", "ok", "error", "killed"}
  /\ \A p \in Policies : p.age \in Nat /\ p.count \in Nat
  /\ \A e \in Rows : e.time \in Nat \cup {NoTime}

VARIABLES
  now,
  table,    \* the committed rows
  lock,     \* the writer whose transaction holds the write lock, or None
  written,  \* writer -> INSERTs of its open transaction
  outcome   \* writer -> None, "open", "ok", "error" or "killed"

storeVars == <<now, table, lock, written, outcome>>

StoreInit ==
  /\ now = 0 /\ table = {} /\ lock = None
  /\ written = [w \in Writers |-> 0]
  /\ outcome = [w \in Writers |-> None]

-----------------------------------------------------------------------------
(* append                                                                  *)
Begin(w) ==
  /\ outcome[w] = None
  /\ outcome' = [outcome EXCEPT ![w] = IF Batch[w] = <<>> THEN "ok" ELSE "open"]
  /\ UNCHANGED <<now, table, lock, written>>

Open(w) == outcome[w] = "open"
Inserted(w) == {Batch[w][i] : i \in 1..written[w]}
Ids(S) == {e.id : e \in S}

(* The transaction ends without a commit.                                  *)
Rollback(w, result) ==
  /\ outcome' = [outcome EXCEPT ![w] = result]
  /\ written' = [written EXCEPT ![w] = 0]
  /\ lock' = IF lock = w THEN None ELSE lock
  /\ UNCHANGED <<now, table>>

(* Wrong on purpose: each INSERT commits by itself.                        *)
Insert_Alone(w) ==
  /\ Open(w) /\ lock \in {None, w} /\ written[w] < Len(Batch[w])
  /\ LET e == Batch[w][written[w] + 1] IN
       IF e.id \in Ids(table \cup Inserted(w)) THEN Rollback(w, "error")
       ELSE /\ lock' = w /\ written' = [written EXCEPT ![w] = @ + 1]
            /\ table' = table \cup {e}
            /\ UNCHANGED <<now, outcome>>

(* The next event; an id that is in the table already is an error.         *)
Insert(w) ==
  /\ Open(w) /\ lock \in {None, w} /\ written[w] < Len(Batch[w])
  /\ LET e == Batch[w][written[w] + 1] IN
       IF e.id \in Ids(table \cup Inserted(w)) THEN Rollback(w, "error")
       ELSE /\ lock' = w /\ written' = [written EXCEPT ![w] = @ + 1]
            /\ UNCHANGED <<now, table, outcome>>

Commit(w) ==
  /\ Open(w) /\ lock = w /\ written[w] = Len(Batch[w])
  /\ table' = table \cup Inserted(w)
  /\ outcome' = [outcome EXCEPT ![w] = "ok"]
  /\ lock' = None
  /\ UNCHANGED <<now, written>>

(* Busy for five seconds, or the disk refuses; or the caller's process     *)
(* ends.                                                                   *)
Fail(w) == Open(w) /\ Rollback(w, "error")
Killed(w) == Open(w) /\ Rollback(w, "killed")

-----------------------------------------------------------------------------
(* retention: of the rows that are too old the newest count are deleted,   *)
(* of those of one time any. The stored text has a T between day and hour  *)
(* and the limit a blank, so the comparison is one of days.                *)
Day(t) == t \div DayLength
TooOld(e, p) == e.type \in p.types /\ (e.time = NoTime \/ Day(e.time) < Day(now) - p.age)

Deletions(p) ==
  LET old == {e \in table : TooOld(e, p)} IN
  {D \in SUBSET old : /\ Cardinality(D) = Min({p.count, Cardinality(old)})
                     /\ \A d \in D, e \in old \ D : d.time >= e.time}

retention(p) ==
  /\ lock = None
  /\ \E D \in Deletions(p) : table' = table \ D
  /\ UNCHANGED <<now, lock, written, outcome>>

StoreTick == now < MaxTime /\ now' = now + 1 /\ UNCHANGED <<table, lock, written, outcome>>

-----------------------------------------------------------------------------
(* query. The conditions are joined by AND; so are several process names,  *)
(* several pids, which match as the beginning of a row's, and several      *)
(* tags. A process is stored with its parent nested in it and that one's   *)
(* parent, so a name or a pid is found in any of them.                     *)
Begins(n, pid) == n = pid \/ \E k \in 1..9 : 10^k <= pid /\ pid \div 10^k = n

AnyQuery ==
  [start |-> None, end |-> None, types |-> {}, sources |-> {}, severities |-> {}, names |-> {},
   pids |-> {}, correlation |-> None, flow |-> None, risk |-> None, tags |-> {}, text |-> None,
   limit |-> 100, offset |-> 0, sort |-> "timestamp", desc |-> TRUE]

Lineage(e) == IF e.process = None THEN {} ELSE {e.process} \cup e.parents

Satisfies(e, q) ==
  /\ (q.start = None \/ e.time >= q.start) /\ (q.end = None \/ e.time <= q.end)
  /\ q.types = {} \/ e.type \in q.types
  /\ q.sources = {} \/ e.source \in q.sources
  /\ q.severities = {} \/ e.severity \in q.severities
  /\ \A n \in q.names : \E x \in Lineage(e) : x.name = n
  /\ \A n \in q.pids : \E x \in Lineage(e) : Begins(n, x.pid)
  /\ q.correlation \in {None, e.correlation} /\ q.flow \in {None, e.flow}
  /\ q.risk = None \/ e.risk >= q.risk
  /\ q.tags \subseteq e.tags
  /\ q.text = None \/ q.text \in e.words

Matching(q) == {e \in table : Satisfies(e, q)}

(* ORDER BY one of six columns, an unknown one counting as the timestamp;  *)
(* rows that tie come in any order, and so do here those sorted by a text. *)
SortKey(e, column) ==
  CASE column = "severity" -> e.severity [] column = "risk_score" -> e.risk
    [] column \in {"type", "source", "host_id"} -> 0 [] OTHER -> e.time

Sortings(q) ==
  {s \in SetToSeqs(Matching(q)) :
     \A i, j \in DOMAIN s : i < j =>
       IF q.desc THEN SortKey(s[i], q.sort) >= SortKey(s[j], q.sort)
       ELSE SortKey(s[i], q.sort) <= SortKey(s[j], q.sort)}

(* row_to_event: times, payload, metadata and correlation are not read     *)
(* back, a process's main fields are.                                      *)
Read(e) ==
  [id |-> e.id, type |-> e.type, source |-> e.source, severity |-> e.severity, risk |-> e.risk,
   tags |-> e.tags, process |-> e.process, time |-> None, payload |-> None, correlation |-> None]

(* The cursor of a query, and the total it reports: the rows on the page.  *)
Cursors(q) ==
  {[events |-> [i \in DOMAIN page |-> Read(page[i])], total |-> Len(page)] :
     page \in {SubSeq(s, q.offset + 1, Min({q.offset + q.limit, Len(s)})) : s \in Sortings(q)}}

(* get, count and aggregate                                                *)
Got(id) == {Read(e) : e \in {x \in table : x.id = id}}
Count(q) == Cardinality(Matching(q))
GroupKey(e, column) ==
  CASE column = "type" -> e.type [] column = "source" -> e.source [] column = "severity" -> e.severity
    [] column = "host_id" -> e.host
Buckets(column, start, end) ==
  LET rows == {e \in table : start <= e.time /\ e.time <= end} IN
  {[key |-> k, count |-> Cardinality({e \in rows : GroupKey(e, column) = k}),
    min |-> Min({e.risk : e \in {x \in rows : GroupKey(x, column) = k}}),
    max |-> Max({e.risk : e \in {x \in rows : GroupKey(x, column) = k}})] :
     k \in {GroupKey(e, column) : e \in rows}}

StoreNext ==
  \/ \E w \in Writers : Begin(w) \/ Insert(w) \/ Commit(w) \/ Fail(w) \/ Killed(w)
  \/ (\E p \in Policies : retention(p)) \/ StoreTick

-----------------------------------------------------------------------------
(* The variables have their types; only an open transaction has the lock,  *)
(* and the ways of counting agree.                                         *)
StoreTypeOK ==
  /\ now \in 0..MaxTime /\ table \subseteq Rows
  /\ outcome \in [Writers -> {None, "open", "ok", "error", "killed"}]
  /\ \A w \in Writers : written[w] \in 0..Len(Batch[w])
  /\ lock # None => Open(lock) /\ written[lock] > 0
  /\ MapThenSumSet(LAMBDA b : b.count, Buckets("type", 0, MaxTime)) =
       Count([AnyQuery EXCEPT !.start = 0, !.end = MaxTime])

(* Batches are whole, whatever fails, is killed or waits: of a batch whose *)
(* append returned Ok every row is in the table or is now past some        *)
(* policy's age (without a time it is so at once), a row that is there     *)
(* came with such a batch, and no two rows share an id.                    *)
BatchesWhole ==
  LET kept == UNION {Range(Batch[w]) : w \in {x \in Writers : outcome[x] = "ok"}} IN
  /\ \A e \in kept : e \in table \/ \E p \in Policies : TooOld(e, p)
  /\ table \subseteq kept
  /\ \A e, f \in table : e.id = f.id => e = f
=============================================================================
