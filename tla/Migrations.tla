------------------------------ MODULE Migrations ------------------------------
(***************************************************************************)
(* The schema migrations (crates/sentinel-storage/src/migrations.rs), run  *)
(* at the start of the core service and of the desktop application, both   *)
(* possibly on one database file (docs/configuration.md:28 names the file  *)
(* the application opens). Each statement is a transaction of its own, so  *)
(* a process can stop, or another one come in, between any two.            *)
(***************************************************************************)
EXTENDS Naturals, Sequences

CONSTANTS
  Procs,      \* processes that open the database
  Last,       \* number of migrations
  Plan,       \* version -> its statements: "table" (IF NOT EXISTS) or "index"
  MaxCrashes, \* bound: processes killed
  MaxFaults   \* bound: statements refused by the disk or a busy database

ASSUME MigrationAssumption ==
  /\ Last \in Nat /\ MaxCrashes \in Nat /\ MaxFaults \in Nat
  /\ Plan \in [1..Last -> Seq({"table", "index"})]

VARIABLES
  made,      \* <<version, n>> of every table and index in the database
  recorded,  \* versions in the table migrations
  state,     \* process -> "down", "check", "run", "done", "exists", "fault"
  version,   \* process -> the migration it is at
  next,      \* process -> its next statement
  crashes, faults

procVars == <<state, version, next>>
vars == <<made, recorded, procVars, crashes, faults>>

Versions == 1..Last
Objects(v) == {<<v, n>> : n \in 1..Len(Plan[v])}

Init ==
  /\ made = {} /\ recorded = {}
  /\ state = [p \in Procs |-> "down"]
  /\ version = [p \in Procs |-> 1]
  /\ next = [p \in Procs |-> 1]
  /\ crashes = 0 /\ faults = 0

Goto(p, s, v, n) ==
  /\ state' = [state EXCEPT ![p] = s]
  /\ version' = [version EXCEPT ![p] = v]
  /\ next' = [next EXCEPT ![p] = n]

(* run_all begins; a process that failed or was killed may be started anew. *)
Start(p) ==
  /\ state[p] \in {"down", "exists", "fault"}
  /\ Goto(p, "check", 1, 1)
  /\ UNCHANGED <<made, recorded, crashes, faults>>

(* is_applied: skip the migration, or begin with its first statement.      *)
Check(p) ==
  /\ state[p] = "check" /\ version[p] <= Last
  /\ IF version[p] \in recorded
       THEN Goto(p, "check", version[p] + 1, 1)
       ELSE Goto(p, "run", version[p], 1)
  /\ UNCHANGED <<made, recorded, crashes, faults>>

(* All migrations are there; run_all returns.                              *)
Finish(p) ==
  /\ state[p] = "check" /\ version[p] = Last + 1
  /\ Goto(p, "done", Last + 1, 1)
  /\ UNCHANGED <<made, recorded, crashes, faults>>

(* exec: CREATE TABLE IF NOT EXISTS, or CREATE INDEX, an error when there. *)
Refused(p) ==
  /\ Plan[version[p]][next[p]] = "index"
  /\ <<version[p], next[p]>> \in made

Exec(p) ==
  /\ state[p] = "run" /\ next[p] <= Len(Plan[version[p]])
  /\ IF Refused(p)
       THEN Goto(p, "exists", version[p], next[p]) /\ UNCHANGED made
       ELSE /\ made' = made \cup {<<version[p], next[p]>>}
            /\ Goto(p, "run", version[p], next[p] + 1)
  /\ UNCHANGED <<recorded, crashes, faults>>

(* Wrong on purpose: recorded before the statements.                       *)
Record_First(p) ==
  /\ state[p] = "run" /\ next[p] >= Len(Plan[version[p]])
  /\ IF version[p] \in recorded
       THEN Goto(p, "exists", version[p], next[p]) /\ UNCHANGED recorded
       ELSE /\ recorded' = recorded \cup {version[p]}
            /\ Goto(p, "check", version[p] + 1, 1)
  /\ UNCHANGED <<made, crashes, faults>>

(* record: the version is the primary key, so a second INSERT fails.       *)
Record(p) ==
  /\ state[p] = "run" /\ next[p] = Len(Plan[version[p]]) + 1
  /\ IF version[p] \in recorded
       THEN Goto(p, "exists", version[p], next[p]) /\ UNCHANGED recorded
       ELSE /\ recorded' = recorded \cup {version[p]}
            /\ Goto(p, "check", version[p] + 1, 1)
  /\ UNCHANGED <<made, crashes, faults>>

(* Any statement may fail for another reason; run_all returns the error.   *)
Fault(p) ==
  /\ state[p] \in {"check", "run"} /\ faults < MaxFaults
  /\ faults' = faults + 1
  /\ Goto(p, "fault", version[p], next[p])
  /\ UNCHANGED <<made, recorded, crashes>>

(* A process ends, in the middle of the migrations or later.               *)
Crash(p) ==
  /\ state[p] \in {"check", "run", "done"} /\ crashes < MaxCrashes
  /\ crashes' = crashes + 1
  /\ Goto(p, "down", 1, 1)
  /\ UNCHANGED <<made, recorded, faults>>

Run(p) == Check(p) \/ Finish(p) \/ Exec(p) \/ Record(p)

Next == \E p \in Procs : Start(p) \/ Run(p) \/ Fault(p) \/ Crash(p)

Spec == Init /\ [][Next]_vars

-----------------------------------------------------------------------------
(* Properties *)

TypeOK ==
  /\ made \subseteq UNION {Objects(v) : v \in Versions}
  /\ recorded \subseteq Versions
  /\ state \in [Procs -> {"down", "check", "run", "done", "exists", "fault"}]
  /\ version \in [Procs -> 1..(Last + 1)]
  /\ next \in [Procs -> Nat \ {0}]
  /\ \A p \in Procs : state[p] = "run" =>
       version[p] <= Last /\ next[p] <= Len(Plan[version[p]]) + 1
  /\ crashes \in 0..MaxCrashes /\ faults \in 0..MaxFaults

(* What is recorded as applied is there in full, and so is every migration *)
(* before it, whichever processes were killed, refused or raced: a later   *)
(* start that skips a recorded version misses nothing.                     *)
RecordedIsComplete ==
  \A v \in recorded : Objects(v) \subseteq made /\ 1..v \subseteq recorded

(* A process for which run_all returned Ok has the whole schema, also when *)
(* another process applied it.                                             *)
DoneMeansSchema ==
  \A p \in Procs : state[p] = "done" =>
    recorded = Versions /\ \A v \in Versions : Objects(v) \subseteq made

(* Neither a crash nor a race leaves a hole behind a record or an Ok.      *)
SchemaComplete == RecordedIsComplete /\ DoneMeansSchema

(* "schema statements must succeed cleanly" (migrations.rs:27): none fails *)
(* over what an earlier start has left behind.                             *)
StatementsSucceed == \A p \in Procs : state[p] # "exists"

=============================================================================
