----------------------------- MODULE StartupProofs -----------------------------
(***************************************************************************)
(* Theorems about what a start reads. The schema is complete behind every  *)
(* record and every Ok of run_all, for every list of migrations, any       *)
(* number of processes on one database, any number of crashes and refused  *)
(* statements, and every interleaving. And no change of a configuration    *)
(* file is lost between the watcher, the debounce and the reload, for      *)
(* every number of files and every set of contents.                        *)
(***************************************************************************)
EXTENDS Startup, TLAPS, SequenceTheorems, WellFoundedInduction

-----------------------------------------------------------------------------
(* The schema                                                              *)

(* A process looks at a version when all before it are recorded, and runs  *)
(* a statement when those before it have left their object. Neither goes   *)
(* away again, so what a process has seen stays true while others work.    *)
Behind ==
  \A p \in Procs :
    /\ state[p] \in {"check", "run"} => 1..(version[p] - 1) \subseteq recorded
    /\ state[p] = "run" => \A n \in 1..(next[p] - 1) : <<version[p], n>> \in made

MInv == TypeOK /\ Behind /\ SchemaComplete

(* The statements of a migration are numbered.                             *)
LEMMA PlanTyped ==
  /\ Last \in Nat /\ MaxCrashes \in Nat /\ MaxFaults \in Nat
  /\ \A v \in Versions : Plan[v] \in Seq({"table", "index"}) /\ Len(Plan[v]) \in Nat
<1>1. Last \in Nat /\ MaxCrashes \in Nat /\ MaxFaults \in Nat
        /\ Plan \in [Versions -> Seq({"table", "index"})]
  BY MigrationAssumption DEF MigrationAssumption, Versions
<1>2. \A v \in Versions : Plan[v] \in Seq({"table", "index"})
  BY <1>1
<1>3. QED
  BY <1>1, <1>2, LenProperties

(* Where the step of a process leaves it.                                  *)
LEMMA GotoType ==
  ASSUME TypeOK, NEW p \in Procs,
         NEW s \in {"down", "check", "run", "done", "exists", "fault"},
         NEW v \in 1..(Last + 1), NEW n \in Nat \ {0},
         s = "run" => v <= Last /\ n <= Len(Plan[v]) + 1,
         Goto(p, s, v, n)
  PROVE  /\ state' \in [Procs -> {"down", "check", "run", "done", "exists", "fault"}]
         /\ version' \in [Procs -> 1..(Last + 1)] /\ next' \in [Procs -> Nat \ {0}]
         /\ \A q \in Procs : state'[q] = "run" =>
              version'[q] <= Last /\ next'[q] <= Len(Plan[version'[q]]) + 1
         /\ state'[p] = s /\ version'[p] = v /\ next'[p] = n
         /\ \A q \in Procs \ {p} : state'[q] = state[q] /\ version'[q] = version[q] /\ next'[q] = next[q]
BY DEF TypeOK, Goto

(* A step that makes no object and no record: it is enough that the place  *)
(* it goes to is justified.                                                *)
LEMMA MoveKeeps ==
  ASSUME MInv, UNCHANGED <<made, recorded>>, crashes' \in 0..MaxCrashes, faults' \in 0..MaxFaults,
         NEW p \in Procs,
         NEW s \in {"down", "check", "run", "done", "exists", "fault"},
         NEW v \in 1..(Last + 1), NEW n \in Nat \ {0},
         s = "run" => v <= Last /\ n <= Len(Plan[v]) + 1,
         s \in {"check", "run"} => 1..(v - 1) \subseteq recorded,
         s = "run" => \A m \in 1..(n - 1) : <<v, m>> \in made,
         s = "done" => recorded = Versions,
         Goto(p, s, v, n)
  PROVE  MInv'
<1>0. TypeOK /\ Behind /\ RecordedIsComplete /\ DoneMeansSchema
  BY DEF MInv, SchemaComplete
<1>1. /\ state' \in [Procs -> {"down", "check", "run", "done", "exists", "fault"}]
      /\ version' \in [Procs -> 1..(Last + 1)] /\ next' \in [Procs -> Nat \ {0}]
      /\ \A q \in Procs : state'[q] = "run" =>
           version'[q] <= Last /\ next'[q] <= Len(Plan[version'[q]]) + 1
      /\ state'[p] = s /\ version'[p] = v /\ next'[p] = n
      /\ \A q \in Procs \ {p} : state'[q] = state[q] /\ version'[q] = version[q] /\ next'[q] = next[q]
  BY <1>0, GotoType
<1>2. TypeOK'
  BY <1>0, <1>1 DEF TypeOK
<1>3. Behind'
  BY <1>0, <1>1 DEF Behind
<1>4. RecordedIsComplete'
  BY <1>0 DEF RecordedIsComplete
<1>5. DoneMeansSchema'
  BY <1>0, <1>1 DEF DoneMeansSchema, RecordedIsComplete
<1>6. QED
  BY <1>2, <1>3, <1>4, <1>5 DEF MInv, SchemaComplete

(* run_all begins, skips what is recorded, returns, fails or is killed.    *)
LEMMA MovesKeep ==
  ASSUME MInv, NEW p \in Procs,
         Start(p) \/ Check(p) \/ Finish(p) \/ Fault(p) \/ Crash(p)
  PROVE  MInv'
<1>0. TypeOK /\ Behind /\ crashes \in 0..MaxCrashes /\ faults \in 0..MaxFaults
        /\ version[p] \in 1..(Last + 1) /\ next[p] \in Nat \ {0} /\ recorded \subseteq Versions
  BY DEF MInv, TypeOK
<1>1. CASE Start(p)
  <2>1. 1 \in 1..(Last + 1) /\ 1..(1 - 1) = {}
    BY PlanTyped
  <2>2. QED
    BY <1>0, <1>1, <2>1, MoveKeeps DEF Start
<1>2. CASE Check(p)
  <2>1. state[p] = "check" /\ version[p] \in Versions /\ 1..(version[p] - 1) \subseteq recorded
    BY <1>0, <1>2 DEF Check, Behind, Versions
  <2>2. CASE version[p] \in recorded
    <3>1. version[p] + 1 \in 1..(Last + 1)
      BY <2>1, PlanTyped DEF Versions
    <3>2. 1..((version[p] + 1) - 1) \subseteq recorded
      BY <1>0, <2>1, <2>2
    <3>3. Goto(p, "check", version[p] + 1, 1)
      BY <1>2, <2>2 DEF Check
    <3>4. QED
      BY <1>0, <1>2, <3>1, <3>2, <3>3, MoveKeeps DEF Check
  <2>3. CASE version[p] \notin recorded
    <3>1. version[p] <= Last /\ 1 <= Len(Plan[version[p]]) + 1 /\ 1..(1 - 1) = {}
      BY <2>1, PlanTyped DEF Versions
    <3>2. Goto(p, "run", version[p], 1)
      BY <1>2, <2>3 DEF Check
    <3>3. QED
      BY <1>0, <1>2, <2>1, <3>1, <3>2, MoveKeeps DEF Check
  <2>4. QED
    BY <2>2, <2>3
<1>3. CASE Finish(p)
  <2>1. state[p] = "check" /\ version[p] = Last + 1 /\ Last + 1 \in 1..(Last + 1)
    BY <1>0, <1>3 DEF Finish
  <2>2. 1..((Last + 1) - 1) \subseteq recorded
    BY <1>0, <2>1 DEF Behind
  <2>3. recorded = Versions
    <3>1. (Last + 1) - 1 = Last
      BY PlanTyped
    <3>2. QED
      BY <1>0, <2>2, <3>1 DEF Versions
  <2>4. QED
    BY <1>0, <1>3, <2>1, <2>3, MoveKeeps DEF Finish
<1>4. CASE Fault(p)
  <2>1. faults' \in 0..MaxFaults
    BY <1>0, <1>4, PlanTyped DEF Fault
  <2>2. QED
    BY <1>0, <1>4, <2>1, MoveKeeps DEF Fault
<1>5. CASE Crash(p)
  <2>1. crashes' \in 0..MaxCrashes /\ 1 \in 1..(Last + 1)
    BY <1>0, <1>5, PlanTyped DEF Crash
  <2>2. QED
    BY <1>0, <1>5, <2>1, MoveKeeps DEF Crash
<1>6. QED
  BY <1>1, <1>2, <1>3, <1>4, <1>5

(* A statement makes its object, which every other process may have made   *)
(* before or may still need.                                               *)
LEMMA ExecKeeps ==
  ASSUME MInv, NEW p \in Procs, Exec(p)
  PROVE  MInv'
<1> DEFINE v == version[p]
           n == next[p]
<1>0. /\ TypeOK /\ Behind /\ RecordedIsComplete /\ DoneMeansSchema
      /\ state[p] = "run" /\ v \in 1..(Last + 1) /\ v \in Versions /\ n \in Nat \ {0}
      /\ n <= Len(Plan[v]) /\ Len(Plan[v]) \in Nat
      /\ crashes \in 0..MaxCrashes /\ faults \in 0..MaxFaults
  BY PlanTyped DEF MInv, SchemaComplete, TypeOK, Exec, Versions
<1>1. CASE Refused(p)
  BY <1>0, <1>1, MoveKeeps DEF Exec
<1>2. CASE ~Refused(p)
  <2>1. /\ made' = made \cup {<<v, n>>} /\ UNCHANGED <<recorded, crashes, faults>>
        /\ Goto(p, "run", v, n + 1)
    BY <1>2 DEF Exec
  <2>2. v <= Last /\ n + 1 <= Len(Plan[v]) + 1 /\ n + 1 \in Nat \ {0}
    BY <1>0, PlanTyped DEF Versions
  <2> HIDE DEF v, n
  <2>3. /\ state' \in [Procs -> {"down", "check", "run", "done", "exists", "fault"}]
        /\ version' \in [Procs -> 1..(Last + 1)] /\ next' \in [Procs -> Nat \ {0}]
        /\ \A q \in Procs : state'[q] = "run" =>
             version'[q] <= Last /\ next'[q] <= Len(Plan[version'[q]]) + 1
        /\ state'[p] = "run" /\ version'[p] = v /\ next'[p] = n + 1
        /\ \A q \in Procs \ {p} : state'[q] = state[q] /\ version'[q] = version[q] /\ next'[q] = next[q]
    BY <1>0, <2>1, <2>2, GotoType
  <2>4. <<v, n>> \in Objects(v)
    BY <1>0 DEF Objects
  <2>5. made' \subseteq UNION {Objects(w) : w \in Versions}
    BY <1>0, <2>1, <2>4 DEF TypeOK
  <2>6. TypeOK'
    BY <1>0, <2>1, <2>3, <2>5 DEF TypeOK
  <2>7. Behind'
    <3> SUFFICES ASSUME NEW q \in Procs
                 PROVE  /\ state'[q] \in {"check", "run"} => 1..(version'[q] - 1) \subseteq recorded
                        /\ state'[q] = "run" =>
                             \A m \in 1..(next'[q] - 1) : <<version'[q], m>> \in made'
      BY <2>1 DEF Behind
    <3>1. CASE q = p
      <4>1. 1..(v - 1) \subseteq recorded /\ \A m \in 1..(n - 1) : <<v, m>> \in made
        BY <1>0 DEF Behind, v, n
      <4>2. \A m \in 1..((n + 1) - 1) : m \in 1..(n - 1) \/ m = n
        BY <1>0
      <4>3. QED
        BY <2>1, <2>3, <3>1, <4>1, <4>2
    <3>2. CASE q # p
      BY <1>0, <2>1, <2>3, <3>2 DEF Behind
    <3>3. QED
      BY <3>1, <3>2
  <2>8. SchemaComplete'
    BY <1>0, <2>1, <2>3 DEF SchemaComplete, RecordedIsComplete, DoneMeansSchema
  <2>9. QED
    BY <2>6, <2>7, <2>8 DEF MInv
<1>3. QED
  BY <1>1, <1>2

(* A record is written when every statement has left its object and every  *)
(* version before it is recorded.                                          *)
LEMMA RecordKeeps ==
  ASSUME MInv, NEW p \in Procs, Record(p)
  PROVE  MInv'
<1> DEFINE v == version[p]
           n == next[p]
<1>0. /\ TypeOK /\ Behind /\ RecordedIsComplete /\ DoneMeansSchema
      /\ state[p] = "run" /\ v \in 1..(Last + 1) /\ v \in Versions /\ n \in Nat \ {0}
      /\ n = Len(Plan[v]) + 1 /\ Len(Plan[v]) \in Nat
      /\ crashes \in 0..MaxCrashes /\ faults \in 0..MaxFaults
  BY PlanTyped DEF MInv, SchemaComplete, TypeOK, Record, Versions
<1>1. CASE v \in recorded
  BY <1>0, <1>1, MoveKeeps DEF Record
<1>2. CASE v \notin recorded
  <2>1. /\ recorded' = recorded \cup {v} /\ UNCHANGED <<made, crashes, faults>>
        /\ Goto(p, "check", v + 1, 1)
    BY <1>2 DEF Record
  <2>2. v + 1 \in 1..(Last + 1)
    BY <1>0, PlanTyped DEF Versions
  <2>3. Objects(v) \subseteq made /\ 1..(v - 1) \subseteq recorded
    BY <1>0 DEF Behind, Objects
  <2> HIDE DEF v, n
  <2>4. /\ state' \in [Procs -> {"down", "check", "run", "done", "exists", "fault"}]
        /\ version' \in [Procs -> 1..(Last + 1)] /\ next' \in [Procs -> Nat \ {0}]
        /\ \A q \in Procs : state'[q] = "run" =>
             version'[q] <= Last /\ next'[q] <= Len(Plan[version'[q]]) + 1
        /\ state'[p] = "check" /\ version'[p] = v + 1 /\ next'[p] = 1
        /\ \A q \in Procs \ {p} : state'[q] = state[q] /\ version'[q] = version[q] /\ next'[q] = next[q]
    BY <1>0, <2>1, <2>2, GotoType
  <2>5. TypeOK'
    BY <1>0, <2>1, <2>4 DEF TypeOK
  <2>6. 1..v \subseteq recorded'
    <3>1. \A w \in 1..v : w \in 1..(v - 1) \/ w = v
      BY <1>0
    <3>2. QED
      BY <2>1, <2>3, <3>1
  <2>7. Behind'
    <3> SUFFICES ASSUME NEW q \in Procs
                 PROVE  /\ state'[q] \in {"check", "run"} => 1..(version'[q] - 1) \subseteq recorded'
                        /\ state'[q] = "run" =>
                             \A m \in 1..(next'[q] - 1) : <<version'[q], m>> \in made
      BY <2>1 DEF Behind
    <3>1. CASE q = p
      <4>1. (v + 1) - 1 = v
        BY <1>0
      <4>2. QED
        BY <2>4, <2>6, <3>1, <4>1
    <3>2. CASE q # p
      BY <1>0, <2>1, <2>4, <3>2 DEF Behind
    <3>3. QED
      BY <3>1, <3>2
  <2>8. RecordedIsComplete'
    BY <1>0, <2>1, <2>3, <2>6 DEF RecordedIsComplete
  <2>9. DoneMeansSchema'
    BY <1>0, <2>1, <2>4 DEF DoneMeansSchema
  <2>10. QED
    BY <2>5, <2>7, <2>8, <2>9 DEF MInv, SchemaComplete
<1>3. QED
  BY <1>1, <1>2

(* Every step keeps the invariant.                                         *)
LEMMA MNext == MInv /\ [Next]_vars => MInv'
<1> SUFFICES ASSUME MInv, [Next]_vars PROVE MInv'
  OBVIOUS
<1>1. ASSUME NEW p \in Procs, Start(p) \/ Check(p) \/ Finish(p) \/ Fault(p) \/ Crash(p) PROVE MInv'
  BY <1>1, MovesKeep
<1>2. ASSUME NEW p \in Procs, Exec(p) PROVE MInv'
  BY <1>2, ExecKeeps
<1>3. ASSUME NEW p \in Procs, Record(p) PROVE MInv'
  BY <1>3, RecordKeeps
<1>4. CASE UNCHANGED vars
  BY <1>4 DEF MInv, TypeOK, Behind, SchemaComplete, RecordedIsComplete, DoneMeansSchema,
              vars, procVars
<1>5. QED
  BY <1>1, <1>2, <1>3, <1>4 DEF Next, Run

-----------------------------------------------------------------------------
(* The configuration                                                       *)

(* Somebody will look at the files again, or a change was one that nobody  *)
(* is told of.                                                             *)
Alarmed == note \/ token \/ untold \/ pc \in {"debounce", "check"}

(* Unless there is an alarm, what a load has read so far is what the files *)
(* still say, and a file it has yet to read is still there ...             *)
ReadIsCurrent ==
  pc \in {"read0", "read"} /\ ~Alarmed =>
    \A p \in Conf!Paths : got[p] = disk[p] \/ (got[p] = Conf!Pending /\ disk[p] # Absent)

(* ... and so is what it has put in force, if it loaded.                   *)
ForceIsCurrent ==
  /\ pc = "watch" /\ ~Alarmed => inForce = disk
  /\ pc = "wait" /\ ~Alarmed => inForce = disk \/ \E p \in Conf!Paths : disk[p] = Bad

ConfigInv == Conf!TypeOK /\ ReadIsCurrent /\ ForceIsCurrent

(* Pending is no content of a file, and Bad none that loads.               *)
LEMMA Contexts ==
  /\ Conf!Pending \notin Conf!Contents /\ Bad \notin Conf!Loads
  /\ Conf!Contents = Conf!Loads \cup {Bad}
  /\ Empty \in Conf!Loads /\ Absent \in Conf!Loads /\ Texts \subseteq Conf!Loads
  /\ MaxWrites \in Nat /\ N \in Nat /\ Conf!Paths = 1..N /\ Conf!Paths \subseteq Nat
BY StartupAssumption DEF Conf!ConfigAssumption, Conf!Contents, Conf!Loads, Conf!Paths

(* Nothing is read at the start, and the defaults are in force.            *)
LEMMA ConfigInit ==
  Conf!Init => ConfigInv
<1> SUFFICES ASSUME Conf!Init PROVE ConfigInv
  OBVIOUS
<1>1. dirs \subseteq Conf!Paths
  BY DEF Conf!Init
<1>2. disk \in [Conf!Paths -> Conf!Contents]
  BY Contexts DEF Conf!Init
<1>3. /\ filling \in [Conf!Paths -> Texts \cup {Bad, Absent}]
      /\ got \in [Conf!Paths -> Conf!Contents \cup {Conf!Pending}] /\ inForce \in [Conf!Paths -> Conf!Loads]
  BY Contexts DEF Conf!Init, Conf!Defaults
<1>4. writes \in 0..MaxWrites
  BY Contexts DEF Conf!Init
<1>5. Conf!TypeOK
  BY <1>1, <1>2, <1>3, <1>4 DEF Conf!Init, Conf!TypeOK
<1>6. QED
  BY <1>5 DEF Conf!Init, ConfigInv, ReadIsCurrent, ForceIsCurrent

(* A change to a file raises an alarm, whoever makes it and whenever.      *)
LEMMA ChangeAlarms ==
  ASSUME ConfigInv, NEW p \in Conf!Paths, NEW c \in Texts \cup {Bad},
         Conf!Truncate(p, c) \/ Conf!Replace(p, c) \/ Conf!Fill(p) \/ Conf!Remove(p)
  PROVE  ConfigInv'
<1>1. disk \in [Conf!Paths -> Conf!Contents] /\ filling \in [Conf!Paths -> Texts \cup {Bad, Absent}]
  BY DEF ConfigInv, Conf!TypeOK
<1>2. disk' \in [Conf!Paths -> Conf!Contents]
  <2>1. filling[p] \in Conf!Contents
    BY <1>1, Contexts
  <2>2. PICK x \in Conf!Contents : disk' = [disk EXCEPT ![p] = x]
    BY <2>1, Contexts DEF Conf!Truncate, Conf!Replace, Conf!Fill, Conf!Remove
  <2>3. QED
    BY <1>1, <2>2
<1>3. filling' \in [Conf!Paths -> Texts \cup {Bad, Absent}]
  BY <1>1 DEF Conf!Truncate, Conf!Replace, Conf!Fill, Conf!Remove
<1>4. writes' \in 0..MaxWrites
  BY Contexts DEF ConfigInv, Conf!TypeOK, Conf!Truncate, Conf!Replace, Conf!Fill, Conf!Remove, Conf!Counted
<1>5. /\ note' \in BOOLEAN /\ untold' \in BOOLEAN
      /\ UNCHANGED <<dirs, token, pc, got, inForce, watched>>
      /\ note' \/ untold'
  BY DEF ConfigInv, Conf!TypeOK, Conf!Truncate, Conf!Replace, Conf!Fill, Conf!Remove, Conf!Told
<1>6. Conf!TypeOK'
  BY <1>2, <1>3, <1>4, <1>5 DEF ConfigInv, Conf!TypeOK
<1>7. Alarmed'
  BY <1>5 DEF Alarmed
<1>8. QED
  BY <1>6, <1>7 DEF ConfigInv, ReadIsCurrent, ForceIsCurrent

(* A load looks first for what exists, and forgets the alarms before it    *)
(* does: a later one is about a later change.                              *)
LEMMA LookKeeps ==
  ASSUME ConfigInv, Conf!Load \/ Conf!Check
  PROVE  ConfigInv'
<1>1. /\ disk \in [Conf!Paths -> Conf!Contents] /\ got' = Conf!Exist /\ pc' \in {"read0", "read"}
      /\ untold' = FALSE
      /\ UNCHANGED <<dirs, disk, filling, writes, note, token, inForce, watched>>
  BY DEF ConfigInv, Conf!TypeOK, Conf!Load, Conf!Check
<1>2. got' \in [Conf!Paths -> Conf!Contents \cup {Conf!Pending}]
  BY <1>1, Contexts DEF Conf!Exist
<1>3. Conf!TypeOK'
  BY <1>1, <1>2 DEF ConfigInv, Conf!TypeOK
<1>4. \A p \in Conf!Paths : got'[p] = disk'[p] \/ (got'[p] = Conf!Pending /\ disk'[p] # Absent)
  BY <1>1 DEF Conf!Exist
<1>5. QED
  BY <1>1, <1>3, <1>4 DEF ConfigInv, ReadIsCurrent, ForceIsCurrent

(* Of the files yet to be read there is a first.                           *)
LEMMA FirstUnread ==
  ASSUME Conf!Unread # {}
  PROVE  \E x \in Conf!Unread : \A y \in Conf!Unread : x <= y
<1> DEFINE R == {ss \in Nat \X Nat : ss[1] < ss[2]}
<1>1. IsWellFoundedOn(R, Nat)
  BY NatLessThanWellFounded DEF OpToRel
<1>2. Conf!Unread \subseteq Nat
  BY Contexts DEF Conf!Unread
<1>3. PICK x \in Conf!Unread : \A y \in Conf!Unread : ~(<<y, x>> \in R)
  BY <1>1, <1>2, WFMin
<1>4. ASSUME NEW y \in Conf!Unread PROVE x <= y
  <2>1. x \in Nat /\ y \in Nat /\ (y < x => <<y, x>> \in R)
    BY <1>2
  <2>2. ~(y < x)
    BY <1>3, <2>1
  <2>3. QED
    BY <2>1, <2>2
<1>5. QED
  BY <1>4

(* A file that was there when looked for is read as it is now; one that is *)
(* gone was removed meanwhile, of which nobody is told.                    *)
LEMMA ReadKeeps ==
  ASSUME ConfigInv, Conf!Read
  PROVE  ConfigInv'
<1>1. /\ disk \in [Conf!Paths -> Conf!Contents] /\ got \in [Conf!Paths -> Conf!Contents \cup {Conf!Pending}]
      /\ UNCHANGED <<dirs, disk, filling, writes, note, token, pc, inForce, untold, watched>>
      /\ pc \in {"read0", "read"}
  BY DEF ConfigInv, Conf!TypeOK, Conf!Read
<1>2. PICK p \in Conf!Unread :
        got' = [got EXCEPT ![p] = IF disk[p] = Absent THEN Bad ELSE disk[p]]
  <2> DEFINE first == CHOOSE x \in Conf!Unread : \A y \in Conf!Unread : x <= y
  <2>1. got' = [got EXCEPT ![first] = IF disk[first] = Absent THEN Bad ELSE disk[first]]
    BY DEF Conf!Read
  <2>2. first \in Conf!Unread
    BY FirstUnread DEF Conf!Read
  <2>3. QED
    BY <2>1, <2>2
<1>3. got' \in [Conf!Paths -> Conf!Contents \cup {Conf!Pending}]
  BY <1>1, <1>2, Contexts
<1>4. Conf!TypeOK'
  BY <1>1, <1>3 DEF ConfigInv, Conf!TypeOK
<1>5. ReadIsCurrent'
  <2> SUFFICES ASSUME ~Alarmed', NEW q \in Conf!Paths
               PROVE  got'[q] = disk'[q] \/ (got'[q] = Conf!Pending /\ disk'[q] # Absent)
    BY DEF ReadIsCurrent
  <2>1. ~Alarmed
    BY <1>1 DEF Alarmed
  <2>2. got[q] = disk[q] \/ (got[q] = Conf!Pending /\ disk[q] # Absent)
    BY <1>1, <2>1 DEF ConfigInv, ReadIsCurrent
  <2>3. CASE q # p
    BY <1>1, <1>2, <2>2, <2>3
  <2>4. CASE q = p
    <3>1. got[p] = Conf!Pending /\ disk[p] \in Conf!Contents
      BY <1>1, <1>2 DEF Conf!Unread
    <3>2. disk[p] # Absent
      BY <2>2, <2>4, <3>1, Contexts
    <3>3. QED
      BY <1>1, <1>2, <2>4, <3>2
  <2>5. QED
    BY <2>3, <2>4
<1>6. QED
  BY <1>1, <1>4, <1>5 DEF ConfigInv, ForceIsCurrent

(* What is put in force has been read to the end.                          *)
LEMMA LoadedKeeps ==
  ASSUME ConfigInv, Conf!Loaded \/ Conf!Reloaded
  PROVE  ConfigInv'
<1>1. /\ disk \in [Conf!Paths -> Conf!Contents] /\ got \in [Conf!Paths -> Conf!Contents \cup {Conf!Pending}]
      /\ inForce \in [Conf!Paths -> Conf!Loads]
      /\ UNCHANGED <<dirs, disk, filling, writes, note, token, got, untold, watched>>
      /\ pc \in {"read0", "read"} /\ Conf!Unread = {} /\ pc' \in {"watch", "wait", "failed"}
  BY DEF ConfigInv, Conf!TypeOK, Conf!Loaded, Conf!Reloaded
<1>2. \A p \in Conf!Paths : got[p] \in Conf!Contents
  BY <1>1 DEF Conf!Unread
<1>3. inForce' \in [Conf!Paths -> Conf!Loads]
  <2>1. CASE inForce' = inForce
    BY <1>1, <2>1
  <2>2. CASE inForce' = got /\ \A p \in Conf!Paths : got[p] # Bad
    BY <1>1, <1>2, <2>2, Contexts
  <2>3. QED
    BY <2>1, <2>2 DEF Conf!Loaded, Conf!Reloaded
<1>4. Conf!TypeOK'
  BY <1>1, <1>3 DEF ConfigInv, Conf!TypeOK
<1>5. ~Alarmed => got = disk
  <2> SUFFICES ASSUME ~Alarmed, NEW p \in Conf!Paths PROVE got[p] = disk[p]
    BY <1>1
  <2>1. QED
    BY <1>1 DEF ConfigInv, ReadIsCurrent, Conf!Unread
<1>6. ~Alarmed' => ~Alarmed
  BY <1>1 DEF Alarmed
<1>7. pc' = "watch" => inForce' = got
  BY DEF Conf!Loaded, Conf!Reloaded
<1>8. pc' = "wait" => inForce' = got \/ \E p \in Conf!Paths : got[p] = Bad
  BY DEF Conf!Loaded, Conf!Reloaded
<1>9. ForceIsCurrent'
  <2>1. pc' = "watch" /\ ~Alarmed' => inForce' = disk'
    BY <1>1, <1>5, <1>6, <1>7
  <2>2. pc' = "wait" /\ ~Alarmed' => inForce' = disk' \/ \E p \in Conf!Paths : disk'[p] = Bad
    BY <1>1, <1>5, <1>6, <1>8
  <2>3. QED
    BY <2>1, <2>2 DEF ForceIsCurrent
<1>10. QED
  BY <1>1, <1>4, <1>9 DEF ConfigInv, ReadIsCurrent

(* An alarm is handed on from the watcher's thread to the reload task, and *)
(* is not forgotten before the files are looked at.                        *)
LEMMA AlarmKept ==
  ASSUME ConfigInv,
         Conf!StartWatcher \/ Conf!Deliver \/ Conf!Wake \/ Conf!Debounce \/ Conf!Watch \/ UNCHANGED Conf!vars
  PROVE  ConfigInv'
<1>1. Conf!TypeOK'
  <2>1. Conf!TypeOK
    BY DEF ConfigInv
  <2>2. UNCHANGED <<dirs, disk, filling, writes, got, inForce, untold>>
    BY DEF Conf!StartWatcher, Conf!Deliver, Conf!Wake, Conf!Debounce, Conf!Watch, Conf!vars
  <2>3. note' \in BOOLEAN /\ token' \in BOOLEAN
    BY <2>1 DEF Conf!TypeOK, Conf!StartWatcher, Conf!Deliver, Conf!Wake, Conf!Debounce, Conf!Watch, Conf!vars
  <2>4. pc' \in {"start", "read0", "watch", "wait", "debounce", "check", "read", "failed"}
    BY <2>1 DEF Conf!TypeOK, Conf!StartWatcher, Conf!Deliver, Conf!Wake, Conf!Debounce, Conf!Watch, Conf!vars
  <2>5. watched' = Absent \/ watched' \in [Conf!Paths -> Conf!Loads]
    BY <2>1 DEF Conf!TypeOK, Conf!StartWatcher, Conf!Deliver, Conf!Wake, Conf!Debounce, Conf!Watch, Conf!vars
  <2>6. QED
    BY <2>1, <2>2, <2>3, <2>4, <2>5 DEF Conf!TypeOK
<1>2. CASE Alarmed'
  BY <1>1, <1>2 DEF ConfigInv, ReadIsCurrent, ForceIsCurrent
<1>3. CASE ~Alarmed'
  <2>1. ~Alarmed /\ UNCHANGED <<disk, got, inForce>>
        /\ (pc' = pc \/ (pc = "watch" /\ pc' \in {"wait", "failed"}))
    BY <1>3 DEF Alarmed, Conf!StartWatcher, Conf!Deliver, Conf!Wake, Conf!Debounce, Conf!Watch, Conf!vars
  <2>2. QED
    BY <1>1, <2>1 DEF ConfigInv, ReadIsCurrent, ForceIsCurrent
<1>4. QED
  BY <1>2, <1>3

(* Every step keeps the invariant.                                         *)
LEMMA ConfigNext ==
  ConfigInv /\ [Conf!Next]_(Conf!vars) => ConfigInv'
<1> SUFFICES ASSUME ConfigInv, [Conf!Next]_(Conf!vars) PROVE ConfigInv'
  OBVIOUS
<1>1. Bad \in Texts \cup {Bad}
  OBVIOUS
<1>2. ASSUME NEW p \in Conf!Paths, Conf!Fill(p) \/ Conf!Remove(p) PROVE ConfigInv'
  BY <1>1, <1>2, ChangeAlarms
<1>3. ASSUME NEW p \in Conf!Paths, NEW c \in Texts \cup {Bad}, Conf!Truncate(p, c) \/ Conf!Replace(p, c)
      PROVE  ConfigInv'
  BY <1>3, ChangeAlarms
<1>4. ASSUME NEW c \in Texts, Conf!Update(c) PROVE ConfigInv'
  <2>1. 1 \in Conf!Paths /\ Conf!Truncate(1, c)
    BY <1>4, StartupAssumption DEF Conf!Update, Conf!ConfigAssumption, Conf!Paths
  <2>2. QED
    BY <2>1, ChangeAlarms
<1>5. CASE Conf!Manager
  BY <1>5, LookKeeps, ReadKeeps, LoadedKeeps, AlarmKept DEF Conf!Manager
<1>6. CASE Conf!Deliver \/ Conf!Watch \/ UNCHANGED Conf!vars
  BY <1>6, AlarmKept
<1>7. QED
  BY <1>2, <1>3, <1>4, <1>5, <1>6 DEF Conf!Next

-----------------------------------------------------------------------------
(* Theorems. While one part moves the other rests, so that a behaviour of  *)
(* both is one of each.                                                    *)

(* A first start, a restart or a newer schema: each satisfies it.          *)
LEMMA SchemaInit == Init => MInv
<1> SUFFICES ASSUME Init PROVE MInv
  OBVIOUS
<1>1. 1 \in 1..(Last + 1) /\ 0 \in 0..MaxCrashes /\ 0 \in 0..MaxFaults
  BY PlanTyped
<1>2. QED
  BY <1>1 DEF Init, MInv, TypeOK, Behind, SchemaComplete, RecordedIsComplete, DoneMeansSchema

(* A step of the whole is a step of one part; the other rests.             *)
LEMMA StartupStep == [AllNext]_allVars => [Next]_vars /\ [Conf!Next]_(Conf!vars)
BY DEF AllNext, allVars, schemaVars, confVars, vars, Conf!vars

(* Nothing is recorded, and nothing returned Ok, without the whole schema: *)
(* run_all, crates/sentinel-storage/src/migrations.rs:34.                  *)
THEOREM SchemaCorrect == Spec => []SchemaComplete
<1>1. MInv => SchemaComplete
  BY DEF MInv
<1>2. QED
  BY <1>1, SchemaInit, MNext, PTL DEF Spec

(* Both parts keep their types; what is in force of the configuration is   *)
(* one whole successful load, never a mixture or a text that does not load *)
(* (crates/sentinel-config/src/lib.rs:132-214).                            *)
THEOREM StartupTyped == AllSpec => []AllTyped
<1>1. AllInit => MInv /\ ConfigInv
  BY SchemaInit, ConfigInit DEF AllInit
<1>2. MInv /\ ConfigInv => AllTyped
  BY DEF MInv, ConfigInv, AllTyped
<1>3. QED
  BY <1>1, <1>2, StartupStep, MNext, ConfigNext, PTL DEF AllSpec

(* When no notification is on its way from the watcher's callback through  *)
(* the debounce to the reload, what is in force is what the files say, or  *)
(* they do not load (crates/sentinel-config/src/lib.rs:132-214), in every  *)
(* order of writes and steps.                                              *)
THEOREM QuietCorrect == AllSpec => []QuietIsCurrent
<1>1. AllInit => ConfigInv
  BY ConfigInit DEF AllInit
<1>2. ConfigInv => QuietIsCurrent
  BY DEF ConfigInv, ForceIsCurrent, Alarmed, QuietIsCurrent, Conf!QuietIsCurrent
<1>3. QED
  BY <1>1, <1>2, StartupStep, ConfigNext, PTL DEF AllSpec
=============================================================================
