---------------------------- MODULE ConfigManager ----------------------------
(***************************************************************************)
(* The configuration manager (crates/sentinel-config/src/lib.rs): the      *)
(* files are loaded at the start, a watcher is installed, and a task       *)
(* reloads them after a change, debounced by half a second. What is in     *)
(* force is swapped as a whole.                                            *)
(*                                                                         *)
(* A configuration is the content of each file; later files override, and  *)
(* a load fails when one is Bad (does not parse, or validates not). A      *)
(* truncated file parses: it leaves everything to the defaults.            *)
(***************************************************************************)
EXTENDS Integers, FiniteSets

CONSTANTS
  N,          \* number of configuration files, in order of priority
  Texts,      \* contents that load
  Bad,        \* content that does not
  Empty,      \* a file being written
  Absent,     \* no file
  Removals,   \* may files be removed?
  AllDirs,    \* does every file's directory exist?
  MaxWrites   \* bound: changes to files

Paths == 1..N
Loads == Texts \cup {Empty, Absent}
Contents == Loads \cup {Bad}
Pending == "pending"

ConfigAssumption ==
  /\ N \in Nat \ {0} /\ MaxWrites \in Nat /\ {Removals, AllDirs} \subseteq BOOLEAN
  /\ Bad \notin Loads /\ Pending \notin Contents

VARIABLES
  dirs,      \* the files whose directory exists
  disk,      \* Paths -> content
  filling,   \* Paths -> what a write in progress will leave, or Absent
  writes,    \* changes so far
  note,      \* a notification of the file system is on its way to the watcher
  token,     \* the channel of one place between watcher and reload task
  pc,        \* "start", "watch", "wait", "debounce", "check", "read", "failed"
  got,       \* Paths -> what this load has read, Pending if it is yet to
  inForce,   \* config: Paths -> content, all Absent for the defaults
  untold,    \* a change nobody was notified of has not been read
  watched    \* the value a ConfigWatcher holds, or Absent

vars == <<dirs, disk, filling, writes, note, token, pc, got, inForce, untold, watched>>

Defaults == [p \in Paths |-> Absent]

Init ==
  /\ dirs \in IF AllDirs THEN {Paths} ELSE SUBSET Paths
  /\ disk \in {d \in [Paths -> Texts \cup {Bad, Absent}] : \A p \in Paths \ dirs : d[p] = Absent}
  /\ filling = [p \in Paths |-> Absent] /\ writes = 0
  /\ note = FALSE /\ token = FALSE
  /\ pc = "start" /\ got = Defaults /\ inForce = Defaults
  /\ untold = FALSE /\ watched = Absent

Watching == pc \notin {"start", "read0", "watch", "failed"}

-----------------------------------------------------------------------------
(* Files: written in place (emptied, then filled), replaced by a rename,   *)
(* or removed. Creation and modification are notified, removal is not.     *)

Told == note' = (note \/ Watching) /\ untold' = (untold \/ ~Watching)
Counted(p) == p \in dirs /\ writes < MaxWrites /\ writes' = writes + 1

Truncate(p, c) ==
  /\ Counted(p) /\ filling[p] = Absent
  /\ disk' = [disk EXCEPT ![p] = Empty]
  /\ filling' = [filling EXCEPT ![p] = c]
  /\ Told
  /\ UNCHANGED <<dirs, token, pc, got, inForce, watched>>

Fill(p) ==
  /\ filling[p] # Absent
  /\ disk' = [disk EXCEPT ![p] = filling[p]]
  /\ filling' = [filling EXCEPT ![p] = Absent]
  /\ Told
  /\ UNCHANGED <<dirs, writes, token, pc, got, inForce, watched>>

Replace(p, c) ==
  /\ Counted(p) /\ filling[p] = Absent
  /\ disk' = [disk EXCEPT ![p] = c]
  /\ Told
  /\ UNCHANGED <<dirs, filling, token, pc, got, inForce, watched>>

Remove(p) ==
  /\ Removals /\ Counted(p) /\ filling[p] = Absent /\ disk[p] # Absent
  /\ disk' = [disk EXCEPT ![p] = Absent]
  /\ untold' = TRUE
  /\ UNCHANGED <<dirs, filling, note, token, pc, got, inForce, watched>>

(* update: the text is validated by itself and written to the first file;  *)
(* the watcher sees to the rest.                                           *)
Update(c) == pc \notin {"start", "read0", "watch", "failed"} /\ c \in Texts /\ Truncate(1, c)

-----------------------------------------------------------------------------
(* load, start_watcher                                                     *)

(* Which files exist is looked up first, then they are read in order.      *)
Exist == [p \in Paths |-> IF disk[p] = Absent THEN Absent ELSE Pending]
Unread == {p \in Paths : got[p] = Pending}

Load ==
  /\ pc = "start"
  /\ got' = Exist /\ pc' = "read0" /\ untold' = FALSE
  /\ UNCHANGED <<dirs, disk, filling, writes, note, token, inForce, watched>>

(* A file that went in between fails the load.                             *)
Read ==
  /\ pc \in {"read0", "read"} /\ Unread # {}
  /\ LET p == CHOOSE x \in Unread : \A y \in Unread : x <= y
     IN got' = [got EXCEPT ![p] = IF disk[p] = Absent THEN Bad ELSE disk[p]]
  /\ UNCHANGED <<dirs, disk, filling, writes, note, token, pc, inForce, untold, watched>>

Loaded ==
  /\ pc = "read0" /\ Unread = {}
  /\ IF \E p \in Paths : got[p] = Bad THEN pc' = "failed" /\ UNCHANGED inForce
     ELSE pc' = "watch" /\ inForce' = got
  /\ UNCHANGED <<dirs, disk, filling, writes, note, token, got, untold, watched>>

(* The directory of every file is watched, of a file that need not be      *)
(* there as well: one that is missing ends the start with an error.        *)
StartWatcher ==
  /\ pc = "watch" /\ pc' = IF dirs = Paths THEN "wait" ELSE "failed"
  /\ UNCHANGED <<dirs, disk, filling, writes, note, token, got, inForce, untold, watched>>

-----------------------------------------------------------------------------
(* The watcher's callback and the reload task                              *)

Deliver ==
  /\ note /\ note' = FALSE /\ token' = TRUE
  /\ UNCHANGED <<dirs, disk, filling, writes, pc, got, inForce, untold, watched>>

Wake ==
  /\ pc = "wait" /\ token
  /\ token' = FALSE /\ pc' = "debounce"
  /\ UNCHANGED <<dirs, disk, filling, writes, note, got, inForce, untold, watched>>

(* Wrong on purpose: the drain waits for another notification.             *)
Debounce_Awaits ==
  /\ pc = "debounce" /\ token
  /\ token' = FALSE /\ pc' = "check"
  /\ UNCHANGED <<dirs, disk, filling, writes, note, got, inForce, untold, watched>>

(* After the pause what else has come is drained.                          *)
Debounce ==
  /\ pc = "debounce"
  /\ token' = FALSE /\ pc' = "check"
  /\ UNCHANGED <<dirs, disk, filling, writes, note, got, inForce, untold, watched>>

Check ==
  /\ pc = "check"
  /\ got' = Exist /\ pc' = "read" /\ untold' = FALSE
  /\ UNCHANGED <<dirs, disk, filling, writes, note, token, inForce, watched>>

(* Wrong on purpose: a load that failed is put in force.                   *)
Reloaded_Unvalidated ==
  /\ pc = "read" /\ Unread = {}
  /\ inForce' = got
  /\ pc' = "wait"
  /\ UNCHANGED <<dirs, disk, filling, writes, note, token, got, untold, watched>>

(* Wrong on purpose: the channel is drained after the reload.              *)
Reloaded_DrainsAfter ==
  /\ pc = "read" /\ Unread = {}
  /\ inForce' = IF \E p \in Paths : got[p] = Bad THEN inForce ELSE got
  /\ pc' = "wait" /\ token' = FALSE
  /\ UNCHANGED <<dirs, disk, filling, writes, note, got, untold, watched>>

Reloaded ==
  /\ pc = "read" /\ Unread = {}
  /\ inForce' = IF \E p \in Paths : got[p] = Bad THEN inForce ELSE got
  /\ pc' = "wait"
  /\ UNCHANGED <<dirs, disk, filling, writes, note, token, got, untold, watched>>

(* watch: the value of now. The task that would forward later values waits *)
(* for watch_tx, on which nothing is ever sent.                            *)
Watch ==
  /\ Watching /\ watched = Absent
  /\ watched' = inForce
  /\ UNCHANGED <<dirs, disk, filling, writes, note, token, pc, got, inForce, untold>>

(* The task of load, which goes on as the reload task.                     *)
Manager ==
  Load \/ Read \/ Loaded \/ StartWatcher \/ Wake \/ Debounce \/ Check \/ Reloaded

Next ==
  \/ \E p \in Paths : Fill(p) \/ Remove(p)
  \/ \E p \in Paths, c \in Texts \cup {Bad} : Truncate(p, c) \/ Replace(p, c)
  \/ \E c \in Texts : Update(c)
  \/ Manager
  \/ Deliver
  \/ Watch

Spec == Init /\ [][Next]_vars

(* The reload task and the watcher's thread run, and a write in progress   *)
(* comes to its end.                                                       *)
FairSpec ==
  Spec /\ WF_vars(Manager) /\ WF_vars(Deliver) /\ \A p \in Paths : WF_vars(Fill(p))

-----------------------------------------------------------------------------
(* Properties *)

(* Types; what is in force is one whole successful load.                   *)
TypeOK ==
  /\ dirs \subseteq Paths
  /\ disk \in [Paths -> Contents] /\ filling \in [Paths -> Texts \cup {Bad, Absent}]
  /\ writes \in 0..MaxWrites /\ note \in BOOLEAN /\ token \in BOOLEAN
  /\ pc \in {"start", "read0", "watch", "wait", "debounce", "check", "read", "failed"}
  /\ got \in [Paths -> Contents \cup {Pending}]
  /\ inForce \in [Paths -> Loads]
  /\ untold \in BOOLEAN /\ (watched = Absent \/ watched \in [Paths -> Loads])

(* No change is lost between the watcher, the debounce and the reload:     *)
(* when no notification is anywhere on the way, what is in force is what   *)
(* the files say, or they do not load. (A removal, and a change between    *)
(* the first load and the watcher's start, is nobody told of.)             *)
QuietIsCurrent ==
  pc = "wait" /\ ~token /\ ~note /\ ~untold =>
    inForce = disk \/ \E p \in Paths : disk[p] = Bad

(* Once the files are left alone, what they say comes into force and       *)
(* stays, unless they do not load or the change was one nobody is told of. *)
ChangesTakeEffect ==
  <>[](\/ pc = "failed" \/ untold
       \/ inForce = disk \/ \E p \in Paths : disk[p] = Bad)

=============================================================================
