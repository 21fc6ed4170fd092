------------------------------ MODULE FilePoller ------------------------------
(***************************************************************************)
(* The polling fallback of the file collector (collectors/src/file/mod.rs, *)
(* run_polling_loop and scan_dir): every 30 seconds each watched directory *)
(* is listed, its files are compared with known, and then the files of     *)
(* known that a second listing does not show are reported deleted.         *)
(*                                                                         *)
(* One map serves all directories. The file system changes between any two *)
(* steps of a scan.                                                        *)
(***************************************************************************)
EXTENDS Integers, Sequences, FiniteSets

CONSTANTS
  Dirs,        \* watch_paths, in order: a sequence without repetitions
  Files,
  DirOf,       \* Files -> the directory a file is in
  Versions,    \* what (mtime, size) may be
  Absent,      \* no such file; no entry in known
  ListErrors,  \* may the second listing of a directory fail?
  MaxChanges   \* bound: changes to the file system

PollerAssumption ==
  /\ Dirs \in Seq({Dirs[i] : i \in DOMAIN Dirs})
  /\ DirOf \in [Files -> {Dirs[i] : i \in DOMAIN Dirs}]
  /\ Absent \notin Versions /\ ListErrors \in BOOLEAN /\ MaxChanges \in Nat

VARIABLES
  fs,       \* file -> its version
  changes,  \* changes made so far
  known,    \* known: path -> version
  pc,       \* "tick", "dirs", "files", "sweep"
  next,     \* index of the directory under scan
  listed,   \* the files of its first listing not looked at yet
  last      \* last event published for a file: "create", "modify", "delete" or "none"

vars == <<fs, changes, known, pc, next, listed, last>>

Init ==
  /\ fs \in [Files -> Versions \cup {Absent}]
  /\ changes = 0
  /\ known = [f \in Files |-> Absent]
  /\ pc = "tick" /\ next = 1 /\ listed = {}
  /\ last = [f \in Files |-> "none"]

Here == {f \in Files : DirOf[f] = Dirs[next]}
OnDisk == {f \in Files : fs[f] # Absent}

-----------------------------------------------------------------------------
(* The file system: create, write, rename over, remove.                    *)
Change(f, v) ==
  /\ changes < MaxChanges /\ fs[f] # v
  /\ fs' = [fs EXCEPT ![f] = v]
  /\ changes' = changes + 1
  /\ UNCHANGED <<known, pc, next, listed, last>>

-----------------------------------------------------------------------------
(* run_polling_loop *)

Tick ==
  /\ pc = "tick"
  /\ pc' = "dirs" /\ next' = 1
  /\ UNCHANGED <<fs, changes, known, listed, last>>

(* Wrong on purpose: the listing is not that of the directory.             *)
NextDir_All ==
  /\ pc = "dirs"
  /\ IF next > Len(Dirs)
     THEN pc' = "tick" /\ UNCHANGED listed
     ELSE pc' = "files" /\ listed' = OnDisk
  /\ UNCHANGED <<fs, changes, known, next, last>>

NextDir ==
  /\ pc = "dirs"
  /\ IF next > Len(Dirs)
     THEN pc' = "tick" /\ UNCHANGED listed
     ELSE pc' = "files" /\ listed' = Here \cap OnDisk
  /\ UNCHANGED <<fs, changes, known, next, last>>

(* read_dir fails, or the directory does not exist: no events.             *)
SkipDir ==
  /\ pc = "dirs" /\ next <= Len(Dirs)
  /\ next' = next + 1
  /\ UNCHANGED <<fs, changes, known, pc, listed, last>>

(* scan_dir, first pass: a file gone since the listing is passed over.     *)
Inspect(f) ==
  /\ pc = "files" /\ f \in listed
  /\ listed' = listed \ {f}
  /\ IF fs[f] \in {Absent, known[f]} THEN UNCHANGED <<known, last>>
     ELSE /\ known' = [known EXCEPT ![f] = fs[f]]
          /\ last' = [last EXCEPT ![f] = IF known[f] = Absent THEN "create" ELSE "modify"]
  /\ UNCHANGED <<fs, changes, pc, next>>

(* Second pass: what known has and the second listing has not. A listing   *)
(* that fails shows nothing.                                               *)
Deleted(shown) == {f \in Files : known[f] # Absent} \ shown

(* Wrong on purpose: a deleted file stays known.                           *)
Sweep_KeepsEntry ==
  /\ pc = "files" /\ listed = {}
  /\ LET gone == Deleted(Here \cap OnDisk) IN
       /\ last' = [f \in Files |-> IF f \in gone THEN "delete" ELSE last[f]]
  /\ pc' = "dirs" /\ next' = next + 1
  /\ UNCHANGED <<fs, changes, known, listed>>

Sweep ==
  /\ pc = "files" /\ listed = {}
  /\ \E shown \in {Here \cap OnDisk} \cup (IF ListErrors THEN {{}} ELSE {}) :
       LET gone == Deleted(shown) IN
         /\ known' = [f \in Files |-> IF f \in gone THEN Absent ELSE known[f]]
         /\ last' = [f \in Files |-> IF f \in gone THEN "delete" ELSE last[f]]
  /\ pc' = "dirs" /\ next' = next + 1
  /\ UNCHANGED <<fs, changes, listed>>

Next ==
  \/ \E f \in Files, v \in Versions \cup {Absent} : Change(f, v)
  \/ Tick \/ NextDir \/ SkipDir
  \/ \E f \in Files : Inspect(f)
  \/ Sweep

Spec == Init /\ [][Next]_vars

-----------------------------------------------------------------------------
(* Properties *)

(* Types, and known holds only files of the directories.                   *)
TypeOK ==
  /\ fs \in [Files -> Versions \cup {Absent}] /\ known \in [Files -> Versions \cup {Absent}]
  /\ pc \in {"tick", "dirs", "files"} /\ next \in 1..(Len(Dirs) + 1)
  /\ pc = "files" => listed \subseteq Here
  /\ last \in [Files -> {"none", "create", "modify", "delete"}]

(* The events of a file tell what is known of it: it is known exactly when *)
(* the last event is a create or a modify, so creates and deletes          *)
(* alternate and nothing unknown is modified or deleted.                   *)
KnownMatchesEvents ==
  \A f \in Files : known[f] # Absent <=> last[f] \in {"create", "modify"}

=============================================================================
