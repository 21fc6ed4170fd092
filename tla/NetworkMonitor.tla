---------------------------- MODULE NetworkMonitor ----------------------------
(***************************************************************************)
(* The network collector (collectors/src/network): every five seconds the  *)
(* connections of the host are polled, the inodes of their sockets are     *)
(* looked up in a map built from /proc/<pid>/fd, and the tracker turns the *)
(* difference to the last poll into New and Close events.                  *)
(*                                                                         *)
(* Processes fork, exit, connect and close between any two steps of the    *)
(* poll and of the map's construction, which takes one process at a time.  *)
(* An inode number is used once. DNS and the scan detector do not touch    *)
(* this state; events are handed to the bus in the step that makes them.   *)
(*                                                                         *)
(* A poll asks sock_diag first. Its mask of TCP states, 0xFFF & !0x0A, is  *)
(* meant to leave out listening sockets and leaves out established ones    *)
(* (state 1, and 3) instead. Its answers are read through a struct that    *)
(* has no repr(C): in the order rustc gives its fields, largest alignment  *)
(* first, ports are read as part of an address, the TCP state and timers   *)
(* as ports, and the owner's user number as inode.                         *)
(***************************************************************************)
EXTENDS Integers, FiniteSets

CONSTANTS
  Keys,        \* connections: addresses, ports and protocol
  Fast,        \* those the sock_diag queries are about: IPv4 TCP
  Pids,
  Absent,      \* no such connection; nothing known of it
  UseDiag,     \* did sock_diag connect?
  Uid,         \* the number of the user whose sockets these are
  FullEvery,   \* every so many polls all processes are scanned: 6
  MaxInode,    \* bound: sockets made
  MaxChanges   \* bound: steps of the processes

ASSUME NetworkAssumption ==
  /\ Fast \subseteq Keys /\ UseDiag \in BOOLEAN /\ Uid \in Nat /\ Absent # Uid
  /\ FullEvery \in Nat \ {0} /\ MaxInode \in Nat /\ MaxChanges \in Nat
  /\ Pids \subseteq Nat \ {0} /\ Absent \notin 0..MaxInode /\ Absent \notin Pids

Inodes == 1..MaxInode
Orphan == 0          \* the inode shown for a closing connection that no process owns
NoPid == 0           \* the pid written for an inode the map has not

(* The names under which a connection can be tracked: its own, and those   *)
(* the misread struct makes of it, with the TCP state for a local port. A  *)
(* listening socket is a connection that stays in the first state.         *)
Phases == {"opening", "established", "closing"}
Own(k) == <<k, "own">>
Names == {Own(k) : k \in Keys} \cup (Fast \X Phases)

VARIABLES
  alive,      \* running processes
  fds,        \* Pids -> inodes of the sockets it has open
  made,       \* sockets made so far
  row,        \* Keys -> inode of the connection's socket, Orphan or Absent
  phase,      \* Fast -> its TCP state
  changes,    \* steps of the processes so far
  calm,       \* no such step since the poll under way began
  pc,         \* "tick", "list", "scan", "update"
  cycle,      \* cycle_count, modulo FullEvery
  ordered,    \* the compiler has kept the order of inet_diag_msg's fields
  raw,        \* what the poll showed: Names -> inode, Orphan or Absent
  listed,     \* pids of the listing of /proc
  toScan,     \* those of them not scanned yet
  unread,     \* history: processes whose descriptors this cycle could not read
  mapped,     \* cached_map: Inodes -> pid or NoPid
  known,      \* cached_pids
  fresh,      \* pids the last construction met for the first time
  seeded,     \* the first update, which announces nothing, is done
  tracked,    \* Names -> pid of the connection's meta, or Absent
  told,       \* history: Names -> last event handed to the bus, or found at the start
  prior       \* history: Names -> the one before it

os == <<alive, fds, made, row, phase>>
vars == <<os, changes, calm, pc, cycle, ordered, raw, listed, toScan, unread, mapped,
          known, fresh, seeded, tracked, told, prior>>
monitor == <<pc, cycle, ordered, raw, listed, toScan, unread, mapped, known, fresh,
             seeded, tracked, told, prior>>

Nothing == [what |-> "none", pid |-> NoPid]

Init ==
  /\ alive \in SUBSET Pids \ {{}}
  /\ fds = [p \in Pids |-> {}] /\ made = 0
  /\ row = [k \in Keys |-> Absent] /\ phase = [k \in Fast |-> "opening"]
  /\ changes = 0 /\ calm = TRUE
  /\ pc = "tick" /\ cycle = 0 /\ ordered \in BOOLEAN
  /\ raw = [n \in Names |-> Absent]
  /\ listed = {} /\ toScan = {} /\ unread = {}
  /\ mapped = [i \in Inodes |-> NoPid]
  /\ known = {} /\ fresh = {} /\ seeded = FALSE
  /\ tracked = [n \in Names |-> Absent]
  /\ told = [n \in Names |-> Nothing] /\ prior = [n \in Names |-> Nothing]

Owners(i) == {p \in alive : i \in fds[p]}

-----------------------------------------------------------------------------
(* The processes of the host                                               *)

Disturb ==
  /\ changes < MaxChanges
  /\ changes' = changes + 1 /\ calm' = (pc = "tick")
  /\ UNCHANGED monitor

Socket(p) ==
  /\ Disturb
  /\ p \in alive /\ made < MaxInode
  /\ made' = made + 1
  /\ fds' = [fds EXCEPT ![p] = @ \cup {made + 1}]
  /\ UNCHANGED <<alive, row, phase>>

Connect(p, i, k) ==
  /\ Disturb
  /\ p \in alive /\ i \in fds[p]
  /\ row[k] = Absent /\ \A c \in Keys : row[c] # i
  /\ row' = [row EXCEPT ![k] = i]
  /\ UNCHANGED <<alive, fds, made, phase>>

(* The handshake completes, or one side begins to close.                   *)
Progress(k) ==
  /\ Disturb
  /\ row[k] # Absent /\ phase[k] # "closing"
  /\ phase' = [phase EXCEPT ![k] = IF @ = "opening" THEN "established" ELSE "closing"]
  /\ UNCHANGED <<alive, fds, made, row>>

(* A connection whose last descriptor goes lingers without owner or goes.  *)
Released(open) ==
  LET gone == {k \in Keys : row[k] \in Inodes /\ \A p \in Pids : row[k] \notin open[p]}
  IN \E linger \in SUBSET gone :
       /\ row' = [k \in Keys |-> IF k \in linger THEN Orphan
                                 ELSE IF k \in gone THEN Absent ELSE row[k]]
       /\ phase' = [k \in Fast |-> IF k \in linger THEN "closing"
                                   ELSE IF k \in gone THEN "opening" ELSE phase[k]]

Close(p, i) ==
  /\ Disturb
  /\ p \in alive /\ i \in fds[p]
  /\ fds' = [fds EXCEPT ![p] = @ \ {i}]
  /\ Released(fds')
  /\ UNCHANGED <<alive, made>>

Fork(p, q) ==
  /\ Disturb
  /\ p \in alive /\ q \in Pids \ alive
  /\ alive' = alive \cup {q}
  /\ fds' = [fds EXCEPT ![q] = fds[p]]
  /\ UNCHANGED <<made, row, phase>>

Exit(p) ==
  /\ Disturb
  /\ p \in alive /\ alive # {p}
  /\ alive' = alive \ {p}
  /\ fds' = [fds EXCEPT ![p] = {}]
  /\ Released(fds')
  /\ UNCHANGED made

Expire(k) ==
  /\ Disturb
  /\ row[k] = Orphan
  /\ row' = [row EXCEPT ![k] = Absent]
  /\ phase' = [c \in Fast |-> IF c = k THEN "opening" ELSE phase[c]]
  /\ UNCHANGED <<alive, fds, made>>

-----------------------------------------------------------------------------
(* poll_all_connections                                                    *)

(* The dump of sock_diag: no established connection, and each under the    *)
(* name and inode that the order of the fields makes of it.                *)
Masked == {"established"}
Dumped == {k \in Fast : row[k] # Absent /\ phase[k] \notin Masked}
NameOf(k) == IF ordered THEN Own(k) ELSE <<k, phase[k]>>
DiagRows ==
  [n \in Names |->
     IF \E k \in Dumped : n = NameOf(k)
     THEN IF ordered THEN row[n[1]] ELSE Uid
     ELSE Absent]

(* /proc/net shows every connection.                                       *)
ProcRows == [n \in Names |-> IF n = Own(n[1]) THEN row[n[1]] ELSE Absent]

(* sock_diag, when its query succeeds, is believed unless it shows nothing *)
(* at all.                                                                 *)
Shown(answered) == IF answered /\ Dumped # {} THEN DiagRows ELSE ProcRows

Poll ==
  /\ pc = "tick"
  /\ \E answered \in {UseDiag, FALSE} : raw' = Shown(answered)
  /\ pc' = "list"
  /\ UNCHANGED <<os, changes, calm, cycle, ordered, listed, toScan, unread, mapped, known, fresh,
                 seeded, tracked, told, prior>>

-----------------------------------------------------------------------------
(* build_inode_pid_map                                                     *)

(* The cycle count goes up, /proc is listed, and of its pids all are to be *)
(* scanned in a full cycle and otherwise the ones not known. The loop that *)
(* prepares the first construction leaves the count at FullEvery. Without  *)
(* a listing the map stays as it is.                                       *)
ToScan(full) == IF full THEN alive ELSE alive \ known

ListPids ==
  /\ pc = "list"
  /\ cycle' = (cycle + 1) % FullEvery
  /\ \/ /\ listed' = alive /\ toScan' = ToScan(cycle' = 0)
        /\ pc' = "scan" /\ UNCHANGED unread
     \/ /\ unread' = Pids
        /\ pc' = "update" /\ UNCHANGED <<listed, toScan>>
  /\ UNCHANGED <<os, changes, calm, ordered, raw, mapped, known, fresh, seeded,
                 tracked, told, prior>>

(* Wrong on purpose: an entry is never overwritten.                        *)
ScanPid_IfUnmapped(p) ==
  /\ pc = "scan" /\ p \in toScan
  /\ toScan' = toScan \ {p}
  /\ mapped' = [i \in Inodes |-> IF i \in fds[p] /\ mapped[i] = NoPid THEN p ELSE mapped[i]]
  /\ UNCHANGED <<os, changes, calm, pc, cycle, ordered, raw, listed, unread, known,
                 fresh, seeded, tracked, told, prior>>

(* scan_pid_fds: a process gone since the listing shows nothing, nor does  *)
(* one whose directory of descriptors must not be read.                    *)
ScanPid(p) ==
  /\ pc = "scan" /\ p \in toScan
  /\ toScan' = toScan \ {p}
  /\ \/ /\ mapped' = [i \in Inodes |-> IF i \in fds[p] THEN p ELSE mapped[i]]
        /\ UNCHANGED unread
     \/ /\ fds[p] # {} /\ unread' = unread \cup {p}
        /\ UNCHANGED mapped
  /\ UNCHANGED <<os, changes, calm, pc, cycle, ordered, raw, listed, known,
                 fresh, seeded, tracked, told, prior>>

(* What dead pids held is dropped, and the listing is known from now on.   *)
EndScan ==
  /\ pc = "scan" /\ toScan = {}
  /\ mapped' = [i \in Inodes |-> IF mapped[i] \in known \ listed THEN NoPid ELSE mapped[i]]
  /\ known' = listed /\ fresh' = listed \ known
  /\ pc' = "update"
  /\ UNCHANGED <<os, changes, calm, cycle, ordered, raw, listed, toScan, unread, seeded,
                 tracked, told, prior>>

-----------------------------------------------------------------------------
(* ConnTracker::update, and the event loop over what it returns            *)

PidOf(n) == IF raw[n] \in Inodes THEN mapped[raw[n]] ELSE NoPid

(* The loop publishes an event for each result; none at the first update.  *)
Events(closed, new) ==
  /\ told' = [n \in Names |->
                IF n \in closed THEN [what |-> "close", pid |-> tracked[n]]
                ELSE IF n \in new
                THEN [what |-> IF seeded THEN "connect" ELSE "found", pid |-> PidOf(n)]
                ELSE told[n]]
  /\ prior' = [n \in Names |-> IF n \in closed \cup new THEN told[n] ELSE prior[n]]

ShownNames == {n \in Names : raw[n] # Absent}
HadNames == {n \in Names : tracked[n] # Absent}

(* What was local to the cycle goes.                                       *)
EndCycle ==
  /\ seeded' = TRUE /\ pc' = "tick"
  /\ raw' = [n \in Names |-> Absent] /\ listed' = {} /\ fresh' = {}
  /\ unread' = {} /\ calm' = TRUE
  /\ UNCHANGED <<os, changes, cycle, ordered, toScan, mapped, known>>

(* Wrong on purpose: the meta of an open connection is replaced.           *)
Update_Refresh ==
  /\ pc = "update"
  /\ tracked' = [n \in Names |-> IF raw[n] = Absent THEN Absent ELSE PidOf(n)]
  /\ Events(HadNames \ ShownNames, ShownNames \ HadNames)
  /\ EndCycle

(* The meta of a connection that stays open is the one it was found with.  *)
Update ==
  /\ pc = "update"
  /\ LET closed == HadNames \ ShownNames
         new == ShownNames \ HadNames
     IN /\ tracked' = [n \in Names |-> IF n \in new THEN PidOf(n)
                                       ELSE IF n \in closed THEN Absent ELSE tracked[n]]
        /\ Events(closed, new)
  /\ EndCycle

Next ==
  \/ \E p \in Pids : Socket(p) \/ Exit(p)
  \/ \E p \in Pids, i \in Inodes, k \in Keys : Connect(p, i, k)
  \/ \E p \in Pids, i \in Inodes : Close(p, i)
  \/ \E p, q \in Pids : Fork(p, q)
  \/ \E k \in Keys : Expire(k)
  \/ \E k \in Fast : Progress(k)
  \/ Poll \/ ListPids
  \/ \E p \in Pids : ScanPid(p)
  \/ EndScan \/ Update

Spec == Init /\ [][Next]_vars

-----------------------------------------------------------------------------
(* Properties *)

(* Types, and in every construction only listed pids are scanned.          *)
TypeOK ==
  /\ alive \subseteq Pids /\ fds \in [Pids -> SUBSET Inodes] /\ made \in 0..MaxInode
  /\ row \in [Keys -> Inodes \cup {Orphan, Absent}] /\ phase \in [Fast -> Phases]
  /\ changes \in 0..MaxChanges /\ calm \in BOOLEAN
  /\ pc \in {"tick", "list", "scan", "update"} /\ cycle \in 0..(FullEvery - 1)
  /\ ordered \in BOOLEAN /\ raw \in [Names -> Inodes \cup {Orphan, Absent, Uid}]
  /\ listed \subseteq Pids /\ toScan \subseteq listed
  /\ mapped \in [Inodes -> Pids \cup {NoPid}]
  /\ known \subseteq Pids /\ fresh \subseteq Pids /\ seeded \in BOOLEAN
  /\ tracked \in [Names -> Pids \cup {NoPid, Absent}]
  /\ unread \subseteq Pids
  /\ \A n \in Names : {told[n], prior[n]} \subseteq
       [what : {"none", "found", "connect", "close"}, pid : Pids \cup {NoPid}]

(* Connect and close events under one name alternate, beginning with a     *)
(* connect unless the connection was found at the start, and a close names *)
(* the pid its connect named, or the start found, however the map has      *)
(* changed since. What is tracked is what the events say is open: no       *)
(* connection stays unannounced, and none is closed unannounced.           *)
EventsFollowTracker ==
  \A n \in Names :
    /\ told[n].what = "close" => /\ prior[n].what \in {"found", "connect"}
                                /\ prior[n].pid = told[n].pid
    /\ told[n].what = "connect" => prior[n].what \in {"none", "close"}
    /\ told[n].what = "found" => prior[n] = Nothing
    /\ tracked[n] = IF told[n].what \in {"found", "connect"} THEN told[n].pid ELSE Absent

(* When nothing happened during the poll, a connection that is shown under *)
(* its own name and is owned by a process that was read, one new since the *)
(* last poll or any in a full cycle, is mapped to a process that has its   *)
(* socket.                                                                 *)
ScannedOwnersFound ==
  pc = "update" /\ calm =>
    \A k \in Keys :
      LET shown == raw[Own(k)]
          scanned == (IF cycle = 0 THEN alive ELSE fresh) \ unread
      IN shown \in Inodes /\ Owners(shown) \cap scanned # {} => PidOf(Own(k)) \in Owners(shown)

=============================================================================
