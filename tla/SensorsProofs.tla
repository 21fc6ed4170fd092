---------------------------- MODULE SensorsProofs ----------------------------
(***************************************************************************)
(* Theorems about the collectors, for every set of processes, files,       *)
(* connections, devices and browser rows, every window, threshold and      *)
(* limit, and whatever the machine does between two steps of a collector:  *)
(* what they announce, whom they name, and what they keep.                 *)
(***************************************************************************)
EXTENDS Sensors, TLAPS, FiniteSetTheorems, SequenceTheorems, WellFoundedInduction, NaturalsInduction

(* A construction of the map scans all it set out to scan.                 *)
TypeInv == TypeOK /\ (pc # "scan" => toScan = {})

(* The steps of the processes.                                             *)
Process ==
  \/ \E p \in Pids : Socket(p) \/ Exit(p)
  \/ \E p \in Pids, i \in Inodes, k \in Keys : Connect(p, i, k)
  \/ \E p \in Pids, i \in Inodes : Close(p, i)
  \/ \E p, q \in Pids : Fork(p, q)
  \/ \E k \in Keys : Expire(k)
  \/ \E k \in Fast : Progress(k)

(* The constants.                                                          *)
LEMMA Constants ==
  /\ Fast \subseteq Keys /\ FullEvery \in Nat \ {0} /\ MaxInode \in Nat /\ MaxChanges \in Nat
  /\ Absent \notin Inodes /\ Absent # NoPid /\ Absent # Orphan /\ Absent # Uid
  /\ NoPid \notin Pids /\ Orphan \notin Inodes /\ Absent \notin Pids
  /\ \A k \in Keys : Own(k) \in Names
BY NetworkAssumption DEF NetworkAssumption, Inodes, NoPid, Orphan, Names

(* A connection whose last descriptor goes leaves a well-typed table.      *)
LEMMA ReleasedType ==
  ASSUME TypeOK, NEW open, Released(open)
  PROVE  /\ row' \in [Keys -> Inodes \cup {Orphan, Absent}]
         /\ phase' \in [Fast -> Phases]
BY Constants DEF TypeOK, Released, Phases

(* The processes keep the types.                                           *)
LEMMA ProcessType ==
  ASSUME TypeInv, Process
  PROVE  TypeInv'
<1>0. TypeOK
  BY DEF TypeInv
<1>1. UNCHANGED monitor /\ changes' \in 0..MaxChanges /\ calm' \in BOOLEAN
  <2>1. Disturb
    BY DEF Process, Socket, Exit, Connect, Close, Fork, Expire, Progress
  <2>2. QED
    BY <1>0, <2>1, Constants DEF TypeOK, Disturb
<1> DEFINE OsTyped == /\ alive \subseteq Pids /\ fds \in [Pids -> SUBSET Inodes] /\ made \in 0..MaxInode
                      /\ row \in [Keys -> Inodes \cup {Orphan, Absent}] /\ phase \in [Fast -> Phases]
<1>2. OsTyped
  BY <1>0 DEF TypeOK
<1>3. OsTyped'
  <2>1. ASSUME NEW p \in Pids, Socket(p) PROVE OsTyped'
    <3>1. made + 1 \in Inodes /\ made' \in 0..MaxInode
      BY <1>2, <2>1, Constants DEF Socket, Inodes
    <3>2. QED
      BY <1>2, <2>1, <3>1 DEF Socket
  <2>2. ASSUME NEW p \in Pids, Exit(p) PROVE OsTyped'
    BY <1>0, <1>2, <2>2, ReleasedType DEF Exit
  <2>3. ASSUME NEW p \in Pids, NEW i \in Inodes, NEW k \in Keys, Connect(p, i, k) PROVE OsTyped'
    BY <1>2, <2>3 DEF Connect
  <2>4. ASSUME NEW p \in Pids, NEW i \in Inodes, Close(p, i) PROVE OsTyped'
    BY <1>0, <1>2, <2>4, ReleasedType DEF Close
  <2>5. ASSUME NEW p \in Pids, NEW q \in Pids, Fork(p, q) PROVE OsTyped'
    BY <1>2, <2>5 DEF Fork
  <2>6. ASSUME NEW k \in Keys, Expire(k) PROVE OsTyped'
    BY <1>2, <2>6 DEF Expire, Phases
  <2>7. ASSUME NEW k \in Fast, Progress(k) PROVE OsTyped'
    BY <1>2, <2>7 DEF Progress, Phases
  <2>8. QED
    BY <2>1, <2>2, <2>3, <2>4, <2>5, <2>6, <2>7 DEF Process
<1>4. QED
  BY <1>0, <1>1, <1>3 DEF TypeInv, TypeOK, monitor

(* A poll shows inodes, orphans or the user's number.                      *)
LEMMA PollType ==
  ASSUME TypeInv, Poll
  PROVE  TypeInv'
<1>1. row \in [Keys -> Inodes \cup {Orphan, Absent}]
  BY DEF TypeInv, TypeOK
<1>2. ASSUME NEW n \in Names PROVE n[1] \in Keys
  BY Constants DEF Names, Own
<1>3. \A n \in Names : ProcRows[n] \in Inodes \cup {Orphan, Absent, Uid}
  BY <1>1, <1>2 DEF ProcRows
<1>4. \A n \in Names : DiagRows[n] \in Inodes \cup {Orphan, Absent, Uid}
  BY <1>1, <1>2 DEF DiagRows
<1>5. DiagRows \in [Names -> Inodes \cup {Orphan, Absent, Uid}]
        /\ ProcRows \in [Names -> Inodes \cup {Orphan, Absent, Uid}]
  BY <1>3, <1>4 DEF DiagRows, ProcRows
<1>6. raw' \in [Names -> Inodes \cup {Orphan, Absent, Uid}]
  BY <1>5 DEF Poll, Shown
<1>7. QED
  BY <1>6 DEF TypeInv, TypeOK, Poll, os

(* The pid looked up for a connection is a pid or none.                    *)
LEMMA PidOfType ==
  ASSUME TypeOK, NEW n \in Names
  PROVE  PidOf(n) \in Pids \cup {NoPid} /\ PidOf(n) # Absent
BY Constants DEF TypeOK, PidOf

(* The construction of the map and the update keep the types.              *)
LEMMA MonitorType ==
  ASSUME TypeInv,
         ListPids \/ (\E p \in Pids : ScanPid(p)) \/ EndScan \/ Update
  PROVE  TypeInv'
<1>0. TypeOK
  BY DEF TypeInv
<1>1. CASE ListPids
  <2>1. cycle' \in 0..(FullEvery - 1)
    BY <1>0, <1>1, Constants DEF TypeOK, ListPids
  <2>2. toScan' \subseteq listed' /\ listed' \subseteq Pids
    BY <1>0, <1>1 DEF TypeInv, TypeOK, ListPids, ToScan
  <2>3. QED
    BY <1>0, <1>1, <2>1, <2>2 DEF TypeInv, TypeOK, ListPids, os
<1>2. ASSUME NEW p \in Pids, ScanPid(p) PROVE TypeInv'
  <2>1. mapped' \in [Inodes -> Pids \cup {NoPid}]
    BY <1>0, <1>2 DEF TypeOK, ScanPid
  <2>2. QED
    BY <1>0, <1>2, <2>1 DEF TypeInv, TypeOK, ScanPid, os
<1>3. CASE EndScan
  <2>1. mapped' \in [Inodes -> Pids \cup {NoPid}]
    BY <1>0, <1>3 DEF TypeOK, EndScan
  <2>2. QED
    BY <1>0, <1>3, <2>1 DEF TypeInv, TypeOK, EndScan, os
<1>4. CASE Update
  <2>1. \A n \in Names : PidOf(n) \in Pids \cup {NoPid}
    BY <1>0, PidOfType
  <2>2. tracked' \in [Names -> Pids \cup {NoPid, Absent}]
    BY <1>0, <1>4, <2>1 DEF TypeOK, Update
  <2>3. \A n \in Names : {told'[n], prior'[n]} \subseteq
          [what : {"none", "found", "connect", "close"}, pid : Pids \cup {NoPid}]
    <3>1. \A n \in HadNames : tracked[n] \in Pids \cup {NoPid}
      BY <1>0 DEF TypeOK, HadNames
    <3>2. Events(HadNames \ ShownNames, ShownNames \ HadNames)
      BY <1>4 DEF Update
    <3>3. QED
      BY <1>0, <2>1, <3>1, <3>2 DEF TypeOK, Events
  <2>4. raw' \in [Names -> Inodes \cup {Orphan, Absent, Uid}]
    BY <1>4 DEF Update, EndCycle
  <2>5. toScan = {}
    BY <1>4 DEF TypeInv, Update
  <2>6. QED
    BY <1>0, <1>4, <2>2, <2>3, <2>4, <2>5 DEF TypeInv, TypeOK, Update, EndCycle, os
<1>5. QED
  BY <1>1, <1>2, <1>3, <1>4

(* Every step keeps the types.                                             *)
LEMMA TypeNext == TypeInv /\ [Next]_vars => TypeInv'
<1> SUFFICES ASSUME TypeInv, [Next]_vars PROVE TypeInv'
  OBVIOUS
<1>1. CASE Process
  BY <1>1, ProcessType
<1>2. CASE Poll
  BY <1>2, PollType
<1>3. CASE ListPids \/ (\E p \in Pids : ScanPid(p)) \/ EndScan \/ Update
  BY <1>3, MonitorType
<1>4. CASE UNCHANGED vars
  BY <1>4 DEF TypeInv, TypeOK, vars, os
<1>5. QED
  BY <1>1, <1>2, <1>3, <1>4 DEF Next, Process

(* The collector starts well typed.                                        *)
LEMMA TypeInit == Init => TypeInv
<1> SUFFICES ASSUME Init PROVE TypeInv
  OBVIOUS
<1>1. Nothing \in [what : {"none", "found", "connect", "close"}, pid : Pids \cup {NoPid}]
  BY DEF Nothing
<1>2. 0 \in 0..MaxInode /\ 0 \in 0..MaxChanges /\ 0 \in 0..(FullEvery - 1)
  BY Constants
<1>3. QED
  BY <1>1, <1>2 DEF Init, TypeInv, TypeOK, Phases

(* The types of the collector's state, and that a construction scans only  *)
(* pids of its listing, src/collectors/src/network/mod.rs.   *)
THEOREM TypeCorrect == Spec => []TypeOK
<1>1. TypeInv => TypeOK
  BY DEF TypeInv
<1>2. QED
  BY TypeInit, TypeNext, <1>1, PTL DEF Spec

-----------------------------------------------------------------------------
(* Events *)

(* Before the first update is through nothing has been told.               *)
EventInv ==
  /\ TypeInv
  /\ EventsFollowTracker
  /\ ~seeded => \A n \in Names : told[n] = Nothing

(* ConnTracker::update: the meta of a connection that stays is the one its *)
(* event named; only what is untracked is announced, only what is tracked  *)
(* is closed.                                                              *)
LEMMA UpdateEvents ==
  ASSUME EventInv, Update
  PROVE  EventsFollowTracker'
<1> DEFINE closed == HadNames \ ShownNames
           new == ShownNames \ HadNames
<1>0. TypeOK /\ EventsFollowTracker
  BY DEF EventInv, TypeInv
<1>1. /\ tracked' = [n \in Names |-> IF n \in new THEN PidOf(n)
                                     ELSE IF n \in closed THEN Absent ELSE tracked[n]]
      /\ Events(closed, new)
  BY DEF Update
<1> DEFINE Right(e, f, t) ==
             /\ e.what = "close" => f.what \in {"found", "connect"} /\ f.pid = e.pid
             /\ e.what = "connect" => f.what \in {"none", "close"}
             /\ e.what = "found" => f = Nothing
             /\ t = IF e.what \in {"found", "connect"} THEN e.pid ELSE Absent
<1> SUFFICES ASSUME NEW n \in Names
             PROVE  Right(told'[n], prior'[n], tracked'[n])
  BY DEF EventsFollowTracker
<1>2. Right(told[n], prior[n], tracked[n])
  BY <1>0 DEF EventsFollowTracker
<1>7. /\ told[n].what \in {"none", "found", "connect", "close"}
      /\ told[n].pid # Absent
  BY <1>0, Constants DEF TypeOK
<1>3. CASE n \in new
  <2>1. tracked'[n] = PidOf(n) /\ PidOf(n) # Absent
    BY <1>0, <1>1, <1>3, PidOfType
  <2>2. told[n].what \in {"none", "close"} /\ prior'[n] = told[n]
    BY <1>1, <1>2, <1>3, <1>7 DEF Events, HadNames
  <2>3. CASE seeded
    <3>1. told'[n] = [what |-> "connect", pid |-> PidOf(n)]
      BY <1>1, <1>3, <2>3 DEF Events, HadNames, ShownNames
    <3>2. QED
      BY <2>1, <2>2, <3>1
  <2>4. CASE ~seeded
    <3>1. told'[n] = [what |-> "found", pid |-> PidOf(n)] /\ told[n] = Nothing
      BY <1>1, <1>3, <2>4 DEF Events, EventInv, HadNames, ShownNames
    <3>2. QED
      BY <2>1, <2>2, <3>1
  <2>5. QED
    BY <2>3, <2>4
<1>4. CASE n \in closed
  <2>1. /\ tracked[n] # Absent /\ tracked'[n] = Absent /\ prior'[n] = told[n]
        /\ told'[n] = [what |-> "close", pid |-> tracked[n]]
    BY <1>1, <1>4 DEF Events, HadNames, ShownNames
  <2>2. told[n].what \in {"found", "connect"} /\ told[n].pid = tracked[n]
    BY <1>2, <2>1
  <2>3. QED
    BY <2>1, <2>2
<1>5. CASE n \notin new /\ n \notin closed
  <2>1. told'[n] = told[n] /\ prior'[n] = prior[n] /\ tracked'[n] = tracked[n]
    BY <1>1, <1>5 DEF Events
  <2>2. QED
    BY <1>2, <2>1
<1>6. QED
  BY <1>3, <1>4, <1>5

(* Only the update tells anything.                                         *)
LEMMA EventNext == EventInv /\ [Next]_vars => EventInv'
<1> SUFFICES ASSUME EventInv, [Next]_vars PROVE EventInv'
  OBVIOUS
<1>0. TypeInv'
  BY TypeNext DEF EventInv
<1>1. CASE Update
  BY <1>0, <1>1, UpdateEvents DEF EventInv, Update, EndCycle
<1>2. CASE ~Update
  <2>1. UNCHANGED <<seeded, tracked, told, prior>>
    <3>1. CASE Process
      BY <3>1 DEF Process, Socket, Exit, Connect, Close, Fork, Expire, Progress, Disturb, monitor
    <3>2. CASE Poll \/ ListPids \/ (\E p \in Pids : ScanPid(p)) \/ EndScan \/ UNCHANGED vars
      BY <3>2 DEF Poll, ListPids, ScanPid, EndScan, vars
    <3>3. QED
      BY <1>2, <3>1, <3>2 DEF Next, Process
  <2>2. QED
    BY <1>0, <2>1 DEF EventInv, EventsFollowTracker
<1>3. QED
  BY <1>1, <1>2

(* Under every name connects and closes alternate, a close names the pid   *)
(* of its connect, or the one the connection was found with at the start,  *)
(* and what is tracked is what was announced or found and not yet closed,  *)
(* although the map from inodes to pids is rebuilt in between and readings *)
(* fail: ConnTracker::update, src/collectors/src/network/conn_tracker.rs.  *)
THEOREM EventsCorrect == Spec => []EventsFollowTracker
<1>1. Init => EventInv
  <2> SUFFICES ASSUME Init PROVE EventInv
    OBVIOUS
  <2>1. TypeInv
    BY TypeInit
  <2>2. EventsFollowTracker
    BY DEF Init, EventsFollowTracker, Nothing
  <2>3. QED
    BY <2>1, <2>2 DEF Init, EventInv
<1>2. EventInv => EventsFollowTracker
  BY DEF EventInv
<1>3. QED
  BY <1>1, <1>2, EventNext, PTL DEF Spec

-----------------------------------------------------------------------------
(* The map from inodes to pids *)

(* While nothing disturbs the poll, what has been scanned so far points to *)
(* an owner; the scan of another process may only replace one owner by     *)
(* another, and what EndScan drops is held by the dead.                    *)
ScanSound ==
  pc = "scan" /\ calm =>
    /\ listed = alive
    /\ \A p \in ToScan(cycle = 0) \ (toScan \cup unread) : \A i \in Inodes :
         i \in fds[p] => mapped[i] \in Owners(i)

MapSound ==
  pc = "update" /\ calm =>
    \A i \in Inodes :
      Owners(i) \cap ((IF cycle = 0 THEN alive ELSE fresh) \ unread) # {} => mapped[i] \in Owners(i)

MapInv == TypeInv /\ ScanSound /\ MapSound

(* Every step keeps the map sound, as far as the poll is calm.             *)
LEMMA MapNext == MapInv /\ [Next]_vars => MapInv'
<1> SUFFICES ASSUME MapInv, [Next]_vars PROVE MapInv'
  OBVIOUS
<1>0. TypeInv /\ TypeOK /\ TypeInv' /\ ScanSound /\ MapSound
  BY TypeNext DEF MapInv, TypeInv
<1>1. CASE Process
  <2>1. pc' = pc /\ calm' = (pc = "tick")
    BY <1>1 DEF Process, Socket, Exit, Connect, Close, Fork, Expire, Progress, Disturb, monitor
  <2>2. ScanSound' /\ MapSound'
    BY <2>1 DEF ScanSound, MapSound
  <2>3. QED
    BY <1>0, <2>2 DEF MapInv
<1>2. CASE Poll \/ Update
  BY <1>0, <1>2 DEF Poll, Update, EndCycle, MapInv, ScanSound, MapSound
<1>3. CASE ListPids
  <2>1. \/ pc' = "scan" /\ listed' = alive /\ toScan' = ToScan(cycle' = 0) /\ unread' = unread
        \/ pc' = "update" /\ unread' = Pids
    BY <1>3 DEF ListPids
  <2>2. UNCHANGED <<alive, known, fds>>
    BY <1>3 DEF ListPids, os
  <2>3. \A i : Owners(i)' \subseteq Pids
    BY <1>0, <2>2 DEF Owners, TypeOK
  <2>4. ScanSound'
    BY <2>1, <2>2 DEF ScanSound, ToScan
  <2>5. MapSound'
    BY <2>1, <2>3 DEF MapSound
  <2>6. QED
    BY <1>0, <2>4, <2>5 DEF MapInv
<1>4. ASSUME NEW q \in Pids, ScanPid(q) PROVE MapInv'
  <2>1. /\ pc = "scan" /\ q \in toScan /\ UNCHANGED <<pc, calm, cycle, listed, alive, fds, known>>
        /\ toScan' = toScan \ {q}
        /\ \/ /\ mapped' = [i \in Inodes |-> IF i \in fds[q] THEN q ELSE mapped[i]]
              /\ unread' = unread
           \/ mapped' = mapped /\ unread' = unread \cup {q}
    BY <1>4 DEF ScanPid, os
  <2>2. ScanSound'
    <3> SUFFICES ASSUME calm,
                        NEW p \in ToScan(cycle = 0) \ (toScan' \cup unread'),
                        NEW i \in Inodes, i \in fds[p]
                 PROVE  mapped'[i] \in Owners(i)
      BY <1>0, <2>1 DEF ScanSound, ToScan, Owners
    <3>1. q \in alive
      BY <1>0, <2>1 DEF ScanSound, TypeOK
    <3>2. p \notin unread /\ (p = q \/ p \notin toScan)
      BY <2>1
    <3>3. CASE mapped' = mapped /\ unread' = unread \cup {q}
      <4>1. p \notin toScan
        BY <3>2, <3>3
      <4>2. QED
        BY <1>0, <2>1, <3>2, <3>3, <4>1 DEF ScanSound
    <3>4. CASE mapped' = [j \in Inodes |-> IF j \in fds[q] THEN q ELSE mapped[j]] /\ i \in fds[q]
      BY <3>1, <3>4 DEF Owners
    <3>5. CASE mapped' = [j \in Inodes |-> IF j \in fds[q] THEN q ELSE mapped[j]] /\ i \notin fds[q]
      <4>1. p \notin toScan
        BY <3>2, <3>5
      <4>2. mapped[i] \in Owners(i)
        BY <1>0, <2>1, <3>2, <4>1 DEF ScanSound
      <4>3. QED
        BY <3>5, <4>2
    <3>6. QED
      BY <2>1, <3>3, <3>4, <3>5
  <2>3. MapSound'
    BY <2>1 DEF MapSound
  <2>4. QED
    BY <1>0, <2>2, <2>3 DEF MapInv
<1>5. CASE EndScan
  <2>1. /\ pc = "scan" /\ pc' = "update" /\ toScan = {}
        /\ UNCHANGED <<calm, cycle, alive, fds, unread>>
        /\ mapped' = [i \in Inodes |-> IF mapped[i] \in known \ listed THEN NoPid ELSE mapped[i]]
        /\ fresh' = listed \ known
    BY <1>5 DEF EndScan, os
  <2>2. MapSound'
    <3> SUFFICES ASSUME calm, NEW i \in Inodes,
                        Owners(i) \cap ((IF cycle = 0 THEN alive ELSE listed \ known) \ unread) # {}
                 PROVE  mapped'[i] \in Owners(i)
      BY <2>1 DEF MapSound, Owners
    <3>1. listed = alive
      BY <1>0, <2>1 DEF ScanSound
    <3>2. PICK p \in ToScan(cycle = 0) \ (toScan \cup unread) : i \in fds[p]
      BY <2>1, <3>1 DEF Owners, ToScan
    <3>3. mapped[i] \in Owners(i)
      BY <1>0, <2>1, <3>2 DEF ScanSound
    <3>4. mapped[i] \notin known \ listed
      BY <3>1, <3>3 DEF Owners
    <3>5. QED
      BY <2>1, <3>3, <3>4
  <2>3. ScanSound'
    BY <2>1 DEF ScanSound
  <2>4. QED
    BY <1>0, <2>2, <2>3 DEF MapInv
<1>6. CASE UNCHANGED vars
  BY <1>0, <1>6 DEF MapInv, ScanSound, MapSound, ToScan, Owners, vars, os
<1>7. QED
  BY <1>1, <1>2, <1>3, <1>4, <1>5, <1>6 DEF Next, Process

(* A poll that nothing disturbs names a process that has the socket, for   *)
(* every connection of a new process and, in a full cycle, of any, if its  *)
(* descriptors could be read: build_inode_pid_map,                         *)
(* src/collectors/src/network/mod.rs.                                      *)
THEOREM OwnersCorrect == Spec => []ScannedOwnersFound
<1>1. Init => MapInv
  BY TypeInit DEF Init, MapInv, ScanSound, MapSound
<1>2. MapInv => ScannedOwnersFound
  BY DEF MapInv, MapSound, ScannedOwnersFound, PidOf
<1>3. QED
  BY <1>1, <1>2, MapNext, PTL DEF Spec

-----------------------------------------------------------------------------
(* The sensors side by side                                                *)

(* A step of the whole is a step of one component; the others rest.        *)
LEMMA PartSteps ==
  [AllNext]_allVars =>
    /\ [Next]_vars /\ [Proc!Next]_(Proc!vars) /\ [File!Next]_(File!vars)
    /\ [Loop!Next]_(Loop!vars) /\ [Scan!Next]_(Scan!vars) /\ [Host!Next]_(Host!vars)
<1> SUFFICES ASSUME [AllNext]_allVars
             PROVE  /\ [Next]_vars /\ [Proc!Next]_(Proc!vars) /\ [File!Next]_(File!vars)
                    /\ [Loop!Next]_(Loop!vars) /\ [Scan!Next]_(Scan!vars) /\ [Host!Next]_(Host!vars)
  OBVIOUS
<1>1. [Next]_vars
  BY DEF AllNext, allVars, netVars
<1>2. [Proc!Next]_(Proc!vars)
  BY DEF AllNext, allVars, procVars, Proc!vars, Proc!procVars, Proc!pollVars, Proc!scanVars
<1>3. [File!Next]_(File!vars)
  BY DEF AllNext, allVars, fileVars, File!vars
<1>4. [Loop!Next]_(Loop!vars)
  BY DEF AllNext, allVars, loopVars, Loop!vars
<1>5. [Scan!Next]_(Scan!vars)
  BY DEF AllNext, allVars, scanVars, Scan!vars
<1>6. [Host!Next]_(Host!vars)
  BY DEF AllNext, allVars, pollVars, Host!vars, Host!host, Host!usbVars, Host!registryVars
<1>7. QED
  BY <1>1, <1>2, <1>3, <1>4, <1>5, <1>6

-----------------------------------------------------------------------------
(* The file poller                                                         *)

FileInv ==
  /\ fileKnown \in [PolledFiles -> Versions \cup {Absent}]
  /\ last \in [PolledFiles -> {"none", "create", "modify", "delete"}]
  /\ KnownMatchesEvents

(* The steps that publish: a file found new or changed, files found gone.  *)
LEMMA FileMoves ==
  ASSUME FileInv, fs \in [PolledFiles -> Versions \cup {Absent}],
         (\E f \in PolledFiles : File!Inspect(f)) \/ File!Sweep
  PROVE  FileInv'
<1>1. ASSUME NEW f \in PolledFiles, File!Inspect(f) PROVE FileInv'
  BY <1>1 DEF FileInv, KnownMatchesEvents, File!KnownMatchesEvents, File!Inspect
<1>2. ASSUME NEW left,
             fileKnown' = [f \in PolledFiles |-> IF f \in left THEN Absent ELSE fileKnown[f]],
             last' = [f \in PolledFiles |-> IF f \in left THEN "delete" ELSE last[f]]
      PROVE  FileInv'
  BY <1>2 DEF FileInv, KnownMatchesEvents, File!KnownMatchesEvents
<1>3. QED
  BY <1>1, <1>2 DEF File!Sweep

(* The poller's invariant.                                                 *)
LEMMA FileAlways == AllSpec => [](FileInv /\ fs \in [PolledFiles -> Versions \cup {Absent}])
<1> DEFINE OnDisk == fs \in [PolledFiles -> Versions \cup {Absent}]
<1>1. AllInit => FileInv /\ OnDisk
  <2>1. Absent \notin Versions
    BY SensorsAssumption DEF File!PollerAssumption
  <2>2. QED
    BY <2>1 DEF AllInit, File!Init, FileInv, KnownMatchesEvents, File!KnownMatchesEvents
<1>2. FileInv /\ OnDisk /\ [AllNext]_allVars => (FileInv /\ OnDisk)'
  <2> SUFFICES ASSUME FileInv, OnDisk, [File!Next]_(File!vars) PROVE FileInv' /\ OnDisk'
    BY PartSteps
  <2>1. OnDisk'
    BY DEF File!Next, File!vars, File!Change, File!Tick, File!NextDir, File!SkipDir, File!Inspect,
           File!Sweep
  <2>2. ASSUME UNCHANGED <<fileKnown, last>> PROVE FileInv'
    BY <2>2 DEF FileInv, KnownMatchesEvents, File!KnownMatchesEvents
  <2>3. QED
    BY <2>1, <2>2, FileMoves DEF File!Next, File!vars, File!Change, File!Tick, File!NextDir, File!SkipDir
<1>3. QED
  BY <1>1, <1>2, PTL DEF AllSpec

(* A file is known exactly when the last event about it is a creation or a *)
(* modification, whatever the directories go through between two passes    *)
(* and whichever listings fail: run_polling_loop and scan_dir,             *)
(* src/collectors/src/file/mod.rs.                                         *)
THEOREM KnownCorrect == AllSpec => []KnownMatchesEvents
<1>1. FileInv => KnownMatchesEvents
  BY DEF FileInv
<1>2. QED
  BY <1>1, FileAlways, PTL

-----------------------------------------------------------------------------
(* The pollers of the host                                                 *)

Entry == [state : {"running", "restarting"}, produced : Nat]

HostTyped ==
  /\ plugged \subseteq Devices /\ files \subseteq Services
  /\ busy \in [Host!Tasks -> BOOLEAN]
  /\ usbFresh \subseteq Devices
  /\ gone \subseteq Host!UsbKeys /\ usbScanned \subseteq Host!UsbKeys /\ usbKnown \subseteq Host!UsbKeys
  /\ unitsListed \subseteq Services
  /\ lastSaid \in [Host!UsbKeys -> {None, "connect", "disconnect"}]
  /\ unitsTold \in [Services -> Nat]
  /\ sent \in [Host!Tasks -> Nat] /\ uncounted \in [Host!Tasks -> Nat]
  /\ entry \in [Host!Tasks -> Entry \cup {None}]

(* A task that has something to publish or to count is registered and busy. *)
Quiet == \A t \in Host!Tasks : /\ entry[t] = None => ~busy[t] /\ sent[t] = 0
                               /\ ~busy[t] => uncounted[t] = 0
Registered ==
  /\ Quiet
  /\ ~busy["usb"] => usbFresh = {} /\ gone = {}
  /\ ~busy["registry"] => unitsListed = {}
  /\ ~busy["startup"] => entriesLeft = {}

(* Of a scan under way: what the last event about a key says, given what   *)
(* was known, what was seen, and what is still to be published.            *)
Pending(k) == k \in usbKnown /\ k \notin usbScanned /\ k \in gone
Arriving(k) == k \in usbScanned /\ k \notin usbKnown /\ \E d \in usbFresh : KeyOf[d] = k
Scanning ==
  /\ \A d \in usbFresh : KeyOf[d] \in Host!UsbKeys /\ KeyOf[d] \in usbScanned \ usbKnown
  /\ gone \subseteq usbKnown \ usbScanned
  /\ \A k \in Host!UsbKeys :
       /\ lastSaid[k] = "connect" => k \in usbScanned \/ Pending(k)
       /\ k \in usbScanned => lastSaid[k] = "connect" \/ Arriving(k)
       /\ Pending(k) => lastSaid[k] = "connect"

UsbInv == /\ ~busy["usb"] => \A k \in Host!UsbKeys : k \in usbKnown <=> lastSaid[k] = "connect"
          /\ busy["usb"] => Scanning

UnitsInv == \A f \in Services : unitsTold[f] = (IF f \in reported THEN 1 ELSE 0)

(* What a task has handed over is counted, but for what is left to count.  *)
Produced(t) == (IF t = "startup" THEN 2 * sent[t] ELSE sent[t]) - uncounted[t]
CountInv == \A t \in Host!Tasks :
  /\ entry[t] # None => entry[t].produced = Produced(t)
  /\ uncounted[t] <= (IF t = "startup" THEN 2 ELSE 1)

HostInv == HostTyped /\ Registered /\ UsbInv /\ UnitsInv /\ CountInv

(* The constants.                                                          *)
LEMMA HostConstants ==
  /\ None \notin {"connect", "disconnect"} /\ None \notin Entry /\ MaxSent \in Nat
  /\ {"usb", "registry", "startup"} = Host!Tasks
BY SensorsAssumption DEF Host!PollerAssumption, Host!Tasks, Entry

(* One more event of a registered task is handed over.                     *)
LEMMA HandsOver ==
  ASSUME HostInv, NEW t \in Host!Tasks, busy[t], Host!Sent(t), UNCHANGED <<busy, entry>>
  PROVE  /\ sent' \in [Host!Tasks -> Nat] /\ uncounted' \in [Host!Tasks -> Nat]
         /\ Quiet' /\ CountInv'
<1>1. /\ sent \in [Host!Tasks -> Nat] /\ uncounted \in [Host!Tasks -> Nat]
      /\ Quiet /\ CountInv
  BY DEF HostInv, HostTyped, Registered
<1>2. /\ uncounted[t] = 0 /\ uncounted' = [uncounted EXCEPT ![t] = Host!Due(t)]
      /\ sent' = [sent EXCEPT ![t] = @ + 1]
  BY DEF Host!Sent
<1>3. Host!Due(t) = (IF t = "startup" THEN 2 ELSE 1)
  BY DEF Host!Due
<1>4. /\ uncounted'[t] = (IF t = "startup" THEN 2 ELSE 1) /\ sent'[t] = sent[t] + 1
      /\ \A u \in Host!Tasks \ {t} : uncounted'[u] = uncounted[u] /\ sent'[u] = sent[u]
  BY <1>1, <1>2, <1>3
<1>5. sent' \in [Host!Tasks -> Nat] /\ uncounted' \in [Host!Tasks -> Nat]
  BY <1>1, <1>2, <1>3
<1>6. Quiet'
  BY <1>1, <1>4 DEF Quiet
<1>7. CountInv'
  <2> SUFFICES ASSUME NEW u \in Host!Tasks
               PROVE  /\ entry[u] # None => entry[u].produced = Produced(u)'
                      /\ uncounted'[u] <= (IF u = "startup" THEN 2 ELSE 1)
    BY DEF CountInv
  <2>1. CASE u = t
    BY <1>1, <1>2, <1>4, <2>1 DEF CountInv, Produced
  <2>2. CASE u # t
    BY <1>1, <1>4, <2>2 DEF CountInv, Produced
  <2>3. QED
    BY <2>1, <2>2
<1>8. QED
  BY <1>5, <1>6, <1>7

(* An event is counted once publish() has returned.                        *)
LEMMA CountKeeps ==
  ASSUME HostInv, NEW t \in Host!Tasks, Host!Count(t)
  PROVE  HostInv'
<1>1. /\ sent \in [Host!Tasks -> Nat] /\ uncounted \in [Host!Tasks -> Nat]
      /\ entry \in [Host!Tasks -> Entry \cup {None}] /\ Registered /\ Quiet /\ CountInv
  BY DEF HostInv, HostTyped, Registered
<1>2. /\ UNCHANGED <<plugged, files, busy, usbFresh, gone, usbScanned, usbKnown, lastSaid,
                     unitsListed, reported, unitsTold, entriesLeft, sent>>
      /\ uncounted[t] > 0 /\ uncounted' = [uncounted EXCEPT ![t] = @ - 1]
      /\ entry' = Host!Counted(entry, t, 1)
  BY DEF Host!Count, Host!host, Host!usbVars, Host!registryVars
<1>3. busy[t] /\ entry[t] # None /\ entry[t] \in Entry
  BY <1>1, <1>2 DEF Quiet
<1>4. entry' = [entry EXCEPT ![t].produced = @ + 1]
  BY <1>2, <1>3 DEF Host!Counted
<1>5. /\ entry'[t] = [entry[t] EXCEPT !.produced = @ + 1]
      /\ \A u \in Host!Tasks \ {t} : entry'[u] = entry[u]
  BY <1>1, <1>4
<1>6. entry'[t] \in Entry /\ entry'[t].produced = entry[t].produced + 1 /\ entry'[t] # None
  BY <1>3, <1>5, HostConstants DEF Entry
<1>7. /\ uncounted'[t] = uncounted[t] - 1 /\ uncounted'[t] \in Nat
      /\ \A u \in Host!Tasks \ {t} : uncounted'[u] = uncounted[u]
  BY <1>1, <1>2
<1>8. HostTyped'
  <2>1. entry' \in [Host!Tasks -> Entry \cup {None}]
    BY <1>1, <1>4, <1>5, <1>6
  <2>2. uncounted' \in [Host!Tasks -> Nat]
    BY <1>1, <1>2, <1>7
  <2>3. QED
    BY <1>2, <2>1, <2>2 DEF HostInv, HostTyped
<1>9. Registered'
  BY <1>1, <1>2, <1>3, <1>5, <1>6, <1>7 DEF Registered, Quiet
<1>10. CountInv'
  <2> SUFFICES ASSUME NEW u \in Host!Tasks
               PROVE  /\ entry'[u] # None => entry'[u].produced = Produced(u)'
                      /\ uncounted'[u] <= (IF u = "startup" THEN 2 ELSE 1)
    BY DEF CountInv
  <2>1. CASE u = t
    <3>1. entry[t].produced = Produced(t) /\ uncounted[t] <= (IF t = "startup" THEN 2 ELSE 1)
      BY <1>1, <1>3 DEF CountInv
    <3>2. sent[t] \in Nat /\ uncounted[t] \in Nat /\ sent'[t] = sent[t]
      BY <1>1, <1>2
    <3>3. QED
      BY <1>6, <1>7, <2>1, <3>1, <3>2 DEF Produced
  <2>2. CASE u # t
    BY <1>1, <1>2, <1>5, <1>7, <2>2 DEF CountInv, Produced
  <2>3. QED
    BY <2>1, <2>2
<1>11. UsbInv' /\ UnitsInv'
  BY <1>2 DEF HostInv, UsbInv, UnitsInv, Scanning, Pending, Arriving
<1>12. QED
  BY <1>8, <1>9, <1>10, <1>11 DEF HostInv

(* A task registers, or a client asks for a restart: the count stays.      *)
LEMMA EntryKeeps ==
  ASSUME HostInv, NEW t \in Host!Tasks, Host!Register(t) \/ Host!restart_collector(t)
  PROVE  HostInv'
<1>1. /\ entry \in [Host!Tasks -> Entry \cup {None}] /\ sent \in [Host!Tasks -> Nat]
      /\ uncounted \in [Host!Tasks -> Nat] /\ Quiet
  BY DEF HostInv, HostTyped, Registered
<1>2. UNCHANGED <<plugged, files, busy, usbFresh, gone, usbScanned, usbKnown, lastSaid,
                  unitsListed, reported, unitsTold, entriesLeft, sent, uncounted>>
  BY DEF Host!Register, Host!restart_collector, Host!host, Host!usbVars, Host!registryVars
<1>3. /\ DOMAIN entry' = Host!Tasks
      /\ \A u \in Host!Tasks \ {t} : entry'[u] = entry[u]
      /\ entry'[t] \in Entry /\ entry'[t].produced = Produced(t)
  <2>1. CASE Host!Register(t)
    <3>1. /\ entry'[t] = [state |-> "running", produced |-> 0]
          /\ sent[t] = 0 /\ uncounted[t] = 0
      BY <1>1, <2>1 DEF Host!Register, Host!Registered, Quiet
    <3>2. QED
      BY <1>1, <2>1, <3>1 DEF Host!Register, Host!Registered, Entry, Produced
  <2>2. CASE Host!restart_collector(t)
    <3>1. entry[t] \in Entry /\ entry[t].produced = Produced(t)
      BY <1>1, <2>2 DEF Host!restart_collector, HostInv, CountInv
    <3>2. entry' = [entry EXCEPT ![t].state = "restarting"]
      BY <2>2 DEF Host!restart_collector, Host!WithState
    <3>3. /\ DOMAIN entry' = Host!Tasks /\ entry'[t] = [entry[t] EXCEPT !.state = "restarting"]
          /\ \A u \in Host!Tasks \ {t} : entry'[u] = entry[u]
      BY <1>1, <3>2
    <3>4. QED
      BY <3>1, <3>3 DEF Entry
  <2>3. QED
    BY <2>1, <2>2
<1>4. entry'[t] # None
  BY <1>3, HostConstants
<1>5. HostTyped'
  <2>1. entry' \in [Host!Tasks -> Entry \cup {None}]
    <3>1. \A u \in Host!Tasks : entry'[u] \in Entry \cup {None}
      BY <1>1, <1>3
    <3>2. entry' = [u \in Host!Tasks |-> entry'[u]]
      BY <1>1, <1>3 DEF Host!Register, Host!restart_collector, Host!Registered, Host!WithState
    <3>3. QED
      BY <3>1, <3>2
  <2>2. QED
    BY <1>2, <2>1 DEF HostInv, HostTyped
<1>6. Registered'
  BY <1>1, <1>2, <1>3, <1>4 DEF HostInv, Registered, Quiet
<1>7. UsbInv' /\ UnitsInv'
  BY <1>2 DEF HostInv, UsbInv, UnitsInv, Scanning, Pending, Arriving
<1>8. CountInv'
  BY <1>2, <1>3 DEF HostInv, CountInv, Produced
<1>9. QED
  BY <1>5, <1>6, <1>7, <1>8 DEF HostInv

(* A scan of the devices finds out what is new and what is gone.           *)
LEMMA ScanUsbKeeps ==
  ASSUME HostInv, Host!ScanUsb
  PROVE  HostInv'
<1>1. /\ busy' = [busy EXCEPT !["usb"] = TRUE] /\ entry["usb"] # None /\ ~busy["usb"]
      /\ usbScanned' = {KeyOf[d] : d \in Host!Seen}
      /\ usbFresh' = {d \in Host!Seen : KeyOf[d] \notin usbKnown}
      /\ gone' = usbKnown \ usbScanned'
      /\ UNCHANGED <<plugged, files, usbKnown, lastSaid, unitsListed, reported, unitsTold,
                     entriesLeft, entry, sent, uncounted>>
  BY DEF Host!ScanUsb, Host!Ready, Host!host, Host!registryVars
<1>2. /\ busy \in [Host!Tasks -> BOOLEAN] /\ plugged \subseteq Devices /\ "usb" \in Host!Tasks
      /\ \A k \in Host!UsbKeys : k \in usbKnown <=> lastSaid[k] = "connect"
  BY <1>1, HostConstants DEF HostInv, HostTyped, UsbInv
<1>3. /\ busy' \in [Host!Tasks -> BOOLEAN] /\ busy'["usb"]
      /\ \A t \in Host!Tasks \ {"usb"} : busy'[t] = busy[t]
  BY <1>1, <1>2
<1>4. Host!Seen \subseteq Devices /\ \A d \in Host!Seen : KeyOf[d] \in Host!UsbKeys
  BY <1>2 DEF Host!Seen, Host!UsbKeys
<1>5. UsbInv'
  <2>1. \A d \in usbFresh' : KeyOf[d] \in Host!UsbKeys /\ KeyOf[d] \in usbScanned' \ usbKnown
    BY <1>1, <1>4
  <2>2. \A k \in usbScanned' : k \in usbKnown \/ \E d \in usbFresh' : KeyOf[d] = k
    BY <1>1
  <2>3. Scanning'
    BY <1>1, <1>2, <2>1, <2>2 DEF Scanning, Pending, Arriving
  <2>4. QED
    BY <1>3, <2>3 DEF UsbInv
<1>6. HostTyped'
  <2>1. gone' \subseteq Host!UsbKeys
    <3>1. usbKnown \subseteq Host!UsbKeys
      BY DEF HostInv, HostTyped
    <3>2. QED
      BY <1>1, <3>1
  <2>2. usbKnown' \subseteq Host!UsbKeys
    BY <1>1 DEF HostInv, HostTyped
  <2>3. usbScanned' \subseteq Host!UsbKeys
    BY <1>1, <1>4
  <2>4. QED
    BY <1>1, <1>3, <1>4, <2>1, <2>2, <2>3 DEF HostInv, HostTyped
<1>7. Registered'
  BY <1>1, <1>3, HostConstants DEF HostInv, Registered, Quiet
<1>8. UnitsInv' /\ CountInv'
  BY <1>1 DEF HostInv, UnitsInv, CountInv, Produced
<1>9. QED
  BY <1>5, <1>6, <1>7, <1>8 DEF HostInv

(* One of its events is published.                                         *)
LEMMA UsbTold ==
  ASSUME HostInv, (\E d \in Devices : Host!Connect(d)) \/ (\E k \in Host!UsbKeys : Host!Disconnect(k))
  PROVE  HostInv'
<1>0. "usb" \in Host!Tasks
  BY HostConstants
<1>1. /\ UNCHANGED <<plugged, files, busy, usbScanned, usbKnown, unitsListed, reported, unitsTold,
                     entriesLeft, entry>>
      /\ Host!Sent("usb")
      /\ usbFresh # {} \/ gone # {}
  BY DEF Host!Connect, Host!Disconnect, Host!host, Host!registryVars
<1>2. busy["usb"] /\ Scanning
  BY <1>1 DEF HostInv, Registered, UsbInv
<1>3. /\ sent' \in [Host!Tasks -> Nat] /\ uncounted' \in [Host!Tasks -> Nat]
      /\ Quiet' /\ CountInv'
  BY <1>0, <1>1, <1>2, HandsOver
<1>4. lastSaid \in [Host!UsbKeys -> {None, "connect", "disconnect"}]
  BY DEF HostInv, HostTyped
<1>5. /\ usbFresh' \subseteq usbFresh /\ gone' \subseteq gone
      /\ lastSaid' \in [Host!UsbKeys -> {None, "connect", "disconnect"}]
      /\ Scanning'
  <2>1. ASSUME NEW d \in Devices, Host!Connect(d)
        PROVE  /\ usbFresh' \subseteq usbFresh /\ gone' \subseteq gone
               /\ lastSaid' \in [Host!UsbKeys -> {None, "connect", "disconnect"}]
               /\ Scanning'
    <3>1. /\ KeyOf[d] \in Host!UsbKeys /\ KeyOf[d] \in usbScanned \ usbKnown
          /\ usbFresh' = usbFresh \ {d} /\ gone' = gone
          /\ lastSaid' = [lastSaid EXCEPT ![KeyOf[d]] = "connect"]
      BY <1>2, <2>1 DEF Scanning, Host!Connect
    <3>2. /\ lastSaid' \in [Host!UsbKeys -> {None, "connect", "disconnect"}]
          /\ lastSaid'[KeyOf[d]] = "connect"
          /\ \A k \in Host!UsbKeys \ {KeyOf[d]} : lastSaid'[k] = lastSaid[k]
      BY <1>4, <3>1
    <3>3. \A k \in Host!UsbKeys \ {KeyOf[d]} : (\E e \in usbFresh : KeyOf[e] = k) => \E e \in usbFresh' : KeyOf[e] = k
      BY <3>1
    <3>4. Scanning'
      BY <1>1, <1>2, <3>1, <3>2, <3>3 DEF Scanning, Pending, Arriving
    <3>5. QED
      BY <3>1, <3>2, <3>4
  <2>2. ASSUME NEW c \in Host!UsbKeys, Host!Disconnect(c)
        PROVE  /\ usbFresh' \subseteq usbFresh /\ gone' \subseteq gone
               /\ lastSaid' \in [Host!UsbKeys -> {None, "connect", "disconnect"}]
               /\ Scanning'
    <3>1. /\ c \in usbKnown \ usbScanned /\ usbFresh' = usbFresh /\ gone' = gone \ {c}
          /\ lastSaid' = [lastSaid EXCEPT ![c] = "disconnect"]
      BY <1>2, <2>2 DEF Scanning, Host!Disconnect
    <3>2. /\ lastSaid' \in [Host!UsbKeys -> {None, "connect", "disconnect"}]
          /\ lastSaid'[c] = "disconnect"
          /\ \A k \in Host!UsbKeys \ {c} : lastSaid'[k] = lastSaid[k]
      BY <1>4, <3>1
    <3>3. Scanning'
      BY <1>1, <1>2, <3>1, <3>2 DEF Scanning, Pending, Arriving
    <3>4. QED
      BY <3>1, <3>2, <3>3
  <2>3. QED
    BY <2>1, <2>2
<1>6. HostTyped'
  BY <1>1, <1>3, <1>5 DEF HostInv, HostTyped
<1>7. Registered'
  BY <1>1, <1>2, <1>3, <1>5 DEF HostInv, Registered
<1>8. UsbInv'
  BY <1>1, <1>2, <1>5 DEF UsbInv
<1>9. UnitsInv'
  BY <1>1 DEF HostInv, UnitsInv
<1>10. QED
  BY <1>3, <1>6, <1>7, <1>8, <1>9 DEF HostInv

(* A user service's file is looked at, a start-up entry published.         *)
LEMMA UnitTold ==
  ASSUME HostInv, (\E f \in Services : Host!Inspect(f)) \/ (\E e \in Entries : Host!Announce(e))
  PROVE  HostInv'
<1>0. "registry" \in Host!Tasks /\ "startup" \in Host!Tasks
  BY HostConstants
<1>1. UNCHANGED <<plugged, files, busy, usbFresh, gone, usbScanned, usbKnown, lastSaid, entry>>
  BY DEF Host!Inspect, Host!Announce, Host!host, Host!usbVars
<1>2. UsbInv'
  BY <1>1 DEF HostInv, UsbInv, Scanning, Pending, Arriving
<1>3. ASSUME NEW f \in Services, Host!Inspect(f) PROVE HostInv'
  <2>1. /\ f \in unitsListed /\ unitsListed' = unitsListed \ {f} /\ entriesLeft' = entriesLeft
        /\ reported' = reported \cup {f} /\ unitsTold \in [Services -> Nat]
        /\ \A g \in Services : unitsTold[g] = (IF g \in reported THEN 1 ELSE 0)
    BY <1>3 DEF Host!Inspect, HostInv, HostTyped, UnitsInv
  <2>2. busy["registry"]
    BY <2>1 DEF HostInv, Registered
  <2>3. /\ sent' \in [Host!Tasks -> Nat] /\ uncounted' \in [Host!Tasks -> Nat]
        /\ Quiet' /\ CountInv'
    <3>1. CASE f \in reported
      BY <1>1, <1>3, <3>1 DEF Host!Inspect, HostInv, HostTyped, Registered, Quiet, CountInv, Produced
    <3>2. CASE f \notin reported
      BY <1>0, <1>1, <1>3, <2>2, <3>2, HandsOver DEF Host!Inspect
    <3>3. QED
      BY <3>1, <3>2
  <2>4. unitsTold' \in [Services -> Nat] /\ UnitsInv'
    <3>1. CASE f \in reported
      BY <1>3, <2>1, <3>1 DEF Host!Inspect, UnitsInv
    <3>2. CASE f \notin reported
      BY <1>3, <2>1, <3>2 DEF Host!Inspect, UnitsInv
    <3>3. QED
      BY <3>1, <3>2
  <2>5. HostTyped' /\ Registered'
    BY <1>1, <2>1, <2>2, <2>3, <2>4 DEF HostInv, HostTyped, Registered
  <2>6. QED
    BY <1>2, <2>3, <2>4, <2>5 DEF HostInv
<1>4. ASSUME NEW e \in Entries, Host!Announce(e) PROVE HostInv'
  <2>1. /\ e \in entriesLeft /\ entriesLeft' = entriesLeft \ {e}
        /\ UNCHANGED <<unitsListed, reported, unitsTold>>
        /\ Host!Sent("startup")
    BY <1>4 DEF Host!Announce, Host!registryVars
  <2>2. busy["startup"]
    BY <2>1 DEF HostInv, Registered
  <2>3. /\ sent' \in [Host!Tasks -> Nat] /\ uncounted' \in [Host!Tasks -> Nat]
        /\ Quiet' /\ CountInv'
    BY <1>0, <1>1, <2>1, <2>2, HandsOver
  <2>4. HostTyped' /\ Registered' /\ UnitsInv'
    BY <1>1, <2>1, <2>2, <2>3 DEF HostInv, HostTyped, Registered, UnitsInv
  <2>5. QED
    BY <1>2, <2>3, <2>4 DEF HostInv
<1>5. QED
  BY <1>3, <1>4

(* A task begins to publish what it found, or is through with it.          *)
LEMMA BusyKeeps ==
  ASSUME HostInv,
         Host!EndUsb \/ Host!ScanServices \/ Host!ScanStartup \/ \E t \in Host!Tasks : Host!Rest(t)
  PROVE  HostInv'
<1>0. HostTyped /\ Registered /\ UsbInv /\ UnitsInv /\ CountInv
  BY DEF HostInv
<1>1. UNCHANGED <<plugged, files, usbFresh, gone, usbScanned, lastSaid, reported, unitsTold, entry,
                  sent, uncounted>>
  BY DEF Host!EndUsb, Host!ScanServices, Host!ScanStartup, Host!Rest, Host!host, Host!usbVars,
         Host!registryVars
<1>2. UnitsInv' /\ CountInv'
  BY <1>0, <1>1 DEF UnitsInv, CountInv, Produced
<1>3. busy \in [Host!Tasks -> BOOLEAN] /\ {"usb", "registry", "startup"} = Host!Tasks
  BY <1>0, HostConstants DEF HostTyped
<1>4. CASE Host!EndUsb
  <2>1. /\ busy["usb"] /\ usbFresh = {} /\ gone = {} /\ usbKnown' = usbScanned
        /\ uncounted["usb"] = 0
        /\ busy' = [busy EXCEPT !["usb"] = FALSE]
        /\ UNCHANGED <<unitsListed, entriesLeft>>
    BY <1>4 DEF Host!EndUsb, Host!registryVars
  <2>2. /\ busy' \in [Host!Tasks -> BOOLEAN] /\ ~busy'["usb"]
        /\ \A t \in Host!Tasks \ {"usb"} : busy'[t] = busy[t]
    BY <1>3, <2>1
  <2>3. \A k \in Host!UsbKeys : k \in usbScanned <=> lastSaid[k] = "connect"
    BY <1>0, <2>1 DEF UsbInv, Scanning, Pending, Arriving
  <2>4. UsbInv'
    BY <1>1, <2>1, <2>2, <2>3 DEF UsbInv
  <2>5. HostTyped' /\ Registered'
    BY <1>0, <1>1, <1>3, <2>1, <2>2 DEF HostTyped, Registered, Quiet
  <2>6. QED
    BY <1>2, <2>4, <2>5 DEF HostInv
<1>5. ASSUME NEW t \in Host!Tasks \ {"usb"}, NEW b \in BOOLEAN,
             busy' = [busy EXCEPT ![t] = b], b => entry[t] # None, ~b => uncounted[t] = 0,
             unitsListed' \subseteq Services, UNCHANGED usbKnown,
             ~busy'["registry"] => unitsListed' = {}, ~busy'["startup"] => entriesLeft' = {}
      PROVE  HostInv'
  <2>1. /\ busy' \in [Host!Tasks -> BOOLEAN] /\ busy'["usb"] = busy["usb"] /\ busy'[t] = b
        /\ \A u \in Host!Tasks \ {t} : busy'[u] = busy[u]
    BY <1>3, <1>5
  <2>2. UsbInv'
    BY <1>0, <1>1, <1>5, <2>1 DEF UsbInv, Scanning, Pending, Arriving
  <2>3. HostTyped'
    BY <1>0, <1>1, <1>5, <2>1 DEF HostTyped
  <2>4. Registered'
    BY <1>0, <1>1, <1>5, <2>1 DEF Registered, Quiet
  <2>5. QED
    BY <1>2, <2>2, <2>3, <2>4 DEF HostInv
<1>6. CASE Host!ScanServices
  <2>1. /\ busy' = [busy EXCEPT !["registry"] = TRUE] /\ entry["registry"] # None
        /\ unitsListed' = files /\ UNCHANGED <<usbKnown, entriesLeft>>
    BY <1>6 DEF Host!ScanServices, Host!Ready, Host!usbVars
  <2>2. busy'["registry"] /\ busy'["startup"] = busy["startup"]
    BY <1>3, <2>1
  <2>3. unitsListed' \subseteq Services /\ (~busy'["startup"] => entriesLeft' = {})
    BY <1>0, <2>1, <2>2 DEF HostTyped, Registered
  <2>4. QED
    BY <1>3, <1>5, <2>1, <2>2, <2>3
<1>7. CASE Host!ScanStartup
  <2>1. /\ busy' = [busy EXCEPT !["startup"] = TRUE] /\ entry["startup"] # None
        /\ UNCHANGED <<usbKnown, unitsListed>>
    BY <1>7 DEF Host!ScanStartup, Host!Ready, Host!usbVars, Host!registryVars
  <2>2. busy'["startup"] /\ busy'["registry"] = busy["registry"]
    BY <1>3, <2>1
  <2>3. unitsListed' \subseteq Services /\ (~busy'["registry"] => unitsListed' = {})
    BY <1>0, <2>1, <2>2 DEF HostTyped, Registered
  <2>4. QED
    BY <1>3, <1>5, <2>1, <2>2, <2>3
<1>8. ASSUME NEW t \in Host!Tasks, Host!Rest(t) PROVE HostInv'
  <2>1. /\ busy' = [busy EXCEPT ![t] = FALSE] /\ uncounted[t] = 0
        /\ UNCHANGED <<usbKnown, unitsListed, entriesLeft>>
        /\ \/ t = "registry" /\ unitsListed = {}
           \/ t = "startup" /\ entriesLeft = {}
    BY <1>8 DEF Host!Rest, Host!usbVars, Host!registryVars
  <2>2. \A u \in Host!Tasks \ {t} : busy'[u] = busy[u]
    BY <1>3, <2>1
  <2>3. /\ unitsListed' \subseteq Services
        /\ ~busy'["registry"] => unitsListed' = {}
        /\ ~busy'["startup"] => entriesLeft' = {}
    BY <1>0, <1>3, <2>1, <2>2 DEF HostTyped, Registered
  <2>4. QED
    BY <1>3, <1>5, <2>1, <2>3
<1>9. QED
  BY <1>4, <1>6, <1>7, <1>8

(* Every step keeps the invariant.                                         *)
LEMMA HostNext == HostInv /\ [Host!Next]_(Host!vars) => HostInv'
<1> SUFFICES ASSUME HostInv, [Host!Next]_(Host!vars) PROVE HostInv'
  OBVIOUS
<1>1. CASE Host!HostChanges
  <2>1. UNCHANGED <<busy, usbFresh, gone, usbScanned, usbKnown, lastSaid,
                    unitsListed, reported, unitsTold, entriesLeft, entry, sent, uncounted>>
    BY <1>1 DEF Host!HostChanges, Host!usbVars, Host!registryVars
  <2>2. plugged' \subseteq Devices /\ files' \subseteq Services
    BY <1>1 DEF Host!HostChanges, HostInv, HostTyped
  <2>3. QED
    BY <2>1, <2>2 DEF HostInv, HostTyped, Registered, Quiet, UsbInv, Scanning, Pending, Arriving, UnitsInv,
                      CountInv, Produced
<1>2. CASE UNCHANGED Host!vars
  BY <1>2 DEF Host!vars, Host!host, Host!usbVars, Host!registryVars,
              HostInv, HostTyped, Registered, Quiet, UsbInv, Scanning, Pending, Arriving, UnitsInv,
              CountInv, Produced
<1>3. QED
  BY <1>1, <1>2, EntryKeeps, CountKeeps, ScanUsbKeeps, UsbTold, UnitTold, BusyKeeps DEF Host!Next

(* The pollers' invariant.                                                 *)
LEMMA HostAlways == AllSpec => []HostInv
<1>1. AllInit => HostInv
  <2> SUFFICES ASSUME Host!Init PROVE HostInv
    BY DEF AllInit
  <2>1. HostTyped
    BY DEF Host!Init, HostTyped
  <2>2. Registered
    BY HostConstants DEF Host!Init, Registered, Quiet
  <2>3. UsbInv
    BY HostConstants DEF Host!Init, UsbInv
  <2>4. UnitsInv /\ CountInv
    BY DEF Host!Init, UnitsInv, CountInv, Produced
  <2>5. QED
    BY <2>1, <2>2, <2>3, <2>4 DEF HostInv
<1>2. HostInv /\ [AllNext]_allVars => HostInv'
  BY PartSteps, HostNext
<1>3. QED
  BY <1>1, <1>2, PTL DEF AllSpec

(* Between two polls the USB events add up to what the task knows, each    *)
(* user service's file is announced once, and what clients read as         *)
(* produced is never ahead of what was handed to the bus, at most one      *)
(* event behind it, and equal to it between two scans, for any devices,    *)
(* files and entries that come and go and restarts asked for at any        *)
(* moment: scan_usb_devices, src/collectors/src/usb/mod.rs, and            *)
(* CollectorRegistry.                                                      *)
THEOREM RecordsCorrect == AllSpec => []EventsMatchRecords
<1>1. ASSUME HostInv PROVE EventsMatchRecords
  <2>1. ASSUME NEW t \in Host!Tasks, entry[t] # None
        PROVE  /\ entry[t].produced <= Host!Due(t) * sent[t]
               /\ entry[t].produced >= Host!Due(t) * (sent[t] - (IF busy[t] THEN 1 ELSE 0))
    <3>1. /\ sent[t] \in Nat /\ uncounted[t] \in Nat
          /\ entry[t].produced = Produced(t)
          /\ uncounted[t] <= (IF t = "startup" THEN 2 ELSE 1)
          /\ ~busy[t] => uncounted[t] = 0
      BY <1>1, <2>1 DEF HostInv, HostTyped, Registered, Quiet, CountInv
    <3>2. CASE t = "startup"
      BY <3>1, <3>2 DEF Host!Due, Produced
    <3>3. CASE t # "startup"
      BY <3>1, <3>3 DEF Host!Due, Produced
    <3>4. QED
      BY <3>2, <3>3
  <2>2. QED
    BY <1>1, <2>1 DEF HostInv, UsbInv, UnitsInv, EventsMatchRecords, Host!EventsMatchRecords
<1>2. QED
  BY <1>1, HostAlways, PTL

-----------------------------------------------------------------------------
(* The scan detector                                                       *)

Obs == Scan!Observation

(* Of a history h, at its connection i: those in the window that ends with *)
(* it, and what a verdict depends on.                                      *)
Recent(h, i) == {j \in 1..i : h[i].at - h[j].at <= ScanWindow}
PortsTried(h, i) == {h[j].port : j \in {m \in Recent(h, i) : h[m].host = h[i].host}}
HostsTried(h, i) == {h[j].host : j \in {m \in Recent(h, i) : h[m].port = h[i].port}}
OwnTried(h, i) == {j \in Recent(h, i) : h[j].pid = h[i].pid}

Exact(h, i, verdict) ==
  LET v == Cardinality(PortsTried(h, i)) >= Vertical
      w == Cardinality(HostsTried(h, i)) >= Horizontal
  IN /\ verdict = "vertical" <=> v
     /\ verdict = "horizontal" <=> ~v /\ w
     /\ verdict = "storm" <=> ~v /\ ~w /\ Cardinality(OwnTried(h, i)) >= Storm

(* The queue is what is left of the history, and what went is old.         *)
Suffix(q, h, s) == Len(q) = Len(h) - s /\ \A i \in 1..Len(q) : q[i] = h[i + s]
InOrder(q) == \A i, j \in 1..Len(q) : i < j => q[i].at <= q[j].at

ScanInv ==
  /\ clock \in Nat /\ observations \in Seq(Obs) /\ scanHistory \in Seq(Obs)
  /\ verdicts \in Seq(Scan!Kinds) /\ Len(verdicts) = Len(scanHistory)
  /\ InOrder(scanHistory) /\ \A i \in 1..Len(scanHistory) : scanHistory[i].at <= clock
  /\ \E s \in 0..Len(scanHistory) :
       /\ Suffix(observations, scanHistory, s)
       /\ \A j \in 1..s : clock - scanHistory[j].at > ScanWindow
  /\ \A i \in 1..Len(scanHistory) : Exact(scanHistory, i, verdicts[i])

(* The constants.                                                          *)
LEMMA ScanConstants ==
  /\ ScanWindow \in Nat /\ MaxScanTime \in Nat
  /\ Obs = [host : Hosts, port : Ports, pid : Pids, at : 0..MaxScanTime]
BY SensorsAssumption DEF Scan!ScanAssumption, Obs, Scan!Observation

(* A set of numbers has a least one.                                       *)
LEMMA LeastOf ==
  ASSUME NEW n \in Nat, NEW T \in SUBSET (1..n), T # {}
  PROVE  \E m \in T : \A k \in T : m <= k
<1>1. IsWellFoundedOn(OpToRel(<, Nat), Nat)
  BY NatLessThanWellFounded
<1>2. T \subseteq Nat
  OBVIOUS
<1>3. PICK m \in T : \A k \in T : ~(<<k, m>> \in OpToRel(<, Nat))
  BY <1>1, <1>2, WFMin
<1>4. \A k \in T : ~(k < m)
  BY <1>2, <1>3 DEF OpToRel
<1>5. QED
  BY <1>2, <1>4

(* Pruning from the front drops what is older than the window, all of it   *)
(* and nothing else, because the queue is in order.                        *)
LEMMA PrunedExact ==
  ASSUME NEW q \in Seq(Obs), NEW t \in Nat, InOrder(q)
  PROVE  /\ Scan!Pruned(q, t) \in Seq(Obs)
         /\ \E m \in 0..Len(q) :
              /\ Suffix(Scan!Pruned(q, t), q, m)
              /\ \A j \in 1..m : t - q[j].at > ScanWindow
              /\ \A j \in (m + 1)..Len(q) : t - q[j].at <= ScanWindow
<1> DEFINE keep == {i \in DOMAIN q : t - q[i].at <= ScanWindow}
           p == Scan!Pruned(q, t)
<1>1. /\ Len(q) \in Nat /\ DOMAIN q = 1..Len(q)
      /\ \A i \in 1..Len(q) : q[i] \in Obs /\ q[i].at \in Nat
  <2>1. Len(q) \in Nat /\ DOMAIN q = 1..Len(q) /\ \A i \in 1..Len(q) : q[i] \in Obs
    BY LenProperties, ElementOfSeq
  <2>2. \A o \in Obs : o.at \in Nat
    BY ScanConstants
  <2>3. QED
    BY <2>1, <2>2
<1>2. CASE keep = {}
  <2>1. p = <<>>
    BY <1>2 DEF Scan!Pruned
  <2>2. p \in Seq(Obs) /\ Len(p) = 0
    BY <2>1
  <2>3. ASSUME NEW j \in 1..Len(q) PROVE t - q[j].at > ScanWindow
    <3>1. ~(t - q[j].at <= ScanWindow) /\ q[j].at \in Nat
      BY <1>1, <1>2
    <3>2. QED
      BY <3>1, ScanConstants
  <2>4. Suffix(p, q, Len(q))
    BY <1>1, <2>2 DEF Suffix
  <2>5. QED
    BY <1>1, <2>2, <2>3, <2>4
<1>3. CASE keep # {}
  <2> DEFINE c == CHOOSE i \in keep : \A j \in keep : i <= j
  <2>1. c \in keep /\ \A j \in keep : c <= j
    <3>1. keep \in SUBSET (1..Len(q))
      BY <1>1
    <3>2. \E i \in keep : \A j \in keep : i <= j
      BY <1>1, <1>3, <3>1, LeastOf
    <3>3. QED
      BY <3>2
  <2>2. p = SubSeq(q, c, Len(q))
    BY <1>3 DEF Scan!Pruned
  <2> HIDE DEF c
  <2>3. c \in 1..Len(q) /\ t - q[c].at <= ScanWindow
    BY <1>1, <2>1
  <2>4. \A i \in c..Len(q) : q[i] \in Obs
    BY <1>1, <2>3
  <2>5. /\ p \in Seq(Obs) /\ Len(p) = Len(q) - c + 1
        /\ \A i \in 1..(Len(q) - c + 1) : p[i] = q[c + i - 1]
    <3>1. c \in Int /\ Len(q) \in Int /\ c <= Len(q)
      BY <1>1, <2>3
    <3>2. /\ SubSeq(q, c, Len(q)) \in Seq(Obs)
          /\ Len(SubSeq(q, c, Len(q))) = IF c <= Len(q) THEN Len(q) - c + 1 ELSE 0
          /\ \A i \in 1..(Len(q) - c + 1) : SubSeq(q, c, Len(q))[i] = q[c + i - 1]
      BY <2>4, <3>1, SubSeqProperties
    <3>3. QED
      BY <2>2, <3>1, <3>2
  <2>6. Suffix(p, q, c - 1)
    BY <1>1, <2>3, <2>5 DEF Suffix
  <2>7. ASSUME NEW j \in 1..(c - 1) PROVE t - q[j].at > ScanWindow
    <3>1. j \in 1..Len(q) /\ ~(c <= j)
      BY <1>1, <2>3
    <3>2. ~(t - q[j].at <= ScanWindow) /\ q[j].at \in Nat
      BY <1>1, <2>1, <3>1
    <3>3. QED
      BY <3>2, ScanConstants
  <2>8. \A j \in c..Len(q) : t - q[j].at <= ScanWindow
    <3> SUFFICES ASSUME NEW j \in c..Len(q) PROVE t - q[j].at <= ScanWindow
      OBVIOUS
    <3>1. q[c].at <= q[j].at
      BY <1>1, <2>3 DEF InOrder
    <3>2. QED
      BY <1>1, <2>3, <3>1, ScanConstants
  <2>9. c - 1 \in 0..Len(q) /\ (c - 1) + 1 = c
    BY <1>1, <2>3
  <2>10. QED
    BY <2>5, <2>6, <2>7, <2>8, <2>9
<1>4. QED
  BY <1>2, <1>3

(* Sets are counted there as they are here.                                *)
LEMMA ScanCounts == \A S : Scan!Cardinality(S) = Cardinality(S)
BY DEF Scan!Cardinality, Cardinality

(* The verdict on a queue that is the window of the history is the verdict *)
(* on the history.                                                         *)
LEMMA VerdictExact ==
  ASSUME NEW h \in Seq(Obs), NEW q \in Seq(Obs), NEW s \in 0..Len(h), Suffix(q, h, s), Len(h) > 0,
         \A j \in 1..Len(h) : h[Len(h)].at - h[j].at <= ScanWindow <=> j > s
  PROVE  Exact(h, Len(h), Scan!Verdict(q, h[Len(h)]))
<1> DEFINE n == Len(h)
           o == h[n]
<1>1. /\ n \in Nat /\ n \in 1..n /\ Len(q) = n - s /\ DOMAIN q = 1..(n - s)
      /\ \A i \in 1..(n - s) : q[i] = h[i + s]
  BY LenProperties DEF Suffix
<1>2. Recent(h, n) = (s + 1)..n
  BY <1>1 DEF Recent
<1>3. \A j \in (s + 1)..n : j - s \in 1..(n - s) /\ q[j - s] = h[j]
  BY <1>1
<1>4. \A i \in 1..(n - s) : i + s \in (s + 1)..n
  BY <1>1
<1>5. Scan!PortsOf(q, o.host) = PortsTried(h, n)
  <2>1. Scan!PortsOf(q, o.host) = {q[i].port : i \in {m \in 1..(n - s) : q[m].host = o.host}}
    BY <1>1 DEF Scan!PortsOf, Scan!ToSet
  <2>2. PortsTried(h, n) = {h[j].port : j \in {m \in (s + 1)..n : h[m].host = o.host}}
    BY <1>2 DEF PortsTried
  <2>3. ASSUME NEW i \in 1..(n - s), q[i].host = o.host
        PROVE  \E j \in (s + 1)..n : h[j].host = o.host /\ h[j].port = q[i].port
    BY <1>1, <1>4, <2>3
  <2>4. ASSUME NEW j \in (s + 1)..n, h[j].host = o.host
        PROVE  \E i \in 1..(n - s) : q[i].host = o.host /\ q[i].port = h[j].port
    BY <1>3, <2>4
  <2>5. Scan!PortsOf(q, o.host) \subseteq PortsTried(h, n)
    BY <2>1, <2>2, <2>3
  <2>6. PortsTried(h, n) \subseteq Scan!PortsOf(q, o.host)
    BY <2>1, <2>2, <2>4
  <2>7. QED
    BY <2>5, <2>6
<1>6. Scan!HostsOf(q, o.port) = HostsTried(h, n)
  <2>1. Scan!HostsOf(q, o.port) = {q[i].host : i \in {m \in 1..(n - s) : q[m].port = o.port}}
    BY <1>1 DEF Scan!HostsOf, Scan!ToSet
  <2>2. HostsTried(h, n) = {h[j].host : j \in {m \in (s + 1)..n : h[m].port = o.port}}
    BY <1>2 DEF HostsTried
  <2>3. ASSUME NEW i \in 1..(n - s), q[i].port = o.port
        PROVE  \E j \in (s + 1)..n : h[j].port = o.port /\ h[j].host = q[i].host
    BY <1>1, <1>4, <2>3
  <2>4. ASSUME NEW j \in (s + 1)..n, h[j].port = o.port
        PROVE  \E i \in 1..(n - s) : q[i].port = o.port /\ q[i].host = h[j].host
    BY <1>3, <2>4
  <2>5. Scan!HostsOf(q, o.port) \subseteq HostsTried(h, n)
    BY <2>1, <2>2, <2>3
  <2>6. HostsTried(h, n) \subseteq Scan!HostsOf(q, o.port)
    BY <2>1, <2>2, <2>4
  <2>7. QED
    BY <2>5, <2>6
<1>7. Scan!CountOf(q, o.pid) = Cardinality(OwnTried(h, n))
  <2> DEFINE A == {i \in DOMAIN q : q[i].pid = o.pid}
             B == OwnTried(h, n)
             f == [i \in A |-> i + s]
  <2>1. A \subseteq 1..(n - s) /\ IsFiniteSet(A)
    <3>1. A \in SUBSET (1..(n - s)) /\ IsFiniteSet(1..(n - s))
      BY <1>1, FS_Interval
    <3>2. QED
      BY <3>1, FS_Subset
  <2>2. \A i \in A : f[i] \in B
    BY <1>1, <1>2, <1>4 DEF OwnTried
  <2>3. \A j \in B : j - s \in A /\ f[j - s] = j
    BY <1>1, <1>2, <1>3 DEF OwnTried
  <2>4. \A i, j \in A : f[i] = f[j] => i = j
    BY <1>1, <2>1
  <2>5. f \in Bijection(A, B)
    BY <2>2, <2>3, <2>4 DEF Bijection, Injection, Surjection, IsInjective
  <2>6. ExistsBijection(A, B)
    BY <2>5 DEF ExistsBijection
  <2>7. Cardinality(B) = Cardinality(A)
    BY <2>1, <2>6, FS_Bijection
  <2>8. QED
    BY <2>7, ScanCounts DEF Scan!CountOf
<1>8. QED
  <2> DEFINE v == Cardinality(PortsTried(h, n)) >= Vertical
             w == Cardinality(HostsTried(h, n)) >= Horizontal
             x == Cardinality(OwnTried(h, n)) >= Storm
  <2>1. Scan!Verdict(q, o) = IF v THEN "vertical" ELSE IF w THEN "horizontal"
                             ELSE IF x THEN "storm" ELSE "none"
    BY <1>5, <1>6, <1>7, ScanCounts DEF Scan!Verdict
  <2> HIDE DEF v, w, x
  <2>2. /\ Scan!Verdict(q, o) = "vertical" <=> v
        /\ Scan!Verdict(q, o) = "horizontal" <=> ~v /\ w
        /\ Scan!Verdict(q, o) = "storm" <=> ~v /\ ~w /\ x
    BY <2>1
  <2>3. QED
    BY <2>2 DEF Exact, v, w, x

(* A verdict depends on nothing that comes after it.                       *)
LEMMA ExactStays ==
  ASSUME NEW h, NEW g, NEW n \in Nat, NEW i \in 1..n, \A j \in 1..n : g[j] = h[j],
         NEW verdict, Exact(h, i, verdict)
  PROVE  Exact(g, i, verdict)
<1>1. g[i] = h[i] /\ \A j \in 1..i : g[j] = h[j]
  OBVIOUS
<1>2. Recent(g, i) = Recent(h, i) /\ Recent(h, i) \subseteq 1..i
  BY <1>1 DEF Recent
<1>3. PortsTried(g, i) = PortsTried(h, i)
  <2>1. {m \in Recent(g, i) : g[m].host = g[i].host} = {m \in Recent(h, i) : h[m].host = h[i].host}
    BY <1>1, <1>2
  <2>2. \A j \in {m \in Recent(h, i) : h[m].host = h[i].host} : g[j].port = h[j].port
    BY <1>1, <1>2
  <2>3. QED
    BY <2>1, <2>2 DEF PortsTried
<1>4. HostsTried(g, i) = HostsTried(h, i)
  <2>1. {m \in Recent(g, i) : g[m].port = g[i].port} = {m \in Recent(h, i) : h[m].port = h[i].port}
    BY <1>1, <1>2
  <2>2. \A j \in {m \in Recent(h, i) : h[m].port = h[i].port} : g[j].host = h[j].host
    BY <1>1, <1>2
  <2>3. QED
    BY <2>1, <2>2 DEF HostsTried
<1>5. OwnTried(g, i) = OwnTried(h, i)
  BY <1>1, <1>2 DEF OwnTried
<1>6. QED
  BY <1>3, <1>4, <1>5 DEF Exact

(* A connection is recorded.                                               *)
LEMMA RecordKeeps ==
  ASSUME ScanInv, clock <= MaxScanTime, NEW h \in Hosts, NEW p \in Ports, NEW pid \in Pids, Scan!Record(h, p, pid)
  PROVE  ScanInv'
<1> DEFINE o == [host |-> h, port |-> p, pid |-> pid, at |-> clock]
           n == Len(scanHistory)
           kept == Scan!Pruned(observations, clock)
<1>1. /\ clock \in Nat /\ observations \in Seq(Obs) /\ scanHistory \in Seq(Obs)
      /\ verdicts \in Seq(Scan!Kinds) /\ Len(verdicts) = n
      /\ InOrder(scanHistory) /\ \A i \in 1..n : scanHistory[i].at <= clock
      /\ \A i \in 1..n : Exact(scanHistory, i, verdicts[i])
      /\ n \in Nat /\ \A i \in 1..n : scanHistory[i] \in Obs /\ scanHistory[i].at \in Nat
  <2>1. n \in Nat /\ \A i \in 1..n : scanHistory[i] \in Obs
    BY LenProperties, ElementOfSeq DEF ScanInv
  <2>2. \A x \in Obs : x.at \in Nat
    BY ScanConstants
  <2>3. QED
    BY <2>1, <2>2 DEF ScanInv
<1>2. PICK s \in 0..n : /\ Suffix(observations, scanHistory, s)
                        /\ \A j \in 1..s : clock - scanHistory[j].at > ScanWindow
  BY DEF ScanInv
<1>3. o \in Obs /\ o.at = clock
  BY <1>1, ScanConstants
<1>4. InOrder(observations)
  <2> SUFFICES ASSUME NEW i \in 1..Len(observations), NEW j \in 1..Len(observations), i < j
               PROVE  observations[i].at <= observations[j].at
    BY DEF InOrder
  <2>1. /\ i + s \in 1..n /\ j + s \in 1..n /\ i + s < j + s
        /\ observations[i] = scanHistory[i + s] /\ observations[j] = scanHistory[j + s]
    BY <1>1, <1>2 DEF Suffix
  <2>2. QED
    BY <1>1, <2>1 DEF InOrder
<1>5. PICK m \in 0..Len(observations) :
        /\ Suffix(kept, observations, m)
        /\ \A j \in 1..m : clock - observations[j].at > ScanWindow
        /\ \A j \in (m + 1)..Len(observations) : clock - observations[j].at <= ScanWindow
  BY <1>1, <1>4, PrunedExact
<1>6. kept \in Seq(Obs)
  BY <1>1, <1>4, PrunedExact
<1>7. /\ observations' = Append(kept, o) /\ scanHistory' = Append(scanHistory, o)
      /\ verdicts' = Append(verdicts, Scan!Verdict(observations', o)) /\ clock' = clock
  BY DEF Scan!Record
<1> HIDE DEF o, kept
<1>8. /\ scanHistory' \in Seq(Obs) /\ Len(scanHistory') = n + 1
      /\ \A i \in 1..n : scanHistory'[i] = scanHistory[i]
      /\ scanHistory'[n + 1] = o
  BY <1>1, <1>3, <1>7, AppendProperties
<1>9. /\ observations' \in Seq(Obs) /\ Len(kept) \in Nat /\ Len(observations') = Len(kept) + 1
      /\ \A i \in 1..Len(kept) : observations'[i] = kept[i]
      /\ observations'[Len(kept) + 1] = o
  BY <1>3, <1>6, <1>7, AppendProperties, LenProperties
<1>10. /\ s + m \in 0..n /\ Len(kept) = n - (s + m) /\ Len(observations) = n - s
       /\ \A i \in 1..(n - (s + m)) : kept[i] = scanHistory[i + (s + m)]
       /\ \A j \in 1..(n - s) : observations[j] = scanHistory[j + s]
  <2>1. Len(observations) = n - s /\ \A j \in 1..(n - s) : observations[j] = scanHistory[j + s]
    BY <1>2 DEF Suffix
  <2>2. /\ Len(kept) = n - s - m /\ m \in 0..(n - s)
        /\ \A i \in 1..Len(kept) : kept[i] = observations[i + m]
    BY <1>5, <2>1 DEF Suffix
  <2>3. n \in Nat /\ s \in Nat /\ s <= n /\ m \in Nat /\ m <= n - s
    BY <1>1, <1>2, <2>2
  <2>4. s + m \in 0..n /\ n - s - m = n - (s + m)
    BY <2>3
  <2>5. ASSUME NEW i \in 1..(n - (s + m)) PROVE kept[i] = scanHistory[i + (s + m)]
    <3>1. i + m \in 1..(n - s) /\ (i + m) + s = i + (s + m) /\ i \in 1..Len(kept)
      BY <2>2, <2>3, <2>4
    <3>2. QED
      BY <2>1, <2>2, <3>1
  <2>6. QED
    BY <2>1, <2>2, <2>4, <2>5
<1>a. n \in Nat /\ s \in Nat /\ m \in Nat /\ s + m <= n /\ m <= n - s
  BY <1>1, <1>2, <1>5, <1>10
<1>11. /\ \A j \in 1..(s + m) : clock - scanHistory[j].at > ScanWindow
       /\ \A j \in (s + m + 1)..n : clock - scanHistory[j].at <= ScanWindow
  <2>1. ASSUME NEW j \in 1..(s + m) PROVE clock - scanHistory[j].at > ScanWindow
    <3>1. CASE j <= s
      BY <1>2, <1>a, <3>1
    <3>2. CASE j > s
      <4>1. j - s \in 1..m /\ j - s \in 1..(n - s) /\ (j - s) + s = j
        BY <1>a, <3>2
      <4>a. observations[j - s] = scanHistory[j]
        BY <1>10, <4>1
      <4>2. QED
        BY <1>5, <4>1, <4>a
    <3>3. QED
      BY <1>a, <3>1, <3>2
  <2>2. ASSUME NEW j \in (s + m + 1)..n PROVE clock - scanHistory[j].at <= ScanWindow
    <3>1. j - s \in (m + 1)..(n - s) /\ j - s \in 1..(n - s) /\ (j - s) + s = j
      BY <1>a
    <3>2. observations[j - s] = scanHistory[j] /\ Len(observations) = n - s
      BY <1>10, <3>1
    <3>3. QED
      BY <1>5, <3>1, <3>2
  <2>3. QED
    BY <2>1, <2>2
<1>12. Suffix(observations', scanHistory', s + m)
  <2>1. ASSUME NEW i \in 1..Len(observations') PROVE observations'[i] = scanHistory'[i + (s + m)]
    <3>0. Len(kept) = n - (s + m) /\ i \in 1..(n - (s + m) + 1)
      BY <1>9, <1>10
    <3>1. CASE i \in 1..(n - (s + m))
      <4>1. i + (s + m) \in 1..n
        BY <1>a, <3>1
      <4>2. observations'[i] = kept[i] /\ kept[i] = scanHistory[i + (s + m)]
        BY <1>9, <1>10, <3>0, <3>1
      <4>3. scanHistory'[i + (s + m)] = scanHistory[i + (s + m)]
        BY <1>8, <4>1
      <4>4. QED
        BY <4>2, <4>3
    <3>2. CASE i = n - (s + m) + 1
      <4>1. i + (s + m) = n + 1
        BY <1>a, <3>2
      <4>2. QED
        BY <1>8, <1>9, <3>0, <3>2, <4>1
    <3>3. QED
      BY <1>a, <3>0, <3>1, <3>2
  <2>2. Len(observations') = Len(scanHistory') - (s + m)
    BY <1>a, <1>8, <1>9, <1>10
  <2>3. QED
    BY <2>1, <2>2 DEF Suffix
<1>13. /\ InOrder(scanHistory') /\ \A i \in 1..(n + 1) : scanHistory'[i].at <= clock'
       /\ \A j \in 1..(s + m) : clock' - scanHistory'[j].at > ScanWindow
  <2>1. \A j \in 1..(s + m) : clock' - scanHistory'[j].at > ScanWindow
    BY <1>a, <1>7, <1>8, <1>11
  <2>2. \A i \in 1..(n + 1) : scanHistory'[i].at <= clock'
    <3> SUFFICES ASSUME NEW i \in 1..(n + 1) PROVE scanHistory'[i].at <= clock
      BY <1>7
    <3>1. CASE i \in 1..n
      BY <1>1, <1>8, <3>1
    <3>2. CASE i = n + 1
      BY <1>1, <1>3, <1>8, <3>2
    <3>3. QED
      BY <1>a, <3>1, <3>2
  <2>3. InOrder(scanHistory')
    <3> SUFFICES ASSUME NEW i \in 1..(n + 1), NEW j \in 1..(n + 1), i < j
                 PROVE  scanHistory'[i].at <= scanHistory'[j].at
      BY <1>8 DEF InOrder
    <3>0. i \in 1..n
      BY <1>a
    <3>1. CASE j \in 1..n
      BY <1>1, <1>8, <3>0, <3>1 DEF InOrder
    <3>2. CASE j = n + 1
      BY <1>1, <1>3, <1>8, <3>0, <3>2
    <3>3. QED
      BY <1>a, <3>1, <3>2
  <2>4. QED
    BY <2>1, <2>2, <2>3
<1>14. Exact(scanHistory', n + 1, Scan!Verdict(observations', o))
  <2>1. \A j \in 1..(n + 1) : o.at - scanHistory'[j].at <= ScanWindow <=> j > s + m
    <3> SUFFICES ASSUME NEW j \in 1..(n + 1)
                 PROVE  o.at - scanHistory'[j].at <= ScanWindow <=> j > s + m
      OBVIOUS
    <3>1. CASE j = n + 1
      <4>1. o.at - scanHistory'[j].at = 0 /\ n + 1 > s + m
        BY <1>1, <1>a, <1>3, <1>8, <3>1
      <4>2. QED
        BY <3>1, <4>1, ScanConstants
    <3>2. CASE j \in 1..(s + m)
      <4>1. /\ j \in 1..n /\ ~(j > s + m) /\ scanHistory'[j] = scanHistory[j]
            /\ scanHistory[j].at \in Nat
        BY <1>1, <1>a, <1>8, <3>2
      <4>2. o.at - scanHistory'[j].at > ScanWindow
        BY <1>3, <1>11, <3>2, <4>1
      <4>3. QED
        BY <1>1, <1>3, <4>1, <4>2, ScanConstants
    <3>3. CASE j \in (s + m + 1)..n
      <4>1. j \in 1..n /\ j > s + m /\ scanHistory'[j] = scanHistory[j]
        BY <1>a, <1>8, <3>3
      <4>2. QED
        BY <1>3, <1>11, <3>3, <4>1
    <3>4. QED
      BY <1>a, <3>1, <3>2, <3>3
  <2>2. s + m \in 0..(n + 1) /\ n + 1 > 0
    BY <1>1, <1>10
  <2>3. QED
    BY <1>8, <1>9, <1>12, <2>1, <2>2, VerdictExact
<1>15. Scan!Verdict(observations', o) \in Scan!Kinds
  BY DEF Scan!Verdict, Scan!Kinds
<1>16. /\ verdicts' \in Seq(Scan!Kinds) /\ Len(verdicts') = n + 1
       /\ \A i \in 1..n : verdicts'[i] = verdicts[i]
       /\ verdicts'[n + 1] = Scan!Verdict(observations', o)
  BY <1>1, <1>7, <1>15, AppendProperties
<1>17. \A i \in 1..(n + 1) : Exact(scanHistory', i, verdicts'[i])
  <2>1. ASSUME NEW i \in 1..n PROVE Exact(scanHistory', i, verdicts'[i])
    BY <1>1, <1>8, <1>16, ExactStays
  <2>2. \A i \in 1..(n + 1) : i \in 1..n \/ i = n + 1
    BY <1>a
  <2>3. QED
    BY <1>14, <1>16, <2>1, <2>2
<1>18. QED
  <2>1. s + m \in 0..Len(scanHistory')
    BY <1>a, <1>8
  <2>2. clock' \in Nat
    BY <1>1, <1>7
  <2>3. QED
    BY <1>8, <1>9, <1>12, <1>13, <1>16, <1>17, <2>1, <2>2 DEF ScanInv

(* The scan detector's invariant.                                          *)
LEMMA ScanAlways == AllSpec => [](ScanInv /\ clock <= MaxScanTime)
<1> DEFINE Inv == ScanInv /\ clock <= MaxScanTime
<1>1. AllInit => Inv
  <2> SUFFICES ASSUME Scan!Init PROVE Inv
    BY DEF AllInit
  <2>1. /\ clock = 0 /\ observations \in Seq(Obs) /\ scanHistory \in Seq(Obs)
        /\ verdicts \in Seq(Scan!Kinds)
        /\ Len(observations) = 0 /\ Len(scanHistory) = 0 /\ Len(verdicts) = 0
    BY EmptySeq DEF Scan!Init
  <2>2. 0 \in 0..Len(scanHistory) /\ Suffix(observations, scanHistory, 0)
    BY <2>1 DEF Suffix
  <2>3. QED
    BY <2>1, <2>2, ScanConstants DEF ScanInv, InOrder
<1>2. Inv /\ [AllNext]_allVars => Inv'
  <2> SUFFICES ASSUME Inv, [Scan!Next]_(Scan!vars) PROVE Inv'
    BY PartSteps
  <2>1. ASSUME NEW h \in Hosts, NEW p \in Ports, NEW pid \in Pids, Scan!Record(h, p, pid) PROVE Inv'
    BY <2>1, RecordKeeps DEF Scan!Record
  <2>2. CASE Scan!Tick
    <3>1. /\ clock' = clock + 1 /\ clock' <= MaxScanTime
          /\ UNCHANGED <<observations, scanHistory, verdicts>>
      BY <2>2, ScanConstants DEF Scan!Tick, ScanInv
    <3>2. \A i \in 1..Len(scanHistory) : scanHistory[i].at \in Nat
      <4>1. \A i \in 1..Len(scanHistory) : scanHistory[i] \in Obs
        BY ElementOfSeq DEF ScanInv
      <4>2. \A x \in Obs : x.at \in Nat
        BY ScanConstants
      <4>3. QED
        BY <4>1, <4>2
    <3>3. Len(scanHistory) \in Nat
      BY LenProperties DEF ScanInv
    <3>4. PICK s \in 0..Len(scanHistory) :
            /\ Suffix(observations, scanHistory, s)
            /\ \A j \in 1..s : clock - scanHistory[j].at > ScanWindow
      BY DEF ScanInv
    <3>5. Suffix(observations', scanHistory', s)
      BY <3>1, <3>4
    <3>6. \A j \in 1..s : clock' - scanHistory'[j].at > ScanWindow
      BY <3>1, <3>2, <3>3, <3>4, ScanConstants DEF ScanInv
    <3>7. \A i \in 1..Len(scanHistory') : scanHistory'[i].at <= clock'
      BY <3>1, <3>2, <3>3 DEF ScanInv
    <3>8. QED
      BY <3>1, <3>5, <3>6, <3>7 DEF ScanInv
  <2>3. CASE UNCHANGED Scan!vars
    <3>1. UNCHANGED <<clock, observations, scanHistory, verdicts>>
      BY <2>3 DEF Scan!vars
    <3>2. QED
      BY <3>1 DEF ScanInv
  <2>4. QED
    BY <2>1, <2>2, <2>3 DEF Scan!Next
<1>3. QED
  BY <1>1, <1>2, PTL DEF AllSpec

(* Every verdict is that of the whole history, for any thresholds and      *)
(* window: pruning the queue from its front loses nothing that counts,     *)
(* ScanDetector::record, src/collectors/src/network/scan_detector.rs.      *)
THEOREM VerdictsCorrect == AllSpec => []VerdictsExact
<1>1. ScanInv => VerdictsExact
  <2> SUFFICES ASSUME ScanInv PROVE VerdictsExact
    OBVIOUS
  <2>1. DOMAIN scanHistory = 1..Len(scanHistory)
    BY LenProperties DEF ScanInv
  <2>2. \A i \in DOMAIN scanHistory : Exact(scanHistory, i, verdicts[i])
    BY <2>1 DEF ScanInv
  <2>3. QED
    BY <2>2, ScanCounts DEF VerdictsExact, Scan!VerdictsExact, Exact, PortsTried, HostsTried, OwnTried, Recent
<1>2. QED
  BY <1>1, ScanAlways, PTL

-----------------------------------------------------------------------------
(* The process monitor                                                     *)

(* Of a scan under way: a newcomer is yet to be listed, to be looked at or  *)
(* has been announced.                                                     *)
Looked ==
  \A p \in ProcPids \ (KernelPids \cup earlier) :
    <<p, procAlive[p]>> \in scanned =>
      p \in ahead \/ p \in todo \/ Proc!Announced(procAlive[p])

ProcInv ==
  /\ forks \in Nat /\ procAlive \in [ProcPids -> 0..forks]
  /\ procQueue \in Seq(Proc!Message) /\ published \in Seq(Proc!Message)
  /\ forks <= MaxForks /\ scanned \subseteq ProcPids \X (1..forks)
  /\ converter = "idle" => procKnown \subseteq during
  /\ Proc!Scanning => current \cup Proc!Present \subseteq during
  /\ converter = "scanning" => procKnown \subseteq earlier /\ Looked

(* One more event takes no announcement back.                              *)
LEMMA AnnouncedStays ==
  ASSUME published \in Seq(Proc!Message), NEW m \in Proc!Message, published' = Append(published, m)
  PROVE  /\ published' \in Seq(Proc!Message)
         /\ \A n : Proc!Announced(n) => Proc!Announced(n)'
         /\ \A n : n = m.proc => Proc!Announced(n)'
<1>1. /\ published' \in Seq(Proc!Message) /\ Len(published') = Len(published) + 1
      /\ \A i \in 1..Len(published) : published'[i] = published[i]
      /\ published'[Len(published) + 1] = m
  BY AppendProperties
<1>2. /\ Len(published) \in Nat /\ DOMAIN published = 1..Len(published)
      /\ DOMAIN published' = 1..(Len(published) + 1)
  BY <1>1, LenProperties
<1>3. QED
  BY <1>1, <1>2 DEF Proc!Announced

(* Processes come, with a number never used before, and go.                *)
LEMMA ForkExitKeeps ==
  ASSUME ProcInv, NEW p \in ProcPids, Proc!Fork(p) \/ Proc!Exit(p)
  PROVE  ProcInv'
<1>0. MaxForks \in Nat
  BY SensorsAssumption DEF Proc!ProcessAssumption
<1>1. UNCHANGED <<netlink, converter, procKnown, current, ahead, todo, scanned, earlier,
                  published>>
  BY DEF Proc!Fork, Proc!Exit, Proc!pollVars, Proc!scanVars
<1>2. /\ forks' \in Nat /\ forks' <= MaxForks /\ procAlive' \in [ProcPids -> 0..forks']
      /\ forks <= forks' /\ \A q \in ProcPids \ {p} : procAlive'[q] = procAlive[q]
      /\ procAlive'[p] \notin 1..forks
  <2>1. forks \in Nat /\ forks <= MaxForks /\ procAlive \in [ProcPids -> 0..forks]
    BY DEF ProcInv
  <2>2. \/ /\ forks < MaxForks /\ forks' = forks + 1
           /\ procAlive' = [procAlive EXCEPT ![p] = forks + 1]
        \/ forks' = forks /\ procAlive' = [procAlive EXCEPT ![p] = 0]
    BY DEF Proc!Fork, Proc!Exit
  <2>3. QED
    BY <1>0, <2>1, <2>2
<1>3. procQueue' \in Seq(Proc!Message)
  <2>1. ASSUME NEW m \in Proc!Message, Proc!Multicast(m) PROVE procQueue' \in Seq(Proc!Message)
    <3>1. procQueue \in Seq(Proc!Message)
      BY DEF ProcInv
    <3>2. procQueue' = procQueue \/ procQueue' = Append(procQueue, m)
      BY <2>1 DEF Proc!Multicast
    <3>3. Append(procQueue, m) \in Seq(Proc!Message)
      BY <2>1, <3>1, AppendProperties
    <3>4. QED
      BY <3>1, <3>2, <3>3
  <2>2. CASE Proc!Fork(p)
    <3>1. [kind |-> "fork", pid |-> p, proc |-> forks + 1] \in Proc!Message
      BY <1>0, <2>2 DEF ProcInv, Proc!Fork, Proc!Message, Proc!Process
    <3>2. QED
      BY <2>1, <2>2, <3>1 DEF Proc!Fork
  <2>3. CASE Proc!Exit(p)
    <3>1. [kind |-> "exit", pid |-> p, proc |-> procAlive[p]] \in Proc!Message
      BY <1>0, <2>3 DEF ProcInv, Proc!Exit, Proc!Message, Proc!Process
    <3>2. QED
      BY <2>1, <2>3, <3>1 DEF Proc!Exit
  <2>4. QED
    BY <2>2, <2>3
<1>4. scanned' \subseteq ProcPids \X (1..forks')
  <2>1. 1..forks \subseteq 1..forks'
    BY <1>2 DEF ProcInv
  <2>2. QED
    BY <1>1, <2>1 DEF ProcInv
<1>5. Looked => Looked'
  <2>1. <<p, procAlive'[p]>> \notin scanned
    BY <1>2 DEF ProcInv
  <2>2. QED
    BY <1>1, <1>2, <2>1 DEF Looked, Proc!Announced
<1>6. /\ during \subseteq during'
      /\ Proc!Scanning => Proc!Present' \subseteq during'
  <2>1. Proc!Present' \subseteq Proc!Present \cup {p}
    BY <1>2 DEF ProcInv, Proc!Present
  <2>2. CASE Proc!Fork(p)
    BY <2>1, <2>2 DEF ProcInv, Proc!Fork
  <2>3. CASE Proc!Exit(p)
    <3>1. Proc!Present' \subseteq Proc!Present /\ during' = during
      BY <2>3 DEF ProcInv, Proc!Exit, Proc!Present
    <3>2. QED
      BY <3>1 DEF ProcInv
  <2>4. QED
    BY <2>2, <2>3
<1>7. QED
  BY <1>1, <1>2, <1>3, <1>4, <1>5, <1>6 DEF ProcInv, Proc!Scanning

(* A pid of the scan is looked at: what is announced is the process that   *)
(* has it by then.                                                         *)
LEMMA GatherKeeps ==
  ASSUME ProcInv, NEW p \in ProcPids, Proc!Gather(p)
  PROVE  ProcInv'
<1>0. MaxForks \in Nat
  BY SensorsAssumption DEF Proc!ProcessAssumption
<1>1. /\ converter = "scanning" /\ todo' = todo \ {p}
      /\ UNCHANGED <<procAlive, forks, netlink, procQueue, converter, procKnown, current,
                     ahead, scanned, during, earlier>>
      /\ Looked
  BY DEF Proc!Gather, Proc!procVars, Proc!scanVars, ProcInv
<1>2. procAlive[p] = 0 \/ procAlive[p] \in 1..MaxForks
  BY <1>0 DEF ProcInv
<1>3. /\ published' \in Seq(Proc!Message)
      /\ \A n : Proc!Announced(n) => Proc!Announced(n)'
      /\ Proc!Announceable(p) => Proc!Announced(procAlive[p])'
  <2>1. CASE Proc!Announceable(p)
    <3> DEFINE m == [kind |-> "fork", pid |-> p, proc |-> procAlive[p]]
    <3>1. m \in Proc!Message /\ m.proc = procAlive[p]
      BY <1>2, <2>1 DEF Proc!Announceable, Proc!Message, Proc!Process
    <3>2. published' = Append(published, m) /\ published \in Seq(Proc!Message)
      BY <2>1 DEF Proc!Gather, ProcInv
    <3> HIDE DEF m
    <3>3. \A n : n = procAlive[p] => Proc!Announced(n)'
      BY <3>1, <3>2, AnnouncedStays
    <3>4. Proc!Announced(procAlive[p])'
      BY <1>1, <3>3 DEF Proc!Announced
    <3>5. QED
      BY <3>1, <3>2, <3>4, AnnouncedStays
  <2>2. CASE ~Proc!Announceable(p)
    <3>1. published' = published
      BY <2>2 DEF Proc!Gather
    <3>2. QED
      BY <2>2, <3>1 DEF ProcInv, Proc!Announced
  <2>3. QED
    BY <2>1, <2>2
<1>4. Looked'
  <2> SUFFICES ASSUME NEW q \in ProcPids \ (KernelPids \cup earlier), <<q, procAlive[q]>> \in scanned
               PROVE  q \in ahead \/ q \in todo \ {p} \/ Proc!Announced(procAlive[q])'
    BY <1>1 DEF Looked
  <2>1. CASE q = p
    <3>1. Proc!Announceable(p)
      BY <2>1 DEF ProcInv, Proc!Announceable
    <3>2. QED
      BY <1>3, <2>1, <3>1
  <2>2. CASE q # p
    BY <1>1, <1>3, <2>2 DEF Looked
  <2>3. QED
    BY <2>1, <2>2
<1>5. QED
  BY <1>1, <1>3, <1>4 DEF ProcInv, Proc!Scanning, Proc!Present

(* The listing comes to a pid: a newcomer's is not known, for known has    *)
(* only pids of the scan before.                                           *)
LEMMA ListKeeps ==
  ASSUME ProcInv, NEW p \in ProcPids, Proc!List(p)
  PROVE  ProcInv'
<1>1. /\ Proc!Scanning /\ ahead' = ahead \ {p}
      /\ current' = current \cup ({p} \cap Proc!Present)
      /\ converter = "scanning" => todo' = todo \cup (({p} \cap Proc!Present) \ procKnown)
      /\ UNCHANGED <<procAlive, forks, procQueue, converter, procKnown, scanned, during, earlier,
                     published>>
  BY DEF Proc!List, Proc!procVars, Proc!scanVars
<1>2. current' \cup Proc!Present \subseteq during
  BY <1>1 DEF ProcInv
<1>3. ASSUME converter = "scanning" PROVE Looked'
  <2> SUFFICES ASSUME NEW q \in ProcPids \ (KernelPids \cup earlier), <<q, procAlive[q]>> \in scanned
               PROVE  q \in ahead' \/ q \in todo' \/ Proc!Announced(procAlive[q])
    BY <1>1 DEF Looked, Proc!Announced
  <2>1. q \in ahead \/ q \in todo \/ Proc!Announced(procAlive[q])
    BY <1>3 DEF ProcInv, Looked
  <2>2. q \in Proc!Present /\ q \notin procKnown
    BY <1>3 DEF ProcInv, Proc!Present
  <2>3. QED
    BY <1>1, <1>3, <2>1, <2>2
<1>4. QED
  BY <1>1, <1>2, <1>3 DEF ProcInv, Proc!Scanning, Proc!Present

(* What the other steps of the monitor and of the converter leave.         *)
LEMMA ConverterKeeps ==
  ASSUME ProcInv,
         \/ Proc!Connect \/ Proc!RunEnds \/ Proc!Started \/ Proc!Convert
         \/ Proc!ConverterEnds \/ Proc!EndScan
  PROVE  ProcInv'
<1>1. CASE Proc!Connect \/ Proc!RunEnds \/ Proc!Started
  <2>1. /\ UNCHANGED <<procAlive, forks, procQueue, procKnown, current, ahead, todo, scanned,
                       during, earlier, published>>
        /\ converter' = converter \/ converter' \in {"netlink", "seeding"}
    BY <1>1 DEF Proc!Connect, Proc!RunEnds, Proc!Started, Proc!procVars, Proc!pollVars, Proc!scanVars
  <2>2. QED
    BY <2>1 DEF ProcInv, Looked, Proc!Announced, Proc!Scanning, Proc!Present
<1>2. CASE Proc!Convert
  <2>1. /\ converter = "netlink" /\ procQueue # <<>>
        /\ published' = Append(published, Head(procQueue)) /\ procQueue' = Tail(procQueue)
        /\ UNCHANGED <<procAlive, forks, converter, procKnown, scanned, during, earlier>>
    BY <1>2 DEF Proc!Convert, Proc!procVars, Proc!pollVars, Proc!scanVars
  <2>2. procQueue \in Seq(Proc!Message) /\ published \in Seq(Proc!Message)
    BY DEF ProcInv
  <2>3. Head(procQueue) \in Proc!Message /\ procQueue' \in Seq(Proc!Message)
    BY <2>1, <2>2, HeadTailProperties
  <2>4. published' \in Seq(Proc!Message)
    BY <2>1, <2>2, <2>3, AppendProperties
  <2>5. QED
    BY <2>1, <2>3, <2>4 DEF ProcInv, Proc!Scanning
<1>3. CASE Proc!ConverterEnds
  <2>1. \/ procQueue' = procQueue
        \/ procQueue # <<>> /\ procQueue' = Tail(procQueue)
    BY <1>3 DEF Proc!ConverterEnds
  <2>2. procQueue' \in Seq(Proc!Message)
    BY <2>1, HeadTailProperties DEF ProcInv
  <2>3. converter' = "done"
    BY <1>3 DEF Proc!ConverterEnds
  <2>4. UNCHANGED <<procAlive, forks, scanned, published>>
    BY <1>3 DEF Proc!ConverterEnds, Proc!procVars, Proc!pollVars, Proc!scanVars
  <2>5. QED
    BY <2>2, <2>3, <2>4 DEF ProcInv, Proc!Scanning
<1>4. CASE Proc!EndScan
  <2>1. /\ Proc!Scanning /\ converter' = "idle" /\ procKnown' = current
        /\ UNCHANGED <<procAlive, forks, procQueue, scanned, during, earlier, published>>
    BY <1>4 DEF Proc!EndScan, Proc!procVars, Proc!scanVars
  <2>2. QED
    BY <2>1 DEF ProcInv, Proc!Scanning
<1>5. QED
  BY <1>1, <1>2, <1>3, <1>4

(* /proc is opened: a scan starts from what there is.                      *)
LEMMA OpenKeeps ==
  ASSUME ProcInv, Proc!Seed \/ Proc!BeginScan
  PROVE  ProcInv'
<1>1. UNCHANGED <<procAlive, forks, procQueue, procKnown, published>>
  BY DEF Proc!Seed, Proc!BeginScan, Proc!procVars
<1>2. ASSUME Proc!Open
      PROVE  /\ scanned' \subseteq ProcPids \X (1..forks) /\ ahead' = ProcPids
             /\ current' \cup Proc!Present \subseteq during' /\ earlier' = during
  <2>1. \A p \in Proc!Present : p \in ProcPids /\ procAlive[p] \in 1..forks
    BY DEF ProcInv, Proc!Present
  <2>2. QED
    BY <1>2, <2>1 DEF Proc!Open
<1>3. CASE Proc!Seed
  <2>1. CASE converter' = "done"
    <3>1. scanned' = scanned
      BY <1>3, <2>1 DEF Proc!Seed, Proc!scanVars
    <3>2. QED
      BY <1>1, <2>1, <3>1 DEF ProcInv, Proc!Scanning
  <2>2. CASE converter' # "done"
    <3>1. Proc!Open /\ converter' = "first"
      BY <1>3, <2>2 DEF Proc!Seed
    <3>2. QED
      BY <1>1, <1>2, <3>1 DEF ProcInv, Proc!Scanning, Proc!Present
  <2>3. QED
    BY <2>1, <2>2
<1>4. CASE Proc!BeginScan
  <2>1. converter = "idle" /\ converter' = "scanning" /\ Proc!Open
    BY <1>4 DEF Proc!BeginScan
  <2>2. procKnown \subseteq earlier'
    BY <1>2, <2>1 DEF ProcInv
  <2>3. Looked'
    BY <1>2, <2>1 DEF Looked
  <2>4. QED
    BY <1>1, <1>2, <2>1, <2>2, <2>3 DEF ProcInv, Proc!Scanning, Proc!Present
<1>5. QED
  BY <1>3, <1>4

(* The process monitor's invariant.                                        *)
LEMMA ProcAlways == AllSpec => []ProcInv
<1>1. AllInit => ProcInv
  <2> SUFFICES ASSUME Proc!Init PROVE ProcInv
    BY DEF AllInit
  <2>1. /\ procQueue \in Seq(Proc!Message) /\ published \in Seq(Proc!Message)
    BY EmptySeq DEF Proc!Init
  <2>2. QED
    BY <2>1, SensorsAssumption DEF Proc!Init, ProcInv, Proc!ProcessAssumption, Proc!Scanning
<1>2. ProcInv /\ [AllNext]_allVars => ProcInv'
  <2> SUFFICES ASSUME ProcInv, [Proc!Next]_(Proc!vars) PROVE ProcInv'
    BY PartSteps
  <2>1. ASSUME NEW p \in ProcPids, Proc!Fork(p) \/ Proc!Exit(p) PROVE ProcInv'
    BY <2>1, ForkExitKeeps
  <2>2. ASSUME NEW p \in ProcPids, Proc!Gather(p) PROVE ProcInv'
    BY <2>2, GatherKeeps
  <2>6. ASSUME NEW p \in ProcPids, Proc!List(p) PROVE ProcInv'
    BY <2>6, ListKeeps
  <2>3. CASE \/ Proc!Connect \/ Proc!RunEnds \/ Proc!Started \/ Proc!Convert
             \/ Proc!ConverterEnds \/ Proc!EndScan
    BY <2>3, ConverterKeeps
  <2>4. CASE Proc!Seed \/ Proc!BeginScan
    BY <2>4, OpenKeeps
  <2>5. CASE UNCHANGED Proc!vars
    <3>1. UNCHANGED <<procAlive, forks, procQueue, converter, procKnown, current, ahead, todo,
                      scanned, during, earlier, published>>
      BY <2>5 DEF Proc!vars, Proc!procVars, Proc!pollVars, Proc!scanVars
    <3>2. QED
      BY <3>1 DEF ProcInv, Looked, Proc!Announced, Proc!Scanning, Proc!Present
  <2>7. QED
    BY <2>1, <2>2, <2>3, <2>4, <2>5, <2>6 DEF Proc!Next, Proc!ConverterStep
<1>3. QED
  BY <1>1, <1>2, PTL DEF AllSpec

(* Every process that was there when a scan began, its pid new, and that   *)
(* still has it when the scan ends has been announced, whatever comes and  *)
(* goes meanwhile: poll_process_snapshot of process/mod.rs.                *)
THEOREM NewcomersCorrect == AllSpec => NewcomersAnnounced
<1> DEFINE Kept == converter = "scanning" /\ converter' = "idle" =>
                     \A p \in ProcPids \ (KernelPids \cup earlier) :
                       <<p, procAlive[p]>> \in scanned => Proc!Announced(procAlive[p])
<1>1. ProcInv /\ [AllNext]_allVars => [Kept]_(Proc!vars)
  <2> SUFFICES ASSUME ProcInv, Proc!Next, converter = "scanning", converter' = "idle"
               PROVE  Kept
    BY PartSteps
  <2>1. Proc!EndScan
    BY DEF Proc!Next, Proc!ConverterStep, Proc!Fork, Proc!Exit, Proc!Connect, Proc!RunEnds,
           Proc!Started, Proc!Convert, Proc!Seed, Proc!BeginScan, Proc!List, Proc!Gather,
           Proc!ConverterEnds, Proc!pollVars
  <2>2. ahead = {} /\ todo = {} /\ Looked
    BY <2>1 DEF Proc!EndScan, ProcInv
  <2>3. QED
    BY <2>2 DEF Looked
<1>2. QED
  BY <1>1, ProcAlways, PTL DEF AllSpec, NewcomersAnnounced, Proc!NewcomersAnnounced

-----------------------------------------------------------------------------
(* The file event loop                                                     *)

Rising(q) == \A i, j \in 1..Len(q) : i < j => q[i] <= q[j]
Tight(h, S) == \A i, j \in S : h[i] - h[j] <= BurstWindow

(* The writes that have left the window, and those still in it.            *)
Left == 1..(Len(fileHistory) - Len(window))
Held == (Len(fileHistory) - Len(window) + 1)..Len(fileHistory)

(* The writes from i on, up to m, that are within a window of i and in no  *)
(* set of A; and that they are never enough for an alert.                  *)
Burst(h, A, m, i) == {j \in i..m : j \notin UNION A /\ h[j] - h[i] <= BurstWindow}
NoBurst(h, A, m) == \A i \in 1..m : Cardinality(Burst(h, A, m, i)) < MinFiles

Raised == {alerts[a] : a \in DOMAIN alerts}

LoopTyped ==
  /\ now \in Nat /\ fileHistory \in Seq(Nat) /\ window \in Seq(Nat)
  /\ alerts \in Seq(SUBSET Nat)

LoopInv ==
  /\ LoopTyped
  /\ Rising(fileHistory) /\ \A i \in 1..Len(fileHistory) : fileHistory[i] <= now
  /\ Len(window) <= Len(fileHistory)
  /\ Suffix(window, fileHistory, Len(fileHistory) - Len(window))
  /\ \A a \in DOMAIN alerts :
       /\ alerts[a] \subseteq Left /\ Cardinality(alerts[a]) >= MinFiles
       /\ Tight(fileHistory, alerts[a])
       /\ \A b \in DOMAIN alerts : a # b => alerts[a] \cap alerts[b] = {}
  /\ \A j \in Left \ UNION Raised : now - fileHistory[j] > BurstWindow
  /\ IF loopPc = "alert"
     THEN /\ Len(window) >= MinFiles /\ Tight(fileHistory, Held)
          /\ NoBurst(fileHistory, Raised, Len(fileHistory) - 1)
     ELSE /\ Len(window) < MinFiles
          /\ NoBurst(fileHistory, Raised, Len(fileHistory))

(* What the loop's proof needs of the constants.                           *)
LEMMA LoopConstants == BurstWindow \in Nat /\ MinFiles \in Nat /\ MinFiles > 0
BY SensorsAssumption DEF Loop!LoopAssumption

(* The loop's module counts like this one.                                 *)
LEMMA LoopCount == \A S : Loop!Cardinality(S) = Cardinality(S)
BY DEF Loop!Cardinality, Cardinality

(* A part of an interval is no larger than the interval.                   *)
LEMMA PartOfInterval ==
  ASSUME NEW a \in Int, NEW b \in Int, NEW S \in SUBSET (a..b)
  PROVE  IsFiniteSet(S) /\ Cardinality(S) \in Nat /\ Cardinality(S) <= Cardinality(a..b)
         /\ Cardinality(a..b) = IF a > b THEN 0 ELSE b - a + 1
<1>1. IsFiniteSet(a..b) /\ Cardinality(a..b) = IF a > b THEN 0 ELSE b - a + 1
  BY FS_Interval
<1>2. IsFiniteSet(S) /\ Cardinality(S) <= Cardinality(a..b)
  BY <1>1, FS_Subset
<1>3. QED
  BY <1>1, <1>2, FS_CardinalityType

(* Fewer writes counted are still not enough.                              *)
LEMMA FewerAreFew ==
  ASSUME NEW a \in Int, NEW b \in Int, NEW T \in SUBSET (a..b), NEW S \in SUBSET T,
         Cardinality(T) < MinFiles
  PROVE  Cardinality(S) < MinFiles
<1>1. IsFiniteSet(T) /\ Cardinality(T) \in Nat
  BY PartOfInterval
<1>2. IsFiniteSet(S) /\ Cardinality(S) <= Cardinality(T)
  BY <1>1, FS_Subset
<1>3. Cardinality(S) \in Nat
  BY <1>2, FS_CardinalityType
<1>4. MinFiles \in Nat
  BY LoopConstants
<1>5. QED
  BY <1>1, <1>2, <1>3, <1>4

(* A longer history that begins alike, with more alerts, has no more in    *)
(* its beginning.                                                          *)
LEMMA NoBurstStays ==
  ASSUME NEW h, NEW h2, NEW A, NEW A2, NEW m \in Nat,
         \A i \in 1..m : h2[i] = h[i], A \subseteq A2, NoBurst(h, A, m)
  PROVE  NoBurst(h2, A2, m)
<1> SUFFICES ASSUME NEW i \in 1..m PROVE Cardinality(Burst(h2, A2, m, i)) < MinFiles
  BY DEF NoBurst
<1>1. Burst(h2, A2, m, i) \subseteq Burst(h, A, m, i) /\ Burst(h, A, m, i) \subseteq i..m
  <2>1. \A j \in i..m : h2[j] = h[j]
    OBVIOUS
  <2>2. UNION A \subseteq UNION A2
    OBVIOUS
  <2>3. QED
    BY <2>1, <2>2 DEF Burst
<1>2. Cardinality(Burst(h, A, m, i)) < MinFiles /\ i \in Int /\ m \in Int
  BY DEF NoBurst
<1>3. QED
  BY <1>1, <1>2, FewerAreFew

(* The records a full pass leaves in the window are exactly the recent     *)
(* ones: those that go are the first ones, because they are in order.      *)
LEMMA WindowPruned ==
  ASSUME NEW q \in Seq(Nat), Rising(q), Len(q) # 0, now \in Nat,
         now - q[Len(q)] <= BurstWindow
  PROVE  \E m \in 0..(Len(q) - 1) :
           /\ SubSeq(q, Loop!Cardinality(Loop!Expired(q)) + 1, Len(q)) \in Seq(Nat)
           /\ Suffix(SubSeq(q, Loop!Cardinality(Loop!Expired(q)) + 1, Len(q)), q, m)
           /\ \A j \in 1..m : now - q[j] > BurstWindow
           /\ \A j \in (m + 1)..Len(q) : now - q[j] <= BurstWindow
<1> DEFINE l == Len(q)
           T == {i \in 1..l : now - q[i] <= BurstWindow}
<1>1. l \in Nat /\ DOMAIN q = 1..l /\ l > 0 /\ \A i \in 1..l : q[i] \in Nat
  BY LenProperties, ElementOfSeq
<1>2. l \in T
  BY <1>1, LoopConstants
<1>a. T \in SUBSET (1..l) /\ T # {}
  BY <1>2
<1> HIDE DEF T, l
<1>3. PICK c \in T : \A k \in T : c <= k
  BY <1>1, <1>a, LeastOf
<1>4. c \in 1..l /\ now - q[c] <= BurstWindow /\ now \in Nat
  BY <1>3 DEF T, l
<1>5. \A j \in 1..(c - 1) : now - q[j] > BurstWindow
  <2> SUFFICES ASSUME NEW j \in 1..(c - 1) PROVE now - q[j] > BurstWindow
    OBVIOUS
  <2>1. j \in 1..l /\ ~(c <= j)
    BY <1>1, <1>4
  <2>2. ~(now - q[j] <= BurstWindow) /\ q[j] \in Nat
    BY <1>1, <1>3, <2>1 DEF T
  <2>3. QED
    BY <2>2, LoopConstants
<1>6. \A j \in c..l : now - q[j] <= BurstWindow
  <2> SUFFICES ASSUME NEW j \in c..l PROVE now - q[j] <= BurstWindow
    OBVIOUS
  <2>1. j \in 1..l /\ (c = j \/ c < j)
    BY <1>1, <1>4
  <2>2. q[c] <= q[j] /\ q[c] \in Nat /\ q[j] \in Nat
    BY <1>1, <1>4, <2>1 DEF Rising, l
  <2>3. \A a, b \in Nat : a <= b /\ now - a <= BurstWindow => now - b <= BurstWindow
    BY LoopConstants
  <2>4. QED
    BY <1>4, <2>2, <2>3
<1>7. Loop!Expired(q) = 1..(c - 1)
  <2>1. ASSUME NEW i \in 1..l PROVE now - q[i] > BurstWindow <=> i <= c - 1
    <3>1. CASE i <= c - 1
      <4>1. i \in 1..(c - 1)
        BY <1>4, <3>1
      <4>2. QED
        BY <1>5, <3>1, <4>1
    <3>2. CASE ~(i <= c - 1)
      <4>1. i \in c..l
        BY <1>1, <1>4, <3>2
      <4>2. now - q[i] <= BurstWindow /\ q[i] \in Nat
        BY <1>1, <1>6, <4>1
      <4>3. ~(now - q[i] > BurstWindow)
        BY <4>2, LoopConstants
      <4>4. QED
        BY <3>2, <4>3
    <3>3. QED
      BY <3>1, <3>2
  <2>2. Loop!Expired(q) = {i \in 1..l : now - q[i] > BurstWindow}
    BY <1>1 DEF Loop!Expired
  <2>3. 1..(c - 1) \subseteq 1..l
    BY <1>1, <1>4
  <2>4. \A i \in 1..l : i <= c - 1 <=> i \in 1..(c - 1)
    BY <1>1, <1>4
  <2>5. QED
    BY <2>1, <2>2, <2>3, <2>4
<1>8. Loop!Cardinality(Loop!Expired(q)) + 1 = c
  <2>1. Cardinality(1..(c - 1)) = IF 1 > c - 1 THEN 0 ELSE (c - 1) - 1 + 1
    BY <1>4, FS_Interval
  <2>2. QED
    BY <1>4, <1>7, <2>1, LoopCount
<1> DEFINE r == SubSeq(q, c, l)
<1>9. r \in Seq(Nat) /\ Len(r) = l - c + 1 /\ \A i \in 1..(l - c + 1) : r[i] = q[c + i - 1]
  <2>1. c \in Int /\ l \in Int /\ c <= l /\ \A i \in c..l : q[i] \in Nat
    BY <1>1, <1>4
  <2>2. /\ r \in Seq(Nat) /\ Len(r) = IF c <= l THEN l - c + 1 ELSE 0
        /\ \A i \in 1..(l - c + 1) : r[i] = q[c + i - 1]
    BY <2>1, SubSeqProperties
  <2>3. QED
    BY <2>1, <2>2
<1> HIDE DEF r
<1>10. Suffix(r, q, c - 1)
  BY <1>1, <1>4, <1>9 DEF Suffix, l
<1>11. SubSeq(q, Loop!Cardinality(Loop!Expired(q)) + 1, Len(q)) = r
  BY <1>8 DEF r, l
<1>12. c - 1 \in 0..(Len(q) - 1) /\ (c - 1) + 1 = c
  BY <1>1, <1>4 DEF l
<1>13. \A j \in ((c - 1) + 1)..Len(q) : now - q[j] <= BurstWindow
  BY <1>6, <1>12 DEF l
<1>14. QED
  BY <1>5, <1>9, <1>10, <1>11, <1>12, <1>13

(* What the invariant says of the sequences, index by index.               *)
LEMMA LoopFacts ==
  ASSUME LoopInv
  PROVE  /\ Len(fileHistory) \in Nat /\ Len(window) \in Nat /\ Len(window) <= Len(fileHistory)
         /\ \A i \in 1..Len(fileHistory) : fileHistory[i] \in Nat /\ fileHistory[i] <= now
         /\ \A i \in 1..Len(window) :
              /\ window[i] \in Nat
              /\ window[i] = fileHistory[i + (Len(fileHistory) - Len(window))]
         /\ DOMAIN alerts = 1..Len(alerts) /\ Len(alerts) \in Nat
         /\ now \in Nat
<1>1. /\ fileHistory \in Seq(Nat) /\ window \in Seq(Nat) /\ alerts \in Seq(SUBSET Nat)
      /\ now \in Nat
  BY DEF LoopInv, LoopTyped
<1>2. /\ Len(fileHistory) \in Nat /\ \A i \in 1..Len(fileHistory) : fileHistory[i] \in Nat
      /\ Len(window) \in Nat /\ \A i \in 1..Len(window) : window[i] \in Nat
      /\ DOMAIN alerts = 1..Len(alerts) /\ Len(alerts) \in Nat
  BY <1>1, LenProperties, ElementOfSeq
<1>3. QED
  BY <1>1, <1>2 DEF LoopInv, Suffix

(* A high write is handled: the window gets the record and loses those     *)
(* that are too old, and either it is full or there is no burst.           *)
LEMMA HashedKeeps ==
  ASSUME LoopInv, loopPc = "hash", fileRaw = "high", Loop!Hashed
  PROVE  LoopInv'
<1> DEFINE n == Len(fileHistory)
           w == Len(window)
           all == Append(window, now)
<1>1. /\ n \in Nat /\ w \in Nat /\ w <= n /\ now \in Nat
      /\ \A i \in 1..n : fileHistory[i] \in Nat /\ fileHistory[i] <= now
      /\ \A i \in 1..w : window[i] \in Nat /\ window[i] = fileHistory[i + (n - w)]
  BY LoopFacts
<1>2. /\ all \in Seq(Nat) /\ Len(all) = w + 1 /\ all[w + 1] = now
      /\ \A i \in 1..w : all[i] = fileHistory[i + (n - w)]
  <2>1. window \in Seq(Nat) /\ now \in Nat
    BY DEF LoopInv, LoopTyped
  <2>2. /\ all \in Seq(Nat) /\ Len(all) = w + 1 /\ all[w + 1] = now
        /\ \A i \in 1..w : all[i] = window[i]
    BY <2>1, AppendProperties
  <2>3. QED
    BY <1>1, <2>2
<1>3. /\ now' = now /\ alerts' = alerts /\ fileHistory' = Append(fileHistory, now)
      /\ window' = SubSeq(all, Loop!Cardinality(Loop!Expired(all)) + 1, Len(all))
      /\ loopPc' = IF Len(window') >= MinFiles THEN "alert" ELSE "publish"
  BY DEF Loop!Hashed
<1>4. /\ fileHistory' \in Seq(Nat) /\ Len(fileHistory') = n + 1
      /\ fileHistory'[n + 1] = now
      /\ \A i \in 1..n : fileHistory'[i] = fileHistory[i]
  <2>1. fileHistory \in Seq(Nat) /\ now \in Nat
    BY DEF LoopInv, LoopTyped
  <2>2. QED
    BY <1>3, <2>1, AppendProperties
<1> HIDE DEF all, n, w
<1>5. \A i, j \in 1..(n + 1) :
        /\ i < j => fileHistory'[i] <= fileHistory'[j]
        /\ fileHistory'[i] \in Nat /\ fileHistory'[i] <= now
  <2>1. \A i \in 1..(n + 1) : fileHistory'[i] \in Nat /\ fileHistory'[i] <= now
    <3> SUFFICES ASSUME NEW i \in 1..(n + 1) PROVE fileHistory'[i] \in Nat /\ fileHistory'[i] <= now
      OBVIOUS
    <3>1. i \in 1..n \/ i = n + 1
      BY <1>1
    <3>2. QED
      BY <1>1, <1>4, <3>1
  <2>2. ASSUME NEW i \in 1..(n + 1), NEW j \in 1..(n + 1), i < j
        PROVE  fileHistory'[i] <= fileHistory'[j]
    <3>1. i \in 1..n /\ (j \in 1..n \/ j = n + 1)
      BY <1>1, <2>2
    <3>2. \A a, b \in 1..n : a < b => fileHistory[a] <= fileHistory[b]
      BY DEF LoopInv, Rising, n
    <3>3. QED
      BY <1>1, <1>4, <2>2, <3>1, <3>2
  <2>3. QED
    BY <2>1, <2>2
<1>6. Rising(all)
  <2> SUFFICES ASSUME NEW i \in 1..(w + 1), NEW j \in 1..(w + 1), i < j PROVE all[i] <= all[j]
    BY <1>2 DEF Rising
  <2>1. i \in 1..w /\ (j \in 1..w \/ j = w + 1)
    BY <1>1
  <2>2. i + (n - w) \in 1..n /\ (j \in 1..w => j + (n - w) \in 1..n /\ i + (n - w) < j + (n - w))
    BY <1>1, <2>1
  <2>3. \A a, b \in 1..n : a < b => fileHistory[a] <= fileHistory[b]
    BY DEF LoopInv, Rising, n
  <2>4. CASE j \in 1..w
    <3>1. fileHistory[i + (n - w)] <= fileHistory[j + (n - w)]
      BY <2>2, <2>3, <2>4
    <3>2. QED
      BY <1>2, <2>1, <2>4, <3>1
  <2>5. CASE j = w + 1
    <3>1. fileHistory[i + (n - w)] <= now
      BY <1>1, <2>2
    <3>2. QED
      BY <1>2, <2>1, <2>5, <3>1
  <2>6. QED
    BY <2>1, <2>4, <2>5
<1>7. PICK m \in 0..(Len(all) - 1) :
        /\ window' \in Seq(Nat) /\ Suffix(window', all, m)
        /\ \A j \in 1..m : now - all[j] > BurstWindow
        /\ \A j \in (m + 1)..Len(all) : now - all[j] <= BurstWindow
  <2>1. Len(all) # 0 /\ now - all[Len(all)] <= BurstWindow
    BY <1>1, <1>2, LoopConstants
  <2>2. QED
    BY <1>1, <1>2, <1>3, <1>6, <2>1, WindowPruned
<1>8. /\ m \in 0..w /\ Len(window') = w + 1 - m
      /\ \A i \in 1..(w + 1 - m) : window'[i] = all[i + m]
      /\ Len(fileHistory') - Len(window') = n - w + m
      /\ n - w + m \in 0..n
  <2>1. m \in 0..w
    BY <1>1, <1>2, <1>7
  <2>2. Len(window') = w + 1 - m
    <3>1. Len(window') = Len(all) - m
      BY <1>7 DEF Suffix
    <3>2. Len(all) = w + 1
      BY <1>2
    <3>3. QED
      BY <1>1, <2>1, <3>1, <3>2
  <2>3. \A i \in 1..Len(window') : window'[i] = all[i + m]
    BY <1>7 DEF Suffix
  <2>4. Len(fileHistory') - Len(window') = n - w + m /\ n - w + m \in 0..n
    BY <1>1, <1>4, <2>1, <2>2
  <2>5. QED
    BY <2>1, <2>2, <2>3, <2>4
<1> DEFINE p == n - w + m
<1>9. p \in 0..n /\ p = n - w + m
  BY <1>8
<1> HIDE DEF p
<1>10. Suffix(window', fileHistory', p)
  <2>1. ASSUME NEW i \in 1..(w + 1 - m) PROVE window'[i] = fileHistory'[i + p]
    <3>1. i + m \in 1..w \/ i + m = w + 1
      BY <1>1, <1>8
    <3>2. CASE i + m \in 1..w
      <4>1. i + p = (i + m) + (n - w) /\ i + p \in 1..n
        BY <1>1, <1>8, <1>9, <3>2
      <4>2. all[i + m] = fileHistory[i + p]
        BY <1>2, <3>2, <4>1
      <4>3. QED
        BY <1>4, <1>8, <4>1, <4>2
    <3>3. CASE i + m = w + 1
      <4>1. i + p = n + 1
        BY <1>1, <1>8, <1>9, <3>3
      <4>2. QED
        BY <1>2, <1>4, <1>8, <3>3, <4>1
    <3>4. QED
      BY <3>1, <3>2, <3>3
  <2>2. Len(window') = Len(fileHistory') - p
    BY <1>1, <1>4, <1>8, <1>9
  <2>3. QED
    BY <1>8, <2>1, <2>2 DEF Suffix
<1>11. \A j \in 1..p : j \notin UNION Raised => now - fileHistory'[j] > BurstWindow
  <2> SUFFICES ASSUME NEW j \in 1..p, j \notin UNION Raised
               PROVE  now - fileHistory[j] > BurstWindow
    <3>1. \A j \in 1..p : fileHistory'[j] = fileHistory[j]
      BY <1>1, <1>4, <1>9
    <3>2. QED
      BY <3>1
  <2>1. CASE j <= n - w
    <3>1. j \in Left
      BY <1>1, <1>9, <2>1 DEF Left, n, w
    <3>2. QED
      BY <3>1 DEF LoopInv
  <2>2. CASE j > n - w
    <3>1. j - (n - w) \in 1..m /\ j - (n - w) \in 1..w /\ (j - (n - w)) + (n - w) = j
      BY <1>1, <1>8, <1>9, <2>2
    <3>2. all[j - (n - w)] = fileHistory[j]
      BY <1>2, <3>1
    <3>3. now - all[j - (n - w)] > BurstWindow
      BY <1>7, <3>1
    <3>4. QED
      BY <3>2, <3>3
  <2>3. QED
    BY <1>1, <1>9, <2>1, <2>2
<1>12. \A j \in (p + 1)..(n + 1) : now - fileHistory'[j] <= BurstWindow
  <2> SUFFICES ASSUME NEW j \in (p + 1)..(n + 1) PROVE now - fileHistory'[j] <= BurstWindow
    OBVIOUS
  <2>1. j \in 1..n \/ j = n + 1
    BY <1>1, <1>9
  <2>2. CASE j \in 1..n
    <3>1. /\ j - (n - w) \in (m + 1)..(w + 1) /\ j - (n - w) \in 1..w
          /\ (j - (n - w)) + (n - w) = j
      BY <1>1, <1>8, <1>9, <2>2
    <3>2. all[j - (n - w)] = fileHistory[j]
      BY <1>2, <3>1
    <3>3. now - all[j - (n - w)] <= BurstWindow
      BY <1>2, <1>7, <3>1
    <3>4. QED
      BY <1>4, <2>2, <3>2, <3>3
  <2>3. CASE j = n + 1
    BY <1>1, <1>4, <2>3, LoopConstants
  <2>4. QED
    BY <2>1, <2>2, <2>3
<1>13. Left' = 1..p /\ Left \subseteq 1..p /\ Left \subseteq 1..n /\ Held' = (p + 1)..(n + 1) /\ Raised' = Raised
  <2>1. Len(fileHistory') - Len(window') = p
    BY <1>8, <1>9
  <2>2. Left' = 1..p /\ Held' = (p + 1)..(n + 1)
    BY <1>4, <2>1 DEF Left, Held
  <2>3. Left \subseteq 1..p /\ Left \subseteq 1..n
    BY <1>1, <1>8, <1>9 DEF Left, n, w
  <2>4. Raised' = Raised
    BY <1>3 DEF Raised
  <2>5. QED
    BY <2>2, <2>3, <2>4
<1>14. \A a \in DOMAIN alerts' :
         /\ alerts'[a] \subseteq Left' /\ Cardinality(alerts'[a]) >= MinFiles
         /\ Tight(fileHistory', alerts'[a])
         /\ \A b \in DOMAIN alerts' : a # b => alerts'[a] \cap alerts'[b] = {}
  <2> SUFFICES ASSUME NEW a \in DOMAIN alerts
               PROVE  /\ alerts[a] \subseteq Left' /\ Cardinality(alerts[a]) >= MinFiles
                      /\ Tight(fileHistory', alerts[a])
                      /\ \A b \in DOMAIN alerts : a # b => alerts[a] \cap alerts[b] = {}
    BY <1>3
  <2>1. /\ alerts[a] \subseteq Left /\ Cardinality(alerts[a]) >= MinFiles
        /\ Tight(fileHistory, alerts[a])
        /\ \A b \in DOMAIN alerts : a # b => alerts[a] \cap alerts[b] = {}
    BY DEF LoopInv
  <2>2. Tight(fileHistory', alerts[a])
    BY <1>4, <1>13, <2>1 DEF Tight
  <2>3. QED
    BY <1>13, <2>1, <2>2
<1>b. LoopTyped' /\ Rising(fileHistory') /\ \A i \in 1..Len(fileHistory') : fileHistory'[i] <= now'
  BY <1>1, <1>3, <1>4, <1>5, <1>7 DEF LoopInv, LoopTyped, Rising
<1>c. Len(window') <= Len(fileHistory') /\ Suffix(window', fileHistory', Len(fileHistory') - Len(window'))
  <2>1. Len(fileHistory') - Len(window') = p
    BY <1>8, <1>9
  <2>2. Len(window') <= Len(fileHistory')
    BY <1>1, <1>4, <1>8
  <2>3. QED
    BY <1>10, <2>1, <2>2
<1>d. \A j \in Left' \ UNION Raised' : now' - fileHistory'[j] > BurstWindow
  BY <1>3, <1>11, <1>13
<1>15. NoBurst(fileHistory', Raised, n)
  <2>1. NoBurst(fileHistory, Raised, n)
    BY DEF LoopInv, n
  <2>2. QED
    BY <1>1, <1>4, <2>1, NoBurstStays
<1>16. CASE Len(window') >= MinFiles
  <2>a. loopPc' = "alert"
    BY <1>3, <1>16
  <2>1. Len(fileHistory') - 1 = n
    BY <1>1, <1>4
  <2>2. Tight(fileHistory', Held')
    <3> SUFFICES ASSUME NEW i \in (p + 1)..(n + 1), NEW j \in (p + 1)..(n + 1)
                 PROVE  fileHistory'[i] - fileHistory'[j] <= BurstWindow
      BY <1>13 DEF Tight
    <3>1. i \in 1..(n + 1) /\ j \in 1..(n + 1)
      BY <1>1, <1>9
    <3>2. /\ fileHistory'[i] \in Nat /\ fileHistory'[i] <= now
          /\ fileHistory'[j] \in Nat /\ now - fileHistory'[j] <= BurstWindow
      BY <1>5, <1>12, <3>1
    <3>3. \A a, b \in Nat : a <= now /\ now - b <= BurstWindow => a - b <= BurstWindow
      BY <1>1, LoopConstants
    <3>4. QED
      BY <3>2, <3>3
  <2>3. QED
    BY <1>b, <1>c, <1>d, <1>13, <1>14, <1>15, <1>16, <2>a, <2>1, <2>2 DEF LoopInv
<1>17. CASE Len(window') < MinFiles
  <2>a. ~(Len(window') >= MinFiles)
    <3>1. Len(window') \in Nat
      BY <1>1, <1>8
    <3>2. QED
      BY <1>17, <3>1, LoopConstants
  <2>1. loopPc' = "publish"
    BY <1>3, <2>a
  <2>2. NoBurst(fileHistory', Raised, n + 1)
    <3> SUFFICES ASSUME NEW i \in 1..(n + 1)
                 PROVE  Cardinality(Burst(fileHistory', Raised, n + 1, i)) < MinFiles
      BY DEF NoBurst
    <3> DEFINE B == Burst(fileHistory', Raised, n + 1, i)
    <3>1. CASE now - fileHistory'[i] <= BurstWindow
      <4>1. ASSUME NEW j \in B PROVE j \in (p + 1)..(n + 1)
        <5>1. j \in i..(n + 1) /\ j \in 1..(n + 1) /\ j \notin UNION Raised /\ (i < j \/ i = j)
          BY <1>1 DEF Burst
        <5>2. fileHistory'[i] \in Nat /\ fileHistory'[j] \in Nat /\ fileHistory'[i] <= fileHistory'[j]
          BY <1>5, <5>1
        <5>3. \A a, b \in Nat : a <= b /\ now - a <= BurstWindow => ~(now - b > BurstWindow)
          BY <1>1, LoopConstants
        <5>4. ~(now - fileHistory'[j] > BurstWindow)
          BY <3>1, <5>2, <5>3
        <5>5. ~(j \in 1..p)
          BY <1>11, <5>1, <5>4
        <5>6. QED
          BY <1>1, <1>9, <5>1, <5>5
      <4>2. Cardinality((p + 1)..(n + 1)) = n + 1 - p
        <5>1. p + 1 \in Int /\ n + 1 \in Int /\ ~(p + 1 > n + 1)
          BY <1>1, <1>9
        <5>2. Cardinality((p + 1)..(n + 1)) = (n + 1) - (p + 1) + 1
          BY <5>1, FS_Interval
        <5>3. QED
          BY <1>1, <1>9, <5>2
      <4>3. n + 1 - p = Len(window')
        BY <1>1, <1>8, <1>9
      <4>4. B \in SUBSET ((p + 1)..(n + 1)) /\ Cardinality((p + 1)..(n + 1)) < MinFiles
        BY <1>17, <4>1, <4>2, <4>3
      <4>5. p + 1 \in Int /\ n + 1 \in Int
        BY <1>1, <1>9
      <4> HIDE DEF B
      <4>6. Cardinality(B) \in Nat /\ Cardinality(B) <= Cardinality((p + 1)..(n + 1))
        BY <4>4, <4>5, PartOfInterval
      <4>7. Cardinality(B) < MinFiles
        <5>1. Cardinality(B) <= Len(window') /\ Len(window') \in Nat
          BY <1>1, <1>8, <4>2, <4>3, <4>6
        <5>2. QED
          BY <1>17, <4>6, <5>1, LoopConstants
      <4>8. QED
        BY <4>7 DEF B
    <3>2. CASE ~(now - fileHistory'[i] <= BurstWindow)
      <4>1. i \in 1..n
        BY <1>1, <1>4, <3>2, LoopConstants
      <4>2. B \subseteq Burst(fileHistory', Raised, n, i)
        <5> SUFFICES ASSUME NEW j \in B PROVE j \in Burst(fileHistory', Raised, n, i)
          OBVIOUS
        <5>1. /\ j \in i..(n + 1) /\ j \notin UNION Raised
              /\ fileHistory'[j] - fileHistory'[i] <= BurstWindow
          BY DEF Burst
        <5>2. j # n + 1
          BY <1>4, <3>2, <5>1
        <5>3. j \in i..n
          BY <1>1, <4>1, <5>1, <5>2
        <5>4. QED
          BY <5>1, <5>3 DEF Burst
      <4>3. Cardinality(Burst(fileHistory', Raised, n, i)) < MinFiles
        BY <1>15, <4>1 DEF NoBurst
      <4>4. Burst(fileHistory', Raised, n, i) \in SUBSET (i..n) /\ i \in Int /\ n \in Int
        BY <1>1, <4>1 DEF Burst
      <4>5. QED
        BY <4>2, <4>3, <4>4, FewerAreFew
    <3>3. QED
      BY <3>1, <3>2
  <2>3. QED
    BY <1>4, <1>b, <1>c, <1>d, <1>13, <1>14, <1>17, <2>1, <2>2 DEF LoopInv
<1>18. QED
  <2>1. Len(window') \in Nat
    BY <1>1, <1>8
  <2>2. QED
    BY <1>16, <1>17, <2>1, LoopConstants

(* The alert is raised: the window's records are in it, and no two alerts  *)
(* share a write.                                                          *)
LEMMA AlertKeeps ==
  ASSUME LoopInv, Loop!Alert
  PROVE  LoopInv'
<1> DEFINE n == Len(fileHistory)
           w == Len(window)
           k == Len(alerts)
<1>1. /\ n \in Nat /\ w \in Nat /\ w <= n /\ now \in Nat
      /\ DOMAIN alerts = 1..k /\ k \in Nat
  BY LoopFacts
<1>2. /\ loopPc = "alert" /\ loopPc' = "publish" /\ window' = <<>> /\ fileHistory' = fileHistory
      /\ now' = now /\ alerts' = Append(alerts, Held)
  BY DEF Loop!Alert, Held
<1>3. /\ LoopTyped /\ w >= MinFiles /\ Tight(fileHistory, Held)
      /\ NoBurst(fileHistory, Raised, n - 1)
      /\ Rising(fileHistory) /\ \A i \in 1..n : fileHistory[i] <= now
  BY <1>2 DEF LoopInv
<1>a. Left = 1..(n - w) /\ Held = (n - w + 1)..n
  BY DEF Left, Held
<1>4. /\ alerts' \in Seq(SUBSET Nat) /\ DOMAIN alerts' = 1..(k + 1)
      /\ \A a \in 1..k : alerts'[a] = alerts[a]
      /\ alerts'[k + 1] = Held
  <2>1. Held \in SUBSET Nat /\ alerts \in Seq(SUBSET Nat)
    BY <1>1, <1>3, <1>a DEF LoopTyped
  <2>2. /\ alerts' \in Seq(SUBSET Nat) /\ Len(alerts') = k + 1
        /\ \A a \in 1..k : alerts'[a] = alerts[a]
        /\ alerts'[k + 1] = Held
    BY <1>2, <2>1, AppendProperties
  <2>3. QED
    BY <2>2, LenProperties
<1>5. /\ window' \in Seq(Nat) /\ Len(window') = 0
  BY <1>2, EmptySeq
<1> HIDE DEF n, w, k
<1>6. Cardinality(Held) = w
  <2>1. Cardinality((n - w + 1)..n) = IF n - w + 1 > n THEN 0 ELSE n - (n - w + 1) + 1
    BY <1>1, FS_Interval
  <2>2. QED
    BY <1>1, <1>a, <2>1
<1>7. Left' = 1..n /\ Left \subseteq 1..n /\ Held \subseteq 1..n /\ Left \cap Held = {}
      /\ 1..n = Left \cup Held
  <2>1. Len(fileHistory') - Len(window') = n
    BY <1>1, <1>2, <1>5 DEF n
  <2>2. Left' = 1..n
    BY <2>1 DEF Left
  <2>3. QED
    BY <1>1, <1>a, <2>2
<1>8. ASSUME NEW a \in 1..k
      PROVE  /\ alerts[a] \subseteq Left /\ Cardinality(alerts[a]) >= MinFiles
             /\ Tight(fileHistory, alerts[a])
             /\ \A b \in 1..k : a # b => alerts[a] \cap alerts[b] = {}
  BY <1>1 DEF LoopInv
<1>9. \A a \in DOMAIN alerts' :
        /\ alerts'[a] \subseteq Left' /\ Cardinality(alerts'[a]) >= MinFiles
        /\ Tight(fileHistory', alerts'[a])
        /\ \A b \in DOMAIN alerts' : a # b => alerts'[a] \cap alerts'[b] = {}
  <2> SUFFICES ASSUME NEW a \in 1..(k + 1)
               PROVE  /\ alerts'[a] \subseteq 1..n /\ Cardinality(alerts'[a]) >= MinFiles
                      /\ Tight(fileHistory, alerts'[a])
                      /\ \A b \in 1..(k + 1) : a # b => alerts'[a] \cap alerts'[b] = {}
    BY <1>2, <1>4, <1>7
  <2>1. (a \in 1..k \/ a = k + 1) /\ \A b \in 1..(k + 1) : b \in 1..k \/ b = k + 1
    BY <1>1
  <2>2. CASE a \in 1..k
    <3>1. alerts'[a] \subseteq Left
      BY <1>4, <1>8, <2>2
    <3>2. \A b \in 1..(k + 1) : a # b => alerts'[a] \cap alerts'[b] = {}
      BY <1>4, <1>7, <1>8, <2>1, <2>2, <3>1
    <3>3. QED
      BY <1>4, <1>7, <1>8, <2>2, <3>1, <3>2
  <2>3. CASE a = k + 1
    <3>1. \A b \in 1..k : alerts'[b] \subseteq Left
      BY <1>4, <1>8
    <3>2. \A b \in 1..(k + 1) : a # b => alerts'[a] \cap alerts'[b] = {}
      BY <1>4, <1>7, <2>1, <2>3, <3>1
    <3>3. QED
      BY <1>3, <1>4, <1>6, <1>7, <2>3, <3>2
  <2>4. QED
    BY <2>1, <2>2, <2>3
<1>10. Raised \subseteq Raised' /\ Held \in Raised'
  <2>1. \A a \in 1..k : alerts[a] \in Raised'
    BY <1>1, <1>4 DEF Raised
  <2>2. k + 1 \in DOMAIN alerts'
    BY <1>1, <1>4
  <2>3. Held \in Raised'
    BY <1>4, <2>2 DEF Raised
  <2>4. Raised \subseteq Raised'
    BY <1>1, <2>1 DEF Raised
  <2>5. QED
    BY <2>3, <2>4
<1>11. \A j \in Left' \ UNION Raised' : now' - fileHistory'[j] > BurstWindow
  <2> SUFFICES ASSUME NEW j \in 1..n, j \notin UNION Raised'
               PROVE  now - fileHistory[j] > BurstWindow
    BY <1>2, <1>7
  <2>1. j \in Left /\ j \notin UNION Raised
    BY <1>7, <1>10
  <2>2. QED
    BY <2>1 DEF LoopInv
<1>12. NoBurst(fileHistory', Raised', n)
  <2>1. n > 0 /\ n \in Held
    BY <1>1, <1>3, <1>a, LoopConstants
  <2>2. NoBurst(fileHistory', Raised', n - 1)
    <3>1. n - 1 \in Nat
      BY <1>1, <2>1
    <3>2. QED
      BY <1>2, <1>3, <1>10, <3>1, NoBurstStays
  <2> SUFFICES ASSUME NEW i \in 1..n PROVE Cardinality(Burst(fileHistory', Raised', n, i)) < MinFiles
    BY DEF NoBurst
  <2>3. n \in UNION Raised'
    BY <1>10, <2>1
  <2>4. CASE i = n
    <3>1. Burst(fileHistory', Raised', n, i) = {}
      BY <1>1, <2>3, <2>4 DEF Burst
    <3>2. QED
      BY <3>1, FS_EmptySet, LoopConstants
  <2>5. CASE i # n
    <3>1. i \in 1..(n - 1) /\ \A j \in i..n : j \in i..(n - 1) \/ j = n
      BY <1>1, <2>5
    <3>2. Burst(fileHistory', Raised', n, i) = Burst(fileHistory', Raised', n - 1, i)
      <4>1. i..(n - 1) \subseteq i..n
        BY <1>1
      <4>2. QED
        BY <2>3, <3>1, <4>1 DEF Burst
    <3>3. QED
      BY <2>2, <3>1, <3>2 DEF NoBurst
  <2>6. QED
    BY <2>4, <2>5
<1>13. LoopTyped' /\ Rising(fileHistory') /\ \A i \in 1..Len(fileHistory') : fileHistory'[i] <= now'
  BY <1>2, <1>3, <1>4, <1>5 DEF LoopTyped, n
<1>14. /\ Len(window') <= Len(fileHistory') /\ Len(window') < MinFiles
       /\ Suffix(window', fileHistory', Len(fileHistory') - Len(window'))
  <2>1. Len(window') <= Len(fileHistory') /\ Len(window') < MinFiles
    BY <1>1, <1>2, <1>5, LoopConstants DEF n
  <2>2. Len(window') = Len(fileHistory') - (Len(fileHistory') - Len(window'))
    BY <1>1, <1>2, <1>5 DEF n
  <2>3. QED
    BY <1>5, <2>1, <2>2 DEF Suffix
<1>15. QED
  BY <1>2, <1>9, <1>11, <1>12, <1>13, <1>14 DEF LoopInv, n

(* The other steps leave the window, the writes and the alerts alone; time *)
(* only makes old writes older.                                            *)
LEMMA LoopRests ==
  ASSUME LoopInv,
         \/ Loop!Tick \/ (\E kind \in Loop!RawEvent : Loop!Touch(kind)) \/ Loop!Receive
         \/ (fileRaw # "high" /\ Loop!Hashed) \/ Loop!Publish \/ Loop!PublishRefused
         \/ UNCHANGED Loop!vars
  PROVE  LoopInv'
<1>1. /\ UNCHANGED <<window, fileHistory, alerts>>
      /\ now' = now \/ now' = now + 1
      /\ loopPc' = loopPc \/ (loopPc # "alert" /\ loopPc' # "alert")
  BY DEF Loop!Tick, Loop!Touch, Loop!Receive, Loop!Hashed, Loop!Publish, Loop!PublishRefused, Loop!vars
<1>2. Left' = Left /\ Held' = Held /\ Raised' = Raised
  BY <1>1 DEF Left, Held, Raised
<1>3. /\ now \in Nat /\ now' \in Nat /\ now <= now'
      /\ \A i \in 1..Len(fileHistory) : fileHistory[i] \in Nat /\ fileHistory[i] <= now
  BY <1>1, LoopFacts
<1>4. \A i \in 1..Len(fileHistory) : fileHistory[i] <= now'
  BY <1>3
<1>5. \A j \in Left \ UNION Raised : now' - fileHistory[j] > BurstWindow
  <2> SUFFICES ASSUME NEW j \in Left \ UNION Raised PROVE now' - fileHistory[j] > BurstWindow
    OBVIOUS
  <2>1. now - fileHistory[j] > BurstWindow
    BY DEF LoopInv
  <2>2. fileHistory[j] \in Nat
    <3>1. j \in 1..Len(fileHistory)
      BY LoopFacts DEF Left
    <3>2. QED
      BY <1>3, <3>1
  <2>3. \A a, b, c \in Nat : b <= c /\ b - a > BurstWindow => c - a > BurstWindow
    BY LoopConstants
  <2>4. QED
    BY <1>3, <2>1, <2>2, <2>3
<1>6. LoopTyped'
  BY <1>1, <1>3 DEF LoopInv, LoopTyped
<1>7. QED
  BY <1>1, <1>2, <1>4, <1>5, <1>6 DEF LoopInv

(* The loop's invariant.                                                   *)
LEMMA LoopAlways == AllSpec => []LoopInv
<1>1. AllInit => LoopInv
  <2> SUFFICES ASSUME Loop!Init PROVE LoopInv
    BY DEF AllInit
  <2>1. /\ now = 0 /\ loopPc = "recv" /\ DOMAIN alerts = {}
        /\ fileHistory \in Seq(Nat) /\ window \in Seq(Nat) /\ alerts \in Seq(SUBSET Nat)
        /\ Len(fileHistory) = 0 /\ Len(window) = 0
    BY EmptySeq DEF Loop!Init
  <2>2. Suffix(window, fileHistory, 0) /\ Left = {}
    BY <2>1 DEF Suffix, Left
  <2>3. QED
    BY <2>1, <2>2, LoopConstants DEF LoopInv, LoopTyped, Rising, NoBurst
<1>2. LoopInv /\ [AllNext]_allVars => LoopInv'
  <2> SUFFICES ASSUME LoopInv, [Loop!Next]_(Loop!vars) PROVE LoopInv'
    BY PartSteps
  <2>1. CASE Loop!Alert
    BY <2>1, AlertKeeps
  <2>2. CASE fileRaw = "high" /\ Loop!Hashed
    BY <2>2, HashedKeeps DEF Loop!Hashed
  <2>3. QED
    BY <2>1, <2>2, LoopRests DEF Loop!Next
<1>3. QED
  BY <1>1, <1>2, PTL DEF AllSpec

(* Every burst of high-entropy writes is alerted on, once, and nothing     *)
(* else is, for any window and threshold and however the writes arrive:    *)
(* run_event_loop, src/collectors/src/file/mod.rs.                         *)
THEOREM AlertsCorrect == AllSpec => []AlertsExact
<1>1. LoopInv => AlertsExact
  <2> SUFFICES ASSUME LoopInv PROVE AlertsExact
    OBVIOUS
  <2>1. Loop!Alerted = UNION Raised
    BY DEF Loop!Alerted, Raised
  <2>2. Loop!AlertsAreBursts
    BY LoopCount DEF LoopInv, Loop!AlertsAreBursts, Tight
  <2>3. Loop!BurstsAreAlerted
    <3> SUFFICES ASSUME loopPc # "alert", NEW i \in DOMAIN fileHistory
                 PROVE  Cardinality(Burst(fileHistory, Raised, Len(fileHistory), i)) < MinFiles
      BY <2>1, LoopCount DEF Loop!BurstsAreAlerted, Burst
    <3>1. i \in 1..Len(fileHistory)
      BY LenProperties DEF LoopInv, LoopTyped
    <3>2. QED
      BY <3>1 DEF LoopInv, NoBurst
  <2>4. QED
    BY <2>2, <2>3 DEF AlertsExact, Loop!AlertsExact
<1>2. QED
  BY <1>1, LoopAlways, PTL


-----------------------------------------------------------------------------
(* The browser collector                                                   *)

BrowserTyped ==
  /\ time \in Nat /\ time <= MaxRows /\ counted \in Nat /\ read \in BOOLEAN
  /\ stage \in Browser!Stages /\ turn \in Nat /\ turn <= Len(Browser!Profiles)
  /\ turn > 0 => state = "running"
  /\ db = [k \in Browser!Tables |->
             [p \in Browser!Owners |-> [x \in Browser!Things(k) |-> db[k][p][x]]]]
  /\ \A k \in Browser!Tables, p \in Browser!Owners : \A x \in Browser!Things(k) :
       db[k][p][x] \in Nat /\ db[k][p][x] <= time
  /\ mark \in [Browser!Tables -> [Browser!Owners -> Nat]]
  /\ lead \in [Browser!Tables -> [Browser!Owners -> Nat]]
  /\ \A k \in Browser!Tables, p \in Browser!Owners :
       /\ mark[k][p] <= time \/ mark[k][p] = lead[k][p]
       /\ lead[k][p] <= mark[k][p] /\ lead[k][p] <= MaxStamp
  /\ cut \in [Browser!Tables -> [Browser!Owners -> BOOLEAN]]
  /\ \A s \in records : s \in Int

(* What is queued is of one stage, no key twice, and not told before.      *)
QueueFresh ==
  /\ rows = [i \in 1..Len(rows) |-> rows[i]] /\ Len(rows) \in Nat
  /\ turn = 0 \/ ~read => rows = <<>>
  /\ \A i \in 1..Len(rows) : rows[i][2] \in Int
  /\ \A i, j \in 1..Len(rows) : rows[i] = rows[j] => i = j
  /\ \A i \in 1..Len(rows) : rows[i] \notin rowsTold[stage]

Queued == {rows[i] : i \in 1..Len(rows)}

KnownWhenTold ==
  /\ rowsKnown = [k \in Browser!Stages |-> rowsKnown[k]]
  /\ rowsTold = [k \in Browser!Stages |-> rowsTold[k]]
  /\ \A k \in Browser!Stages : rowsKnown[k] = rowsTold[k] \cup (IF stage = k THEN Queued ELSE {})

PassedRowsKnown ==
  \A k \in Browser!Tables, p \in Browser!Owners : \A x \in Browser!Things(k) :
    db[k][p][x] \in Nat /\ 0 < db[k][p][x] /\ db[k][p][x] <= mark[k][p]
      => cut[k][p] \/ db[k][p][x] <= lead[k][p] \/ Browser!RowKey(k, p, x) \in rowsKnown[k]

BrowserInv == BrowserTyped /\ ~again /\ QueueFresh /\ KnownWhenTold /\ PassedRowsKnown


(* A step of the whole is a step of the browser collector, or it rests.    *)
LEMMA BrowserSteps == [AllNext]_allVars => [Browser!Next]_(Browser!vars)
BY DEF AllNext, allVars, browserVars, Browser!vars, Browser!browser

(* The constants: the limits are positive, what may be seen is finite.     *)
LEMMA BrowserConstants ==
  /\ MaxRows \in Nat /\ DownloadWindow \in Nat /\ IsFiniteSet(Extensions)
  /\ MaxStamp \in Nat /\ \A x \in Piped : Fragment[x] \in Int /\ Fragment[x] <= MaxStamp
  /\ \A k \in Browser!Tables : Limit[k] \in Nat /\ Limit[k] > 0 /\ IsFiniteSet(Browser!Things(k))
  /\ Len(Browser!Profiles) \in Nat
  /\ \A i \in 1..Len(Browser!Profiles) : Browser!Profiles[i] \in Browser!Owners
  /\ \A S : Browser!Cardinality(S) = Cardinality(S)
  /\ Browser!Tables = {"history", "downloads"}
  /\ Browser!Stages = {"history", "downloads", "extensions"}
<1>1. /\ \A S : Browser!Cardinality(S) = Cardinality(S)
      /\ \A S : Browser!IsFiniteSet(S) <=> IsFiniteSet(S)
  BY DEF Browser!Cardinality, Cardinality, Browser!IsFiniteSet, IsFiniteSet
<1>2. Browser!BrowserAssumption
  BY SensorsAssumption
<1>3. /\ MaxRows \in Nat /\ DownloadWindow \in Nat /\ IsFiniteSet(Extensions)
      /\ MaxStamp \in Nat /\ \A x \in Piped : Fragment[x] \in Int /\ Fragment[x] <= MaxStamp
      /\ \A k \in Browser!Tables : Limit[k] \in Nat /\ Limit[k] > 0 /\ IsFiniteSet(Browser!Things(k))
  BY <1>1, <1>2 DEF Browser!BrowserAssumption, Browser!Tables, Browser!Things
<1>4. Browser!Profiles \in Seq(Browser!Range(Browser!Profiles))
  BY <1>2 DEF Browser!BrowserAssumption
<1>5. /\ Len(Browser!Profiles) \in Nat
      /\ \A i \in 1..Len(Browser!Profiles) : Browser!Profiles[i] \in Browser!Range(Browser!Profiles)
  BY <1>4
<1>6. QED
  BY <1>1, <1>3, <1>5 DEF Browser!Owners, Browser!Tables, Browser!Stages

(* An ordering of a finite set holds each of its members once.             *)
LEMMA SeqsOfSet ==
  ASSUME NEW S, IsFiniteSet(S), NEW q \in Browser!SetToSeqs(S)
  PROVE  /\ Cardinality(S) \in Nat /\ q \in [1..Cardinality(S) -> S]
         /\ \A i, j \in 1..Cardinality(S) : q[i] = q[j] => i = j
         /\ \A x \in S : \E i \in 1..Cardinality(S) : q[i] = x
<1> DEFINE n == Cardinality(S)
           D == 1..n
<1>1. n \in Nat
  BY FS_CardinalityType
<1>2. q \in [D -> S] /\ \A i, j \in D : q[i] = q[j] => i = j
  BY BrowserConstants DEF Browser!SetToSeqs
<1>3. q \in Injection(D, S)
  BY <1>2 DEF Injection, IsInjective
<1>4. Cardinality(D) = Cardinality(S)
  BY <1>1, FS_Interval
<1>5. q \in Surjection(D, S)
  BY <1>3, <1>4, FS_Injection
<1>6. \A x \in S : \E i \in D : q[i] = x
  BY <1>5 DEF Surjection
<1>7. QED
  BY <1>1, <1>2, <1>6

(* A bounded set of numbers has a greatest one.                            *)
LEMMA LastOf ==
  ASSUME NEW n \in Nat, NEW S, S # {}, \A x \in S : x \in Int /\ x <= n
  PROVE  Browser!Max(S) \in S /\ \A x \in S : Browser!Max(S) >= x
<1> DEFINE T == {n - x : x \in S}
<1>1. T \subseteq Nat /\ T # {}
  OBVIOUS
<1>2. IsWellFoundedOn(OpToRel(<, Nat), Nat)
  BY NatLessThanWellFounded
<1>3. PICK m \in T : \A k \in T : ~(<<k, m>> \in OpToRel(<, Nat))
  BY <1>1, <1>2, WFMin
<1>4. \A k \in T : ~(k < m)
  BY <1>1, <1>3 DEF OpToRel
<1>5. PICK x \in S : m = n - x
  OBVIOUS
<1>6. ASSUME NEW y \in S
      PROVE  x >= y
  <2>1. n - y \in T /\ x \in Int /\ y \in Int
    OBVIOUS
  <2>2. ~(n - y < n - x)
    BY <1>4, <1>5, <2>1
  <2>3. QED
    BY <2>1, <2>2
<1>7. QED
  BY <1>5, <1>6 DEF Browser!Max

(* A table with no more new rows than the limit is read whole.             *)
LEMMA NothingCut ==
  ASSUME BrowserTyped, NEW k \in Browser!Tables, NEW p \in Browser!Owners,
         ~(Cardinality(Browser!Rows(k, p)) > Limit[k])
  PROVE  Browser!Newest(k, p) = Browser!Rows(k, p)
<1> DEFINE R == Browser!Rows(k, p)
<1>1. R \subseteq Browser!Things(k) /\ IsFiniteSet(Browser!Things(k)) /\ Limit[k] \in Nat
  BY BrowserConstants DEF Browser!Rows
<1>2. IsFiniteSet(R)
  BY <1>1, FS_Subset
<1>3. ASSUME NEW x \in R
      PROVE  Cardinality({y \in R : db[k][p][y] > db[k][p][x]}) < Limit[k]
  <2> DEFINE N == {y \in R : db[k][p][y] > db[k][p][x]}
  <2>1. x \notin N
    <3>1. db[k][p][x] \in Nat
      BY <1>1, <1>3 DEF BrowserTyped
    <3>2. \A a \in Nat : ~(a > a)
      OBVIOUS
    <3>3. QED
      BY <3>1, <3>2
  <2>2. N \in SUBSET (R \ {x})
    BY <2>1
  <2>3. IsFiniteSet(R \ {x}) /\ Cardinality(R \ {x}) = Cardinality(R) - 1
    BY <1>2, <1>3, FS_RemoveElement
  <2>4. IsFiniteSet(N) /\ Cardinality(N) <= Cardinality(R \ {x})
    BY <2>2, <2>3, FS_Subset
  <2>5. Cardinality(N) \in Nat /\ Cardinality(R) \in Nat
    BY <1>2, <2>4, FS_CardinalityType
  <2>6. QED
    BY <1>1, <2>3, <2>4, <2>5
<1>4. \A S : Browser!Cardinality(S) = Cardinality(S)
  BY BrowserConstants
<1>5. QED
  BY <1>3, <1>4 DEF Browser!Newest


(* A browser writes a row: its time is past every mark that is not ahead.  *)
LEMMA BrowseKeeps ==
  ASSUME BrowserInv, NEW k \in Browser!Tables, NEW p \in Browser!Owners,
         NEW x \in Browser!Things(k), Browser!Browse(k, p, x)
  PROVE  BrowserInv'
<1>1. /\ time < MaxRows /\ time' = time + 1
      /\ db' = [db EXCEPT ![k][p][x] = time']
      /\ UNCHANGED <<state, counted, turn, stage, read, rows, mark, rowsKnown, records,
                     rowsTold, again, cut, lead>>
  BY DEF Browser!Browse
<1>2. time \in Nat /\ time' \in Nat /\ time <= time' /\ time' <= MaxRows /\ time < time'
  BY <1>1, BrowserConstants DEF BrowserInv, BrowserTyped
<1>3. /\ db' = [j \in Browser!Tables |->
                  [q \in Browser!Owners |-> [y \in Browser!Things(j) |-> db'[j][q][y]]]]
      /\ \A j \in Browser!Tables, q \in Browser!Owners : \A y \in Browser!Things(j) :
           db'[j][q][y] = IF j = k /\ q = p /\ y = x THEN time' ELSE db[j][q][y]
  <2> DEFINE D == db
  <2>1. D = [j \in Browser!Tables |->
               [q \in Browser!Owners |-> [y \in Browser!Things(j) |-> D[j][q][y]]]]
    BY DEF BrowserInv, BrowserTyped
  <2>2. \A j \in Browser!Tables : D[j] = [q \in Browser!Owners |-> [y \in Browser!Things(j) |-> D[j][q][y]]]
    BY <2>1
  <2>3. \A j \in Browser!Tables, q \in Browser!Owners :
          D[j][q] = [y \in Browser!Things(j) |-> D[j][q][y]]
    BY <2>2
  <2>4. db' = [D EXCEPT ![k][p][x] = time']
    BY <1>1
  <2> HIDE DEF D
  <2>5. \A j \in Browser!Tables, q \in Browser!Owners : \A y \in Browser!Things(j) :
          db'[j][q][y] = IF j = k /\ q = p /\ y = x THEN time' ELSE D[j][q][y]
    BY <2>1, <2>2, <2>3, <2>4
  <2>6. \A j \in Browser!Tables, q \in Browser!Owners :
          db'[j][q] = [y \in Browser!Things(j) |-> db'[j][q][y]]
    BY <2>1, <2>2, <2>3, <2>4
  <2>7. db' = [j \in Browser!Tables |->
                 [q \in Browser!Owners |-> [y \in Browser!Things(j) |-> db'[j][q][y]]]]
    <3>1. db' = [j \in Browser!Tables |-> db'[j]]
      BY <2>1, <2>4
    <3>2. \A j \in Browser!Tables : db'[j] = [q \in Browser!Owners |-> db'[j][q]]
      BY <2>1, <2>2, <2>4
    <3>3. \A j \in Browser!Tables :
            db'[j] = [q \in Browser!Owners |-> [y \in Browser!Things(j) |-> db'[j][q][y]]]
      BY <2>6, <3>2
    <3>4. QED
      BY <3>1, <3>3
  <2>8. QED
    BY <2>5, <2>7 DEF D
<1>4. \A n \in Nat : n <= time => n <= time'
  BY <1>2
<1>5. BrowserTyped'
  <2>1. \A j \in Browser!Tables, q \in Browser!Owners : \A y \in Browser!Things(j) :
          db'[j][q][y] \in Nat /\ db'[j][q][y] <= time'
    <3>1. \A j \in Browser!Tables, q \in Browser!Owners : \A y \in Browser!Things(j) :
            db[j][q][y] \in Nat /\ db[j][q][y] <= time'
      BY <1>4 DEF BrowserInv, BrowserTyped
    <3>2. QED
      BY <1>2, <1>3, <3>1
  <2>2. \A j \in Browser!Tables, q \in Browser!Owners :
          /\ mark[j][q] <= time' \/ mark[j][q] = lead[j][q]
          /\ lead[j][q] <= mark[j][q] /\ lead[j][q] <= MaxStamp
    BY <1>4 DEF BrowserInv, BrowserTyped
  <2>3. \A s \in records' : s \in Int
    BY <1>1 DEF BrowserInv, BrowserTyped
  <2>4. /\ counted \in Nat /\ read \in BOOLEAN /\ stage \in Browser!Stages
        /\ turn \in Nat /\ turn <= Len(Browser!Profiles) /\ (turn > 0 => state = "running")
        /\ mark \in [Browser!Tables -> [Browser!Owners -> Nat]]
        /\ lead \in [Browser!Tables -> [Browser!Owners -> Nat]]
        /\ cut \in [Browser!Tables -> [Browser!Owners -> BOOLEAN]]
    BY DEF BrowserInv, BrowserTyped
  <2>5. UNCHANGED <<counted, read, stage, turn, state, mark, lead, cut>>
    BY <1>1
  <2>6. QED
    BY <1>2, <1>3, <2>1, <2>2, <2>3, <2>4, <2>5 DEF BrowserTyped
<1>6. QueueFresh'
  <2>1. \A i \in 1..Len(rows) : rows[i][2] \in Int
    BY DEF BrowserInv, QueueFresh
  <2>2. QED
    BY <1>1, <2>1 DEF BrowserInv, QueueFresh
<1>7. KnownWhenTold'
  BY <1>1 DEF BrowserInv, KnownWhenTold, Queued
<1>8. PassedRowsKnown'
  <2> SUFFICES ASSUME NEW j \in Browser!Tables, NEW q \in Browser!Owners,
                      NEW y \in Browser!Things(j),
                      db'[j][q][y] \in Nat, 0 < db'[j][q][y], db'[j][q][y] <= mark[j][q]
               PROVE  \/ cut[j][q] \/ db'[j][q][y] <= lead[j][q]
                      \/ Browser!RowKey(j, q, y)' \in rowsKnown[j]
    BY <1>1 DEF PassedRowsKnown
  <2>1. /\ mark[j][q] \in Nat /\ lead[j][q] \in Nat
        /\ mark[j][q] <= time \/ mark[j][q] = lead[j][q]
    BY DEF BrowserInv, BrowserTyped
  <2>2. CASE db'[j][q][y] = time'
    BY <1>2, <2>1, <2>2
  <2>3. CASE db'[j][q][y] # time'
    <3>1. db'[j][q][y] = db[j][q][y]
      BY <1>3, <2>3
    <3>2. Browser!RowKey(j, q, y)' = Browser!RowKey(j, q, y)
      BY <3>1 DEF Browser!RowKey, Browser!Stamp
    <3>3. QED
      BY <3>1, <3>2 DEF BrowserInv, PassedRowsKnown
  <2>4. QED
    BY <2>2, <2>3
<1>9. QED
  BY <1>1, <1>5, <1>6, <1>7, <1>8 DEF BrowserInv

(* Starting, waking, going on to the next stage.                           *)
LEMMA TurnKeeps ==
  ASSUME BrowserInv, Browser!Start \/ Browser!Wake \/ Browser!GoOn \/ UNCHANGED Browser!vars
  PROVE  BrowserInv'
<1>1. /\ UNCHANGED <<time, db, counted, rows, mark, rowsKnown, records, rowsTold, again, cut, lead>>
      /\ (stage' = stage /\ (read' = read \/ rows = <<>>)) \/ rows = <<>>
  BY DEF Browser!Start, Browser!Wake, Browser!GoOn, Browser!vars, Browser!browser, BrowserInv, QueueFresh
<1>2. /\ stage' \in Browser!Stages /\ read' \in BOOLEAN
      /\ turn' \in Nat /\ turn' <= Len(Browser!Profiles)
      /\ turn' > 0 => state' = "running"
  <2>1. CASE Browser!Start
    <3>1. turn = 0 \/ turn \notin Nat \/ turn > 0
      OBVIOUS
    <3>2. turn = 0
      BY <2>1, <3>1 DEF Browser!Start, BrowserInv, BrowserTyped
    <3>3. QED
      BY <2>1, <3>2 DEF Browser!Start, BrowserInv, BrowserTyped
  <2>2. CASE Browser!Wake
    <3>1. Len(Browser!Profiles) # 0
      <4>1. Browser!Profiles \in Seq(Browser!Range(Browser!Profiles))
        BY SensorsAssumption DEF Browser!BrowserAssumption
      <4>2. QED
        BY <2>2, <4>1, EmptySeq DEF Browser!Wake
    <3>2. 1 <= Len(Browser!Profiles)
      BY <3>1, BrowserConstants
    <3>3. QED
      BY <2>2, <3>2, BrowserConstants DEF Browser!Wake
  <2>3. CASE Browser!GoOn
    <3>1. stage' \in Browser!Stages
      BY <2>3, BrowserConstants DEF Browser!GoOn, BrowserInv, BrowserTyped
    <3>2. turn' \in Nat /\ turn' <= Len(Browser!Profiles)
      BY <2>3, BrowserConstants DEF Browser!GoOn, BrowserInv, BrowserTyped
    <3>3. state' = state /\ turn > 0 /\ read' = FALSE
      BY <2>3 DEF Browser!GoOn
    <3>4. QED
      BY <3>1, <3>2, <3>3 DEF BrowserInv, BrowserTyped
  <2>4. CASE UNCHANGED Browser!vars
    BY <2>4 DEF Browser!vars, BrowserInv, BrowserTyped
  <2>5. QED
    BY <2>1, <2>2, <2>3, <2>4
<1>3. BrowserTyped'
  BY <1>1, <1>2 DEF BrowserInv, BrowserTyped
<1>4. rows = <<>> => 1..Len(rows) = {}
  OBVIOUS
<1>5. turn' = 0 \/ ~read' => rows = <<>>
  <2>1. turn = 0 \/ ~read => rows = <<>>
    BY DEF BrowserInv, QueueFresh
  <2>2. CASE Browser!Start \/ UNCHANGED Browser!vars
    BY <2>1, <2>2 DEF Browser!Start, Browser!vars
  <2>3. CASE Browser!Wake \/ Browser!GoOn
    BY <2>1, <2>3 DEF Browser!Wake, Browser!GoOn
  <2>4. QED
    BY <2>2, <2>3
<1>6. QueueFresh'
  BY <1>1, <1>4, <1>5 DEF BrowserInv, QueueFresh
<1>7. KnownWhenTold'
  BY <1>1, <1>4 DEF BrowserInv, KnownWhenTold, Queued
<1>8. PassedRowsKnown'
  BY <1>1 DEF BrowserInv, PassedRowsKnown, Browser!RowKey, Browser!Stamp
<1>9. QED
  BY <1>1, <1>3, <1>6, <1>7, <1>8 DEF BrowserInv


(* Publishing takes the key at the front, which was not told before.       *)
LEMMA PublishKeeps ==
  ASSUME BrowserInv, Browser!Publish
  PROVE  BrowserInv'
<1> DEFINE key == Head(rows)
<1>1. /\ rows # <<>> /\ rows' = Tail(rows)
      /\ counted' \in {counted, counted + 1}
      /\ again' = (again \/ key \in rowsTold[stage])
      /\ rowsTold' = [rowsTold EXCEPT ![stage] = @ \cup {key}]
      /\ records' = IF stage = "downloads" /\ key[1] \in Dangerous
                    THEN Browser!Kept(key[2]) \cup {key[2]} ELSE records
      /\ UNCHANGED <<time, db, state, turn, stage, read, mark, rowsKnown, cut, lead>>
  BY DEF Browser!Publish, Browser!browser
<1>2. rows \in Seq(Queued) /\ Len(rows) \in Nat
  <2>1. \A i \in 1..Len(rows) : rows[i] \in Queued
    BY DEF Queued
  <2>2. rows = [i \in 1..Len(rows) |-> rows[i]] /\ Len(rows) \in Nat
    BY DEF BrowserInv, QueueFresh
  <2>3. rows \in [1..Len(rows) -> Queued]
    BY <2>1, <2>2
  <2>4. QED
    BY <2>2, <2>3
<1>3. /\ Len(rows) > 0 /\ key = rows[1] /\ Len(rows') = Len(rows) - 1
      /\ \A i \in 1..Len(rows') : rows'[i] = rows[i + 1]
      /\ rows' = [i \in 1..Len(rows') |-> rows'[i]]
      /\ \A i \in 1..Len(rows') : i + 1 \in 1..Len(rows) /\ i + 1 # 1
      /\ 1 \in 1..Len(rows)
  <2>1. Len(rows) > 0
    BY <1>1, <1>2, EmptySeq
  <2>2. rows' \in Seq(Queued) /\ Len(rows') = Len(rows) - 1
    BY <1>1, <1>2, <2>1
  <2>3. rows' = [i \in 1..Len(rows') |-> rows'[i]]
    BY <2>2
  <2>4. key = rows[1] /\ \A i \in 1..Len(rows') : rows'[i] = rows[i + 1]
    BY <1>1, <1>2, <2>1, <2>2
  <2>5. \A i \in 1..Len(rows') : i + 1 \in 1..Len(rows) /\ i + 1 # 1
    BY <1>2, <2>1, <2>2
  <2>6. QED
    BY <1>2, <2>1, <2>2, <2>3, <2>4, <2>5
<1>4. Queued = {key} \cup Queued' /\ key \notin Queued'
  <2>1. \A i \in 1..Len(rows) : i = 1 \/ i - 1 \in 1..Len(rows')
    BY <1>2, <1>3
  <2>2. Queued \subseteq {key} \cup Queued'
    <3>1. ASSUME NEW i \in 1..Len(rows) PROVE rows[i] \in {key} \cup Queued'
      <4>1. i # 1 => rows'[i - 1] = rows[(i - 1) + 1] /\ (i - 1) + 1 = i
        BY <1>3, <2>1
      <4>2. QED
        BY <1>3, <2>1, <4>1 DEF Queued
    <3>2. QED
      BY <3>1 DEF Queued
  <2>3. {key} \cup Queued' \subseteq Queued
    BY <1>3 DEF Queued
  <2>4. key \notin Queued'
    <3>1. ASSUME NEW i \in 1..Len(rows') PROVE rows'[i] # key
      BY <1>3 DEF BrowserInv, QueueFresh
    <3>2. QED
      BY <3>1 DEF Queued
  <2>5. QED
    BY <2>2, <2>3, <2>4
<1>5. stage \in Browser!Stages /\ key \notin rowsTold[stage]
  <2>1. rows[1] \notin rowsTold[stage]
    BY <1>3 DEF BrowserInv, QueueFresh
  <2>2. key = rows[1]
    BY <1>3
  <2>3. stage \in Browser!Stages
    BY DEF BrowserInv, BrowserTyped
  <2> HIDE DEF key
  <2>4. QED
    BY <2>1, <2>2, <2>3
<1>6. /\ rowsTold' = [k \in Browser!Stages |-> rowsTold'[k]]
      /\ rowsTold'[stage] = rowsTold[stage] \cup {key}
      /\ \A k \in Browser!Stages : k # stage => rowsTold'[k] = rowsTold[k]
  <2>1. rowsTold = [k \in Browser!Stages |-> rowsTold[k]]
    BY DEF BrowserInv, KnownWhenTold
  <2>2. QED
    BY <1>1, <1>5, <2>1
<1>7. key[2] \in Int
  BY <1>3 DEF BrowserInv, QueueFresh
<1>8. BrowserTyped'
  <2>1. \A s \in records' : s \in Int
    BY <1>1, <1>7 DEF BrowserInv, BrowserTyped, Browser!Kept
  <2>2. counted' \in Nat
    BY <1>1 DEF BrowserInv, BrowserTyped
  <2>3. QED
    BY <1>1, <2>1, <2>2 DEF BrowserInv, BrowserTyped
<1>9. QueueFresh'
  <2>1. turn' = 0 \/ ~read' => rows' = <<>>
    BY <1>1 DEF BrowserInv, QueueFresh
  <2>2. \A i \in 1..Len(rows') : rows'[i][2] \in Int
    BY <1>3 DEF BrowserInv, QueueFresh
  <2>3. \A i, j \in 1..Len(rows') : rows'[i] = rows'[j] => i = j
    <3>1. \A i, j \in 1..Len(rows') : rows'[i] = rows'[j] => i + 1 = j + 1
      BY <1>3 DEF BrowserInv, QueueFresh
    <3>2. \A i, j \in 1..Len(rows') : i + 1 = j + 1 => i = j
      BY <1>3
    <3>3. QED
      BY <3>1, <3>2
  <2>4. \A i \in 1..Len(rows') : rows'[i] \notin rowsTold'[stage]
    <3>1. ASSUME NEW i \in 1..Len(rows') PROVE rows'[i] \notin rowsTold'[stage]
      <4>1. rows'[i] # key
        BY <1>4 DEF Queued
      <4>2. rows'[i] \notin rowsTold[stage]
        BY <1>3 DEF BrowserInv, QueueFresh
      <4>3. QED
        BY <1>6, <4>1, <4>2
    <3>2. QED
      BY <3>1
  <2>5. Len(rows') \in Nat
    BY <1>2, <1>3
  <2>6. QED
    BY <1>1, <1>3, <2>1, <2>2, <2>3, <2>4, <2>5 DEF QueueFresh
<1>10. KnownWhenTold'
  <2>1. \A k \in Browser!Stages :
          rowsKnown[k] = rowsTold'[k] \cup (IF stage = k THEN Queued' ELSE {})
    <3>1. rowsKnown[stage] = rowsTold[stage] \cup Queued
      BY <1>5 DEF BrowserInv, KnownWhenTold
    <3>2. rowsKnown[stage] = rowsTold'[stage] \cup Queued'
      BY <1>4, <1>6, <3>1
    <3>3. \A k \in Browser!Stages : k # stage => rowsKnown[k] = rowsTold[k] \cup {}
      BY DEF BrowserInv, KnownWhenTold
    <3>4. QED
      BY <1>6, <3>2, <3>3
  <2>2. QED
    BY <1>1, <1>6, <2>1 DEF BrowserInv, KnownWhenTold
<1>11. PassedRowsKnown'
  BY <1>1 DEF BrowserInv, PassedRowsKnown, Browser!RowKey, Browser!Stamp
<1>12. ~again'
  BY <1>1, <1>5 DEF BrowserInv
<1>13. QED
  BY <1>8, <1>9, <1>10, <1>11, <1>12 DEF BrowserInv

(* A stage is read: keys not known come to the queue, each once.           *)
LEMMA QueueFilled ==
  ASSUME BrowserInv, ~read, stage \in Browser!Stages, UNCHANGED <<stage, rowsTold, time, turn>>,
         read' = TRUE, turn > 0,
         NEW N, rows' = [i \in 1..Len(rows') |-> rows'[i]], Len(rows') \in Nat,
         Queued' = N, N \cap rowsKnown[stage] = {},
         \A i, j \in 1..Len(rows') : rows'[i] = rows'[j] => i = j,
         \A x \in N : x[2] \in Int,
         rowsKnown' = [rowsKnown EXCEPT ![stage] = @ \cup N]
  PROVE  QueueFresh' /\ KnownWhenTold' /\ \A k \in Browser!Stages : rowsKnown[k] \subseteq rowsKnown'[k]
<1>1. rows = <<>> /\ Queued = {}
  <2>1. rows = <<>>
    BY DEF BrowserInv, QueueFresh
  <2>2. 1..Len(rows) = {}
    BY <2>1
  <2>3. QED
    BY <2>1, <2>2 DEF Queued
<1>2. \A k \in Browser!Stages : rowsKnown[k] = rowsTold[k]
  BY <1>1 DEF BrowserInv, KnownWhenTold
<1>3. \A i \in 1..Len(rows') : rows'[i] \in N
  BY DEF Queued
<1>4. \A i \in 1..Len(rows') : rows'[i] \notin rowsTold[stage]
  BY <1>2, <1>3
<1>5. QueueFresh'
  <2>1. turn' # 0
    BY DEF BrowserInv, BrowserTyped
  <2>2. \A i \in 1..Len(rows') : rows'[i][2] \in Int
    BY <1>3
  <2>3. QED
    BY <1>4, <2>1, <2>2 DEF QueueFresh
<1>6. rowsKnown = [k \in Browser!Stages |-> rowsKnown[k]] /\ rowsTold = [k \in Browser!Stages |-> rowsTold[k]]
  BY DEF BrowserInv, KnownWhenTold
<1>7. /\ rowsKnown' = [k \in Browser!Stages |-> rowsKnown'[k]]
      /\ rowsKnown'[stage] = rowsKnown[stage] \cup N
      /\ \A k \in Browser!Stages : k # stage => rowsKnown'[k] = rowsKnown[k]
  BY <1>6
<1>8. KnownWhenTold'
  <2>1. \A k \in Browser!Stages :
          rowsKnown'[k] = rowsTold[k] \cup (IF stage = k THEN Queued' ELSE {})
    BY <1>2, <1>7
  <2>2. QED
    BY <1>6, <1>7, <2>1 DEF KnownWhenTold
<1>9. QED
  BY <1>5, <1>7, <1>8


(* The extensions are read.                                                *)
LEMMA ExtensionsKeep ==
  ASSUME BrowserInv, Browser!ReadExtensions
  PROVE  BrowserInv'
<1>1. PICK there \in SUBSET Extensions :
        LET new == {<<x, 0>> : x \in there} \ rowsKnown["extensions"] IN
          /\ rows' \in Browser!SetToSeqs(new)
          /\ rowsKnown' = [rowsKnown EXCEPT !["extensions"] = @ \cup new]
  BY DEF Browser!ReadExtensions
<1> DEFINE All == {<<x, 0>> : x \in there}
           new == All \ rowsKnown["extensions"]
           n == Cardinality(new)
<1>2. /\ rows' \in Browser!SetToSeqs(new)
      /\ rowsKnown' = [rowsKnown EXCEPT ![stage] = @ \cup new]
      /\ new \cap rowsKnown[stage] = {}
      /\ stage = "extensions" /\ turn > 0 /\ ~read /\ read' = TRUE
      /\ UNCHANGED <<time, db, counted, turn, stage, mark, records, rowsTold, again, cut, lead, state>>
  BY <1>1 DEF Browser!ReadExtensions, Browser!browser
<1>3. IsFiniteSet(new)
  <2>1. IsFiniteSet(there)
    BY BrowserConstants, FS_Subset
  <2>2. IsFiniteSet(All)
    <3> DEFINE f == [x \in there |-> <<x, 0>>]
    <3>1. f \in Surjection(there, All)
      BY DEF Surjection
    <3>2. QED
      BY <2>1, <3>1, FS_Surjection
  <2>3. QED
    BY <2>2, FS_Subset
<1>4. \A x \in new : x[2] \in Int
  OBVIOUS
<1> HIDE DEF new
<1>5. /\ n \in Nat /\ rows' \in [1..n -> new]
      /\ \A i, j \in 1..n : rows'[i] = rows'[j] => i = j
      /\ \A x \in new : \E i \in 1..n : rows'[i] = x
  BY <1>2, <1>3, SeqsOfSet
<1> HIDE DEF n
<1>6. rows' = [i \in 1..n |-> rows'[i]] /\ Len(rows') = n
  BY <1>5
<1>7. Queued' = new
  BY <1>5, <1>6 DEF Queued
<1>8. QueueFresh' /\ KnownWhenTold' /\ \A k \in Browser!Stages : rowsKnown[k] \subseteq rowsKnown'[k]
  <2>1. stage \in Browser!Stages /\ \A i, j \in 1..Len(rows') : rows'[i] = rows'[j] => i = j
    BY <1>5, <1>6 DEF BrowserInv, BrowserTyped
  <2>2. rows' = [i \in 1..Len(rows') |-> rows'[i]] /\ Len(rows') \in Nat
    BY <1>5, <1>6
  <2>3. QED
    BY <1>2, <1>4, <1>7, <2>1, <2>2, QueueFilled
<1>9. BrowserTyped'
  BY <1>2 DEF BrowserInv, BrowserTyped
<1>10. PassedRowsKnown'
  <2>1. \A k \in Browser!Tables : rowsKnown[k] \subseteq rowsKnown'[k]
    BY <1>8, BrowserConstants
  <2>2. QED
    BY <1>2, <2>1 DEF BrowserInv, PassedRowsKnown, Browser!RowKey, Browser!Stamp
<1>11. QED
  BY <1>2, <1>8, <1>9, <1>10 DEF BrowserInv

(* A table of a profile is read, or could not be.                          *)
LEMMA RowsKeep ==
  ASSUME BrowserInv, NEW k \in Browser!Tables, Browser!ReadRows(k)
  PROVE  BrowserInv'
<1> DEFINE p == Browser!Owner
           U == Browser!Unseen(k, p)
           new == {Browser!RowKey(k, p, x) : x \in U}
           Stamps == {Browser!Stamp(k, p, x) : x \in U}
           n == Cardinality(U)
<1>1. /\ stage = k /\ turn > 0 /\ ~read /\ read' = TRUE
      /\ UNCHANGED <<time, db, state, counted, turn, stage, records, rowsTold, again>>
  BY DEF Browser!ReadRows, Browser!browser
<1>2. p \in Browser!Owners
  <2>1. turn \in 1..Len(Browser!Profiles)
    BY <1>1, BrowserConstants DEF BrowserInv, BrowserTyped
  <2>2. QED
    BY <2>1, BrowserConstants DEF Browser!Owner
<1>3. stage \in Browser!Stages
  BY DEF BrowserInv, BrowserTyped
<1>4. CASE rows' = <<>> /\ UNCHANGED <<rowsKnown, cut, mark, lead>>
  <2>1. rows = <<>> /\ rows' = rows
    BY <1>1, <1>4 DEF BrowserInv, QueueFresh
  <2>2. BrowserTyped' /\ QueueFresh' /\ KnownWhenTold'
    BY <1>1, <1>4, <2>1 DEF BrowserInv, BrowserTyped, QueueFresh, KnownWhenTold, Queued
  <2>3. PassedRowsKnown'
    BY <1>1, <1>4 DEF BrowserInv, PassedRowsKnown, Browser!RowKey, Browser!Stamp
  <2>4. QED
    BY <1>1, <2>2, <2>3 DEF BrowserInv
<1>5. CASE ~(rows' = <<>> /\ UNCHANGED <<rowsKnown, cut, mark, lead>>)
  <2>1. PICK q \in Browser!Listings(k, p) : rows' = [i \in DOMAIN q |-> Browser!RowKey(k, p, q[i])]
    BY <1>5 DEF Browser!ReadRows
  <2>2. /\ mark' = [mark EXCEPT ![k][p] = Browser!Max({@} \cup Stamps)]
        /\ lead' = [lead EXCEPT ![k][p] = IF mark'[k][p] > time THEN mark'[k][p] ELSE @]
        /\ rowsKnown' = [rowsKnown EXCEPT ![stage] = @ \cup new]
        /\ cut' = [cut EXCEPT ![k][p] = @ \/ Browser!Cardinality(Browser!Rows(k, p)) > Limit[k]]
    BY <1>1, <1>5 DEF Browser!ReadRows
  <2>3. U \subseteq Browser!Things(k) /\ IsFiniteSet(U)
    <3>1. U \subseteq Browser!Things(k)
      BY DEF Browser!Unseen, Browser!Newest, Browser!Rows
    <3>2. QED
      BY <3>1, BrowserConstants, FS_Subset
  <2>4. \A x \in U : /\ Browser!Stamp(k, p, x) \in Int
                     /\ Browser!Stamp(k, p, x) <= time \/ Browser!Stamp(k, p, x) <= MaxStamp
    BY <1>2, <2>3, BrowserConstants DEF BrowserInv, BrowserTyped, Browser!Stamp
  <2>5. q \in Browser!SetToSeqs(U)
    BY <2>1 DEF Browser!Listings
  <2>6. /\ n \in Nat /\ q \in [1..n -> U]
        /\ \A i, j \in 1..n : q[i] = q[j] => i = j
        /\ \A x \in U : \E i \in 1..n : q[i] = x
    BY <2>3, <2>5, SeqsOfSet
  <2>7. new \cap rowsKnown[stage] = {}
    BY <1>1 DEF Browser!Unseen
  <2>8. \A x \in new : x[2] \in Int
    BY <2>4 DEF Browser!RowKey
  <2>9. \A x, y : Browser!RowKey(k, p, x) = Browser!RowKey(k, p, y) => x = y
    BY DEF Browser!RowKey
  <2>10. /\ rows' = [i \in 1..n |-> rows'[i]] /\ Len(rows') = n
         /\ \A i \in 1..n : rows'[i] = Browser!RowKey(k, p, q[i])
    <3> HIDE DEF n, U
    <3>1. DOMAIN q = 1..n
      BY <2>6
    <3>2. rows' = [i \in 1..n |-> Browser!RowKey(k, p, q[i])]
      BY <2>1, <3>1
    <3>3. QED
      BY <2>6, <3>2
  <2>11. Queued' = new
    <3> HIDE DEF n, U
    <3>1. Queued' = {Browser!RowKey(k, p, q[i]) : i \in 1..n}
      BY <2>10 DEF Queued
    <3>2. QED
      BY <2>6, <3>1
  <2>12. \A i, j \in 1..Len(rows') : rows'[i] = rows'[j] => i = j
    <3> HIDE DEF n, U
    <3>1. ASSUME NEW i \in 1..n, NEW j \in 1..n, rows'[i] = rows'[j] PROVE i = j
      <4>1. q[i] = q[j]
        BY <2>9, <2>10, <3>1
      <4>2. QED
        BY <2>6, <4>1
    <3>2. QED
      BY <2>10, <3>1
  <2>13. QueueFresh' /\ KnownWhenTold' /\ \A j \in Browser!Stages : rowsKnown[j] \subseteq rowsKnown'[j]
    <3> HIDE DEF new, n
    <3>1. rows' = [i \in 1..Len(rows') |-> rows'[i]] /\ Len(rows') \in Nat
      BY <2>6, <2>10
    <3>2. QED
      BY <1>1, <1>3, <2>2, <2>7, <2>8, <2>11, <2>12, <3>1, QueueFilled
  <2>14. /\ mark[k][p] \in Nat /\ time \in Nat /\ MaxStamp \in Nat
         /\ mark[k][p] <= time \/ mark[k][p] = lead[k][p]
         /\ lead[k][p] <= mark[k][p] /\ lead[k][p] <= MaxStamp /\ lead[k][p] \in Nat
    BY <1>2, BrowserConstants DEF BrowserInv, BrowserTyped
  <2> DEFINE m == Browser!Max({mark[k][p]} \cup Stamps)
  <2>15. /\ m \in {mark[k][p]} \cup Stamps /\ mark[k][p] <= m
    <3>1. \A x \in {mark[k][p]} \cup Stamps : x \in Int /\ (x <= time \/ x <= MaxStamp)
      BY <2>4, <2>14
    <3>2. \A x \in {mark[k][p]} \cup Stamps : x \in Int /\ x <= time + MaxStamp
      BY <2>14, <3>1
    <3>3. time + MaxStamp \in Nat
      BY <2>14
    <3>4. m \in {mark[k][p]} \cup Stamps /\ \A x \in {mark[k][p]} \cup Stamps : m >= x
      BY <3>2, <3>3, LastOf
    <3>5. m \in Int
      BY <3>2, <3>4
    <3>6. QED
      BY <2>14, <3>4, <3>5
  <2>16. m \in Nat /\ (m <= time \/ m <= MaxStamp)
    <3>1. m \in Int /\ (m <= time \/ m <= MaxStamp)
      BY <2>4, <2>14, <2>15
    <3>2. QED
      BY <2>14, <2>15, <3>1
  <2>17. mark' = [mark EXCEPT ![k][p] = m]
    BY <2>2
  <2> HIDE DEF m
  <2>18. /\ mark' \in [Browser!Tables -> [Browser!Owners -> Nat]]
         /\ mark'[k][p] = m
         /\ \A j \in Browser!Tables, o \in Browser!Owners : ~(j = k /\ o = p) => mark'[j][o] = mark[j][o]
    BY <1>2, <2>16, <2>17 DEF BrowserInv, BrowserTyped
  <2> DEFINE l == IF m > time THEN m ELSE lead[k][p]
  <2>23. /\ lead' \in [Browser!Tables -> [Browser!Owners -> Nat]]
         /\ lead'[k][p] = l
         /\ \A j \in Browser!Tables, o \in Browser!Owners : ~(j = k /\ o = p) => lead'[j][o] = lead[j][o]
    <3>1. lead' = [lead EXCEPT ![k][p] = IF mark'[k][p] > time THEN mark'[k][p] ELSE lead[k][p]]
      BY <1>1, <1>5 DEF Browser!ReadRows
    <3>4. lead' = [lead EXCEPT ![k][p] = l]
      BY <2>18, <3>1
    <3>2. l \in Nat
      BY <2>14, <2>16
    <3> HIDE DEF l
    <3>3. QED
      BY <1>2, <3>4, <3>2 DEF BrowserInv, BrowserTyped
  <2>24. /\ l \in Nat /\ l <= MaxStamp /\ lead[k][p] <= l /\ l <= m
         /\ m <= time \/ m = l
    BY <2>14, <2>15, <2>16
  <2> HIDE DEF l
  <2> DEFINE c == Browser!Cardinality(Browser!Rows(k, p)) > Limit[k]
  <2>19. /\ cut' \in [Browser!Tables -> [Browser!Owners -> BOOLEAN]]
         /\ \A j \in Browser!Tables, o \in Browser!Owners : cut[j][o] => cut'[j][o]
         /\ c => cut'[k][p]
    <3>1. cut' = [cut EXCEPT ![k][p] = @ \/ c]
      BY <2>2
    <3>2. cut \in [Browser!Tables -> [Browser!Owners -> BOOLEAN]]
      BY DEF BrowserInv, BrowserTyped
    <3>3. c \in BOOLEAN
      OBVIOUS
    <3> HIDE DEF c, p
    <3>4. cut' = [cut EXCEPT ![k] = [cut[k] EXCEPT ![p] = cut[k][p] \/ c]]
      BY <3>1
    <3>5. QED
      BY <1>2, <3>2, <3>3, <3>4
  <2>20. BrowserTyped'
    <3>1. \A j \in Browser!Tables, o \in Browser!Owners :
            /\ mark'[j][o] <= time \/ mark'[j][o] = lead'[j][o]
            /\ lead'[j][o] <= mark'[j][o] /\ lead'[j][o] <= MaxStamp
      <4> SUFFICES ASSUME NEW j \in Browser!Tables, NEW o \in Browser!Owners
                   PROVE  /\ mark'[j][o] <= time \/ mark'[j][o] = lead'[j][o]
                          /\ lead'[j][o] <= mark'[j][o] /\ lead'[j][o] <= MaxStamp
        OBVIOUS
      <4>1. CASE j = k /\ o = p
        BY <2>18, <2>23, <2>24, <4>1
      <4>2. CASE ~(j = k /\ o = p)
        BY <2>18, <2>23, <4>2 DEF BrowserInv, BrowserTyped
      <4>3. QED
        BY <4>1, <4>2
    <3>2. QED
      BY <1>1, <2>18, <2>19, <2>23, <3>1 DEF BrowserInv, BrowserTyped
  <2>21. PassedRowsKnown'
    <3> SUFFICES ASSUME NEW j \in Browser!Tables, NEW o \in Browser!Owners,
                        NEW y \in Browser!Things(j),
                        db[j][o][y] \in Nat, 0 < db[j][o][y], db[j][o][y] <= mark'[j][o],
                        ~cut'[j][o], ~(db[j][o][y] <= lead'[j][o])
                 PROVE  Browser!RowKey(j, o, y) \in rowsKnown'[j]
      BY <1>1 DEF PassedRowsKnown, Browser!RowKey, Browser!Stamp
    <3>0. ~(db[j][o][y] <= lead[j][o])
      <4>1. lead[j][o] \in Nat /\ lead'[j][o] \in Nat
        BY <2>23 DEF BrowserInv, BrowserTyped
      <4>3. lead[j][o] <= lead'[j][o]
        <5>1. CASE j = k /\ o = p
          BY <2>23, <2>24, <5>1
        <5>2. CASE ~(j = k /\ o = p)
          BY <2>23, <4>1, <5>2
        <5>3. QED
          BY <5>1, <5>2
      <4>2. QED
        BY <4>1, <4>3
    <3>1. rowsKnown[j] \subseteq rowsKnown'[j] /\ ~cut[j][o]
      BY <2>13, <2>19, BrowserConstants
    <3>2. CASE db[j][o][y] <= mark[j][o]
      BY <3>0, <3>1, <3>2 DEF BrowserInv, PassedRowsKnown
    <3>3. CASE ~(db[j][o][y] <= mark[j][o])
      <4>1. j = k /\ o = p
        BY <2>18, <3>3
      <4>2. db[k][p][y] > mark[k][p]
        BY <2>14, <3>3, <4>1
      <4>3. y \in Browser!Rows(k, p)
        BY <4>1, <4>2 DEF Browser!Rows
      <4>4. ~(Cardinality(Browser!Rows(k, p)) > Limit[k])
        BY <2>19, <4>1, BrowserConstants
      <4>5. y \in Browser!Newest(k, p)
        BY <1>2, <4>3, <4>4, NothingCut DEF BrowserInv
      <4>6. Browser!RowKey(k, p, y) \in rowsKnown[k] \/ y \in U
        BY <4>5 DEF Browser!Unseen
      <4>7. new \subseteq rowsKnown'[k]
        BY <1>1, <1>3, <2>2 DEF BrowserInv, KnownWhenTold
      <4>8. QED
        BY <3>1, <4>1, <4>6, <4>7
    <3>4. QED
      BY <3>2, <3>3
  <2>22. QED
    BY <1>1, <2>13, <2>20, <2>21 DEF BrowserInv
<1>6. QED
  BY <1>4, <1>5


(* The browser collector's invariant.                                      *)
LEMMA BrowserAlways == AllSpec => []BrowserInv
<1>1. AllInit => BrowserInv
  <2> SUFFICES ASSUME Browser!Init PROVE BrowserInv
    BY DEF AllInit
  <2>1. /\ time = 0 /\ state = "off" /\ counted = 0 /\ turn = 0 /\ stage = "history" /\ read = FALSE
        /\ rows = <<>> /\ records = {} /\ ~again
        /\ db = [k \in Browser!Tables |-> [p \in Browser!Owners |-> [x \in Browser!Things(k) |-> 0]]]
        /\ mark = [k \in Browser!Tables |-> [p \in Browser!Owners |-> 0]]
        /\ cut = [k \in Browser!Tables |-> [p \in Browser!Owners |-> FALSE]]
        /\ lead = [k \in Browser!Tables |-> [p \in Browser!Owners |-> 0]]
        /\ rowsKnown = [k \in Browser!Stages |-> {}] /\ rowsTold = [k \in Browser!Stages |-> {}]
    BY DEF Browser!Init
  <2>2. Len(rows) = 0 /\ 1..Len(rows) = {} /\ rows = [i \in 1..Len(rows) |-> rows[i]]
    BY <2>1
  <2>3. BrowserTyped
    <3>1. \A k \in Browser!Tables, p \in Browser!Owners : \A x \in Browser!Things(k) : db[k][p][x] = 0
      BY <2>1
    <3>2. \A k \in Browser!Tables, p \in Browser!Owners : mark[k][p] = 0 /\ lead[k][p] = 0
      BY <2>1
    <3>3. /\ mark \in [Browser!Tables -> [Browser!Owners -> Nat]]
          /\ lead \in [Browser!Tables -> [Browser!Owners -> Nat]]
          /\ cut \in [Browser!Tables -> [Browser!Owners -> BOOLEAN]]
      BY <2>1
    <3>4. db = [k \in Browser!Tables |->
                  [p \in Browser!Owners |-> [x \in Browser!Things(k) |-> db[k][p][x]]]]
      BY <2>1
    <3>5. 0 <= MaxRows /\ 0 <= Len(Browser!Profiles) /\ stage \in Browser!Stages
      BY <2>1, BrowserConstants
    <3>6. \A k \in Browser!Tables, p \in Browser!Owners : \A x \in Browser!Things(k) :
            db[k][p][x] \in Nat /\ db[k][p][x] <= time
      BY <2>1, <3>1
    <3>7. \A k \in Browser!Tables, p \in Browser!Owners :
            /\ mark[k][p] <= time \/ mark[k][p] = lead[k][p]
            /\ lead[k][p] <= mark[k][p] /\ lead[k][p] <= MaxStamp
      BY <2>1, <3>2, BrowserConstants
    <3>8. time \in Nat /\ time <= MaxRows /\ counted \in Nat /\ read \in BOOLEAN
      BY <2>1, <3>5
    <3>9. turn \in Nat /\ turn <= Len(Browser!Profiles) /\ ~(turn > 0)
      <4> DEFINE n == Len(Browser!Profiles)
      <4>1. n \in Nat
        BY BrowserConstants
      <4> HIDE DEF n
      <4>2. turn \in Nat /\ turn <= n /\ ~(turn > 0)
        BY <2>1, <4>1
      <4>3. QED
        BY <4>2 DEF n
    <3>10. \A s \in records : s \in Int
      BY <2>1
    <3>11. QED
      BY <3>3, <3>4, <3>5, <3>6, <3>7, <3>8, <3>9, <3>10 DEF BrowserTyped
  <2>4. QueueFresh
    BY <2>1, <2>2 DEF QueueFresh
  <2>5. KnownWhenTold
    BY <2>1, <2>2 DEF KnownWhenTold, Queued
  <2>6. PassedRowsKnown
    BY <2>1 DEF PassedRowsKnown
  <2>7. QED
    BY <2>1, <2>3, <2>4, <2>5, <2>6 DEF BrowserInv
<1>2. BrowserInv /\ [AllNext]_allVars => BrowserInv'
  <2> SUFFICES ASSUME BrowserInv, [Browser!Next]_(Browser!vars) PROVE BrowserInv'
    BY BrowserSteps
  <2>1. CASE \E p \in Browser!Owners \ Firefox, k \in Browser!Tables :
               \E x \in Browser!Things(k) : Browser!Browse(k, p, x)
    BY <2>1, BrowseKeeps
  <2>2. CASE \E k \in Browser!Tables : Browser!ReadRows(k)
    BY <2>2, RowsKeep
  <2>3. QED
    BY <2>1, <2>2, TurnKeeps, PublishKeeps, ExtensionsKeep DEF Browser!Next
<1>3. QED
  BY <1>1, <1>2, PTL DEF AllSpec

(* Every row of a browser's database that a mark is past was seen, unless a *)
(* LIMIT cut its table off or a number in a title had put the mark ahead of *)
(* the clock and past the row, and what was seen is handed to publish() and *)
(* never twice, for any profiles, databases and limits and however the     *)
(* browsers write meanwhile: read_history_incremental and                  *)
(* read_downloads_incremental, src/collectors/src/browser/mod.rs.          *)
THEOREM RowsCorrect == AllSpec => []RowsSeenOnce
<1>1. BrowserInv => RowsSeenOnce
  <2> SUFFICES ASSUME BrowserInv PROVE RowsSeenOnce
    OBVIOUS
  <2>1. Browser!Range(rows) = Queued
    <3>1. DOMAIN rows = 1..Len(rows)
      BY DEF BrowserInv, QueueFresh
    <3>2. QED
      BY <3>1 DEF Browser!Range, Queued
  <2>2. ~again
    BY DEF BrowserInv
  <2>3. \A k \in Browser!Stages :
          rowsKnown[k] = rowsTold[k] \cup (IF stage = k THEN Browser!Range(rows) ELSE {})
    BY <2>1 DEF BrowserInv, KnownWhenTold
  <2>4. \A k \in Browser!Tables, p \in Browser!Owners : \A x \in Browser!Things(k) :
          db[k][p][x] \in 1..mark[k][p] =>
            cut[k][p] \/ db[k][p][x] <= lead[k][p] \/ Browser!RowKey(k, p, x) \in rowsKnown[k]
    <3> SUFFICES ASSUME NEW k \in Browser!Tables, NEW p \in Browser!Owners,
                        NEW x \in Browser!Things(k), db[k][p][x] \in 1..mark[k][p]
                 PROVE  \/ cut[k][p] \/ db[k][p][x] <= lead[k][p]
                        \/ Browser!RowKey(k, p, x) \in rowsKnown[k]
      OBVIOUS
    <3>1. mark[k][p] \in Nat
      BY DEF BrowserInv, BrowserTyped
    <3>2. db[k][p][x] \in Nat /\ 0 < db[k][p][x] /\ db[k][p][x] <= mark[k][p]
      BY <3>1
    <3>3. QED
      BY <3>2 DEF BrowserInv, PassedRowsKnown
  <2>5. QED
    BY <2>2, <2>3, <2>4 DEF RowsSeenOnce, Browser!RowsSeenOnce
<1>2. QED
  BY <1>1, BrowserAlways, PTL


-----------------------------------------------------------------------------
(* The types                                                               *)

(* The process monitor: only a scan has pids to look at.                   *)
ProcTyped == Proc!TypeOK /\ (converter # "scanning" => todo = {})

(* A message of the connector names a pid and a process.                   *)
LEMMA ProcTypesKept ==
  ASSUME ProcInv, ProcTyped, [Proc!Next]_(Proc!vars)
  PROVE  ProcTyped'
<1> USE DEF Proc!procVars, Proc!pollVars, Proc!scanVars
<1>1. MaxForks \in Nat /\ forks \in Nat /\ forks <= MaxForks
  BY SensorsAssumption DEF Proc!ProcessAssumption, ProcInv
<1>2. /\ procAlive \in [ProcPids -> 0..MaxForks] /\ forks \in 0..MaxForks
      /\ procQueue \in Seq(Proc!Message) /\ log \in Seq(Proc!Message)
      /\ published \in Seq(Proc!Message)
  BY DEF ProcTyped, Proc!TypeOK
<1>3. Proc!Present \subseteq ProcPids
  BY DEF Proc!Present
<1>4. ASSUME NEW m \in Proc!Message, Proc!Multicast(m)
      PROVE  procQueue' \in Seq(Proc!Message) /\ log' \in Seq(Proc!Message)
  <2>1. Append(procQueue, m) \in Seq(Proc!Message) /\ Append(log, m) \in Seq(Proc!Message)
    BY <1>2, AppendProperties
  <2>2. QED
    BY <1>2, <1>4, <2>1 DEF Proc!Multicast
<1>5. ASSUME NEW p \in ProcPids, Proc!Fork(p) PROVE ProcTyped'
  <2>1. forks + 1 \in Proc!Process /\ forks + 1 \in 0..MaxForks
    BY <1>1, <1>5 DEF Proc!Fork, Proc!Process
  <2>2. [kind |-> "fork", pid |-> p, proc |-> forks + 1] \in Proc!Message
    BY <2>1 DEF Proc!Message
  <2>3. procQueue' \in Seq(Proc!Message) /\ log' \in Seq(Proc!Message)
    BY <1>4, <1>5, <2>2 DEF Proc!Fork
  <2>4. procAlive' \in [ProcPids -> 0..MaxForks] /\ forks' \in 0..MaxForks
    BY <1>2, <1>5, <2>1 DEF Proc!Fork
  <2>5. /\ UNCHANGED <<netlink, converter, procKnown, current, ahead, todo, scanned, earlier, published>>
        /\ during' \subseteq during \cup {p}
    BY <1>5 DEF Proc!Fork
  <2>6. QED
    BY <2>3, <2>4, <2>5 DEF ProcTyped, Proc!TypeOK
<1>6. ASSUME NEW p \in ProcPids, Proc!Exit(p) PROVE ProcTyped'
  <2>1. procAlive[p] \in Proc!Process
    BY <1>1, <1>2, <1>6 DEF Proc!Exit, Proc!Process
  <2>2. [kind |-> "exit", pid |-> p, proc |-> procAlive[p]] \in Proc!Message
    BY <2>1 DEF Proc!Message
  <2>3. procQueue' \in Seq(Proc!Message) /\ log' \in Seq(Proc!Message)
    BY <1>4, <1>6, <2>2 DEF Proc!Exit
  <2>4. procAlive' \in [ProcPids -> 0..MaxForks] /\ forks' \in 0..MaxForks
    BY <1>1, <1>2, <1>6 DEF Proc!Exit
  <2>5. UNCHANGED <<netlink, converter, procKnown, current, ahead, todo, scanned, during, earlier,
                    published>>
    BY <1>6 DEF Proc!Exit
  <2>6. QED
    BY <2>3, <2>4, <2>5 DEF ProcTyped, Proc!TypeOK
<1>7. CASE Proc!Connect \/ Proc!RunEnds \/ Proc!Started \/ Proc!EndScan
  BY <1>7 DEF ProcTyped, Proc!TypeOK, Proc!Connect, Proc!RunEnds, Proc!Started, Proc!EndScan
<1>8. CASE Proc!Convert \/ Proc!ConverterEnds
  <2>1. procQueue # <<>> => Head(procQueue) \in Proc!Message /\ Tail(procQueue) \in Seq(Proc!Message)
    BY <1>2, HeadTailProperties
  <2>2. procQueue' \in Seq(Proc!Message) /\ published' \in Seq(Proc!Message)
    <3>1. procQueue # <<>> => Append(published, Head(procQueue)) \in Seq(Proc!Message)
      BY <1>2, <2>1, AppendProperties
    <3>2. QED
      BY <1>2, <1>8, <2>1, <3>1 DEF Proc!Convert, Proc!ConverterEnds
  <2>3. /\ converter' \in {"netlink", "done"} /\ converter = "netlink"
        /\ UNCHANGED <<procAlive, forks, netlink, log, procKnown, current, ahead, todo, scanned,
                       during, earlier>>
    BY <1>8 DEF Proc!Convert, Proc!ConverterEnds
  <2>4. QED
    BY <2>2, <2>3 DEF ProcTyped, Proc!TypeOK
<1>9. CASE Proc!Seed \/ Proc!BeginScan
  <2>1. ASSUME Proc!Open
        PROVE  /\ scanned' \subseteq ProcPids \X Proc!Process
               /\ current' \cup ahead' \cup earlier' \cup during' \subseteq ProcPids
    <3>1. scanned' \subseteq ProcPids \X Proc!Process
      BY <1>1, <1>2, <2>1 DEF Proc!Open, Proc!Present, Proc!Process
    <3>2. QED
      BY <1>3, <2>1, <3>1 DEF Proc!Open, ProcTyped, Proc!TypeOK
  <2>2. CASE Proc!Seed
    BY <1>3, <2>1, <2>2 DEF Proc!Seed, ProcTyped, Proc!TypeOK
  <2>3. CASE Proc!BeginScan
    BY <1>3, <2>1, <2>3 DEF Proc!BeginScan, ProcTyped, Proc!TypeOK
  <2>4. QED
    BY <1>9, <2>2, <2>3
<1>10. ASSUME NEW p \in ProcPids, Proc!Gather(p) PROVE ProcTyped'
  <2>1. published' \in Seq(Proc!Message)
    <3>1. Proc!Announceable(p) => procAlive[p] \in Proc!Process
      BY <1>1, <1>2 DEF Proc!Announceable, Proc!Process
    <3>2. Proc!Announceable(p) => [kind |-> "fork", pid |-> p, proc |-> procAlive[p]] \in Proc!Message
      BY <3>1 DEF Proc!Message
    <3>3. QED
      BY <1>2, <1>10, <3>2, AppendProperties DEF Proc!Gather
  <2>2. /\ converter = "scanning" /\ todo' \subseteq todo
        /\ UNCHANGED <<procAlive, forks, netlink, procQueue, log, converter, procKnown, current,
                       ahead, scanned, during, earlier>>
    BY <1>10 DEF Proc!Gather
  <2>3. QED
    BY <2>1, <2>2 DEF ProcTyped, Proc!TypeOK
<1>11. ASSUME NEW p \in ProcPids, Proc!List(p) PROVE ProcTyped'
  BY <1>3, <1>11 DEF Proc!List, Proc!Scanning, ProcTyped, Proc!TypeOK
<1>12. CASE UNCHANGED Proc!vars
  <2>1. UNCHANGED <<procAlive, forks, netlink, procQueue, log, converter, procKnown, current, ahead,
                    todo, scanned, during, earlier, published>>
    BY <1>12 DEF Proc!vars
  <2>2. QED
    BY <2>1 DEF ProcTyped, Proc!TypeOK
<1>13. QED
  BY <1>5, <1>6, <1>7, <1>8, <1>9, <1>10, <1>11, <1>12 DEF Proc!Next, Proc!ConverterStep


(* The file poller: a directory under scan is one of the watch paths.      *)
FileTyped == File!TypeOK /\ (filePc = "files" => next <= Len(Dirs))

(* The steps of the poller.                                                *)
LEMMA FileTypesKept ==
  ASSUME FileTyped, [File!Next]_(File!vars)
  PROVE  FileTyped'
<1>1. Len(Dirs) \in Nat /\ next \in 1..(Len(Dirs) + 1)
  BY SensorsAssumption, LenProperties DEF File!PollerAssumption, FileTyped, File!TypeOK
<1>2. CASE \E f \in PolledFiles, v \in Versions \cup {Absent} : File!Change(f, v)
  BY <1>2 DEF FileTyped, File!TypeOK, File!Change, File!Here
<1>3. CASE File!Tick \/ File!NextDir \/ File!SkipDir
  <2>1. /\ UNCHANGED <<fs, fileKnown, last>> /\ filePc' \in {"tick", "dirs", "files"}
        /\ next' \in 1..(Len(Dirs) + 1)
    BY <1>1, <1>3 DEF FileTyped, File!TypeOK, File!Tick, File!NextDir, File!SkipDir
  <2>2. filePc' = "files" => next' <= Len(Dirs) /\ fileListed' \subseteq File!Here /\ next' = next
    BY <1>1, <1>3 DEF File!Tick, File!NextDir, File!SkipDir
  <2>3. QED
    BY <2>1, <2>2 DEF FileTyped, File!TypeOK, File!Here
<1>4. ASSUME NEW f \in PolledFiles, File!Inspect(f) PROVE FileTyped'
  <2>1. fileKnown' \in [PolledFiles -> Versions \cup {Absent}]
    BY <1>4 DEF FileTyped, File!TypeOK, File!Inspect
  <2>2. last' \in [PolledFiles -> {"none", "create", "modify", "delete"}]
    BY <1>4 DEF FileTyped, File!TypeOK, File!Inspect
  <2>3. fileListed' \subseteq fileListed /\ UNCHANGED <<fs, filePc, next>>
    BY <1>4 DEF File!Inspect
  <2>4. QED
    BY <2>1, <2>2, <2>3 DEF FileTyped, File!TypeOK, File!Here
<1>5. CASE File!Sweep
  <2>1. PICK lost : /\ fileKnown' = [f \in PolledFiles |-> IF f \in lost THEN Absent ELSE fileKnown[f]]
                    /\ last' = [f \in PolledFiles |-> IF f \in lost THEN "delete" ELSE last[f]]
    BY <1>5 DEF File!Sweep
  <2>2. /\ fileKnown' \in [PolledFiles -> Versions \cup {Absent}]
        /\ last' \in [PolledFiles -> {"none", "create", "modify", "delete"}]
    BY <2>1 DEF FileTyped, File!TypeOK
  <2>3. next' \in 1..(Len(Dirs) + 1) /\ filePc' = "dirs" /\ fs' = fs
    BY <1>1, <1>5 DEF FileTyped, File!Sweep
  <2>4. QED
    BY <2>2, <2>3 DEF FileTyped, File!TypeOK
<1>6. CASE UNCHANGED File!vars
  BY <1>6 DEF File!vars, FileTyped, File!TypeOK, File!Here
<1>7. QED
  BY <1>2, <1>3, <1>4, <1>5, <1>6 DEF File!Next

(* The file event loop: a write is handled once it was made.               *)
LoopCounted ==
  /\ now <= MaxBurstTime /\ fileMade \in Nat /\ fileMade <= MaxEvents
  /\ fileQueue \in Seq(Loop!RawEvent) /\ fileRaw \in Loop!RawEvent \cup {"none"}
  /\ loopPc \in {"recv", "hash", "alert", "publish", "ended"}
  /\ Len(fileHistory) + Len(fileQueue) + (IF loopPc = "hash" THEN 1 ELSE 0) <= fileMade

(* The steps of the loop.                                                  *)
LEMMA LoopCountKept ==
  ASSUME LoopInv, LoopCounted, [Loop!Next]_(Loop!vars)
  PROVE  LoopCounted'
<1>1. /\ MaxEvents \in Nat /\ MaxBurstTime \in Nat /\ now \in Nat /\ fileMade \in Nat
      /\ Len(fileHistory) \in Nat /\ Len(fileQueue) \in Nat /\ fileQueue \in Seq(Loop!RawEvent)
      /\ fileHistory \in Seq(Nat)
  BY SensorsAssumption, LenProperties DEF Loop!LoopAssumption, LoopInv, LoopTyped, LoopCounted
<1>2. CASE Loop!Tick
  BY <1>1, <1>2 DEF LoopCounted, Loop!Tick
<1>3. ASSUME NEW kind \in Loop!RawEvent, Loop!Touch(kind) PROVE LoopCounted'
  <2>1. /\ fileMade < MaxEvents /\ fileMade' = fileMade + 1
        /\ fileQueue' = fileQueue \/ fileQueue' = Append(fileQueue, kind)
        /\ UNCHANGED <<now, loopPc, fileRaw, fileHistory>>
    BY <1>3 DEF Loop!Touch
  <2>2. /\ Append(fileQueue, kind) \in Seq(Loop!RawEvent)
        /\ Len(Append(fileQueue, kind)) = Len(fileQueue) + 1
    BY <1>1, AppendProperties
  <2>3. fileQueue' \in Seq(Loop!RawEvent) /\ Len(fileQueue') <= Len(fileQueue) + 1 /\ Len(fileQueue') \in Nat
    BY <1>1, <2>1, <2>2
  <2>4. QED
    BY <1>1, <2>1, <2>3 DEF LoopCounted
<1>4. CASE Loop!Receive
  <2>1. /\ Head(fileQueue) \in Loop!RawEvent /\ Tail(fileQueue) \in Seq(Loop!RawEvent)
        /\ Len(Tail(fileQueue)) = Len(fileQueue) - 1
    BY <1>1, <1>4, HeadTailProperties DEF Loop!Receive
  <2>2. /\ loopPc = "recv" /\ loopPc' = "hash" /\ fileRaw' = Head(fileQueue) /\ fileQueue' = Tail(fileQueue)
        /\ UNCHANGED <<now, fileMade, fileHistory>>
    BY <1>4 DEF Loop!Receive
  <2>3. QED
    BY <1>1, <2>1, <2>2 DEF LoopCounted
<1>5. CASE Loop!Hashed
  <2>1. Len(fileHistory') \in {Len(fileHistory), Len(fileHistory) + 1}
    <3>1. Len(Append(fileHistory, now)) = Len(fileHistory) + 1
      BY <1>1, AppendProperties
    <3>2. QED
      BY <1>5, <3>1 DEF Loop!Hashed
  <2>2. /\ loopPc = "hash" /\ loopPc' \in {"alert", "publish"}
        /\ UNCHANGED <<now, fileMade, fileQueue, fileRaw>>
    BY <1>5 DEF Loop!Hashed
  <2>3. QED
    BY <1>1, <2>1, <2>2 DEF LoopCounted
<1>6. CASE Loop!Alert \/ Loop!Publish
  BY <1>1, <1>6 DEF LoopCounted, Loop!Alert, Loop!Publish
<1>7. CASE Loop!PublishRefused
  <2>1. /\ loopPc = "publish" /\ loopPc' = "ended" /\ fileRaw' = "none" /\ fileQueue' = <<>>
        /\ UNCHANGED <<now, fileMade, fileHistory>>
    BY <1>7 DEF Loop!PublishRefused
  <2>2. fileQueue' \in Seq(Loop!RawEvent) /\ Len(fileQueue') = 0
    BY <2>1, EmptySeq
  <2>3. QED
    BY <1>1, <2>1, <2>2 DEF LoopCounted
<1>8. CASE UNCHANGED Loop!vars
  BY <1>8 DEF Loop!vars, LoopCounted
<1>9. QED
  BY <1>2, <1>3, <1>4, <1>5, <1>6, <1>7, <1>8 DEF Loop!Next

(* The pollers of the host: a root hub is never among what is announced.   *)
HostTypes ==
  /\ usbFresh \subseteq Devices \ SubEntries /\ reported \subseteq Services
  /\ entriesLeft \subseteq Entries

(* The steps of the pollers.                                               *)
LEMMA HostTypesKept ==
  ASSUME HostInv, HostTypes, [Host!Next]_(Host!vars)
  PROVE  HostTypes'
<1> USE DEF Host!usbVars, Host!registryVars, Host!host
<1>1. plugged \subseteq Devices /\ files \subseteq Services /\ unitsListed \subseteq Services
  BY DEF HostInv, HostTyped
<1>2. CASE \/ \E t \in Host!Tasks :
                Host!Register(t) \/ Host!Count(t) \/ Host!Rest(t) \/ Host!restart_collector(t)
           \/ (\E d \in Devices : Host!Connect(d)) \/ (\E k \in Host!UsbKeys : Host!Disconnect(k))
           \/ Host!EndUsb \/ Host!ScanServices \/ Host!HostChanges \/ UNCHANGED Host!vars
  <2>1. usbFresh' \subseteq usbFresh /\ reported' = reported /\ entriesLeft' = entriesLeft
    BY <1>2 DEF Host!Register, Host!Count, Host!Rest, Host!restart_collector, Host!Connect,
                Host!Disconnect, Host!EndUsb, Host!ScanServices, Host!HostChanges, Host!vars
  <2>2. QED
    BY <2>1 DEF HostTypes
<1>3. CASE Host!ScanUsb
  BY <1>1, <1>3 DEF HostTypes, Host!ScanUsb, Host!Seen
<1>4. CASE \E f \in Services : Host!Inspect(f)
  BY <1>4 DEF HostTypes, Host!Inspect
<1>5. CASE Host!ScanStartup \/ \E e \in Entries : Host!Announce(e)
  BY <1>5 DEF HostTypes, Host!ScanStartup, Host!Announce
<1>6. QED
  BY <1>2, <1>3, <1>4, <1>5 DEF Host!Next


(* A sequence whose elements are all of a set is a sequence over it.       *)
LEMMA SeqNarrows ==
  ASSUME NEW S, NEW T, NEW q \in Seq(S), \A i \in 1..Len(q) : q[i] \in T
  PROVE  q \in Seq(T)
<1>1. q \in [1..Len(q) -> S] /\ Len(q) \in Nat
  BY LenProperties
<1>2. q \in [1..Len(q) -> T]
  BY <1>1
<1>3. QED
  BY <1>1, <1>2

(* The loop's types.                                                       *)
LEMMA LoopTypesHold == LoopInv /\ LoopCounted => Loop!TypeOK
<1> SUFFICES ASSUME LoopInv, LoopCounted PROVE Loop!TypeOK
  OBVIOUS
<1>1. /\ MaxEvents \in Nat /\ MaxBurstTime \in Nat /\ now \in Nat /\ fileMade \in Nat
      /\ Len(fileHistory) \in Nat /\ Len(fileQueue) \in Nat /\ Len(window) \in Nat
      /\ fileHistory \in Seq(Nat) /\ window \in Seq(Nat) /\ alerts \in Seq(SUBSET Nat)
      /\ Len(window) <= Len(fileHistory)
  BY SensorsAssumption, LenProperties DEF Loop!LoopAssumption, LoopInv, LoopTyped, LoopCounted
<1>2. \A i \in 1..Len(fileHistory) : fileHistory[i] \in 0..MaxBurstTime
  <2>1. \A i \in 1..Len(fileHistory) : fileHistory[i] \in Nat /\ fileHistory[i] <= now
    BY <1>1, ElementOfSeq DEF LoopInv
  <2>2. QED
    BY <1>1, <2>1 DEF LoopCounted
<1>3. fileHistory \in Seq(0..MaxBurstTime)
  BY <1>1, <1>2, SeqNarrows
<1>4. window \in Seq(0..MaxBurstTime)
  <2> DEFINE s == Len(fileHistory) - Len(window)
  <2>1. \A i \in 1..Len(window) : i + s \in 1..Len(fileHistory)
    BY <1>1
  <2>2. \A i \in 1..Len(window) : window[i] = fileHistory[i + s]
    BY DEF LoopInv, Suffix
  <2>3. \A i \in 1..Len(window) : window[i] \in 0..MaxBurstTime
    BY <1>2, <2>1, <2>2
  <2>4. QED
    BY <1>1, <2>3, SeqNarrows
<1>5. alerts \in Seq(SUBSET (1..MaxEvents))
  <2>1. Len(fileHistory) <= MaxEvents
    BY <1>1 DEF LoopCounted
  <2>2. Left \subseteq 1..MaxEvents
    BY <1>1, <2>1 DEF Left
  <2>3. DOMAIN alerts = 1..Len(alerts) /\ Len(alerts) \in Nat
    BY <1>1, LenProperties
  <2>4. \A a \in 1..Len(alerts) : alerts[a] \in SUBSET (1..MaxEvents)
    BY <2>2, <2>3 DEF LoopInv
  <2>5. QED
    BY <1>1, <2>4, SeqNarrows
<1>6. loopPc # "alert" => Len(window) < MinFiles
  BY DEF LoopInv
<1>7. now \in 0..MaxBurstTime /\ fileMade \in 0..MaxEvents
  BY <1>1 DEF LoopCounted
<1>8. QED
  BY <1>3, <1>4, <1>5, <1>6, <1>7 DEF LoopCounted, Loop!TypeOK

(* Of the scan detector, whose queue is in order as the history is.        *)
LEMMA ScanTypesHold == ScanInv /\ clock <= MaxScanTime => Scan!TypeOK
<1> SUFFICES ASSUME ScanInv, clock <= MaxScanTime PROVE Scan!TypeOK
  OBVIOUS
<1>1. PICK s \in 0..Len(scanHistory) : Suffix(observations, scanHistory, s)
  BY DEF ScanInv
<1>2. /\ Len(scanHistory) \in Nat /\ Len(observations) \in Nat
      /\ DOMAIN observations = 1..Len(observations)
  BY LenProperties DEF ScanInv
<1>3. \A i \in 1..Len(observations) :
        i + s \in 1..Len(scanHistory) /\ observations[i] = scanHistory[i + s]
  BY <1>1, <1>2 DEF Suffix
<1>4. \A i, j \in 1..Len(observations) : i < j => i + s < j + s
  BY <1>1, <1>2
<1>5. \A i, j \in 1..Len(observations) : i < j => observations[i].at <= observations[j].at
  BY <1>3, <1>4 DEF ScanInv, InOrder
<1>6. clock \in 0..MaxScanTime
  BY ScanConstants DEF ScanInv
<1>7. QED
  BY <1>2, <1>5, <1>6 DEF ScanInv, Scan!TypeOK, Obs

(* Of the pollers of the host.                                             *)
LEMMA HostTypesHold == HostInv /\ HostTypes => Host!TypeOK
<1> SUFFICES ASSUME HostInv, HostTypes PROVE Host!TypeOK
  OBVIOUS
<1>1. \A t \in Host!Tasks : entry[t] # None => entry[t].state \in {"running", "restarting"}
  BY DEF HostInv, HostTyped, Entry
<1>2. \A t \in Host!Tasks : uncounted[t] \in 0..Host!Due(t)
  BY DEF HostInv, HostTyped, CountInv, Host!Due
<1>3. QED
  BY <1>1, <1>2 DEF HostInv, HostTyped, HostTypes, Host!TypeOK

(* Of the browser collector, with the bounds of the risk scores.           *)
LEMMA BrowserTypesHold == BrowserInv => Browser!TypeOK
<1> SUFFICES ASSUME BrowserInv PROVE Browser!TypeOK
  OBVIOUS
<1>1. time \in 0..MaxRows /\ turn \in 0..Len(Browser!Profiles) /\ stage \in Browser!Stages
  BY BrowserConstants DEF BrowserInv, BrowserTyped
<1>2. \A k \in Browser!Tables, p \in Browser!Owners : mark[k][p] \in 0..time \cup {lead[k][p]}
  <2> SUFFICES ASSUME NEW k \in Browser!Tables, NEW p \in Browser!Owners
               PROVE  mark[k][p] \in 0..time \cup {lead[k][p]}
    OBVIOUS
  <2>1. mark[k][p] \in Nat /\ time \in Nat /\ (mark[k][p] <= time \/ mark[k][p] = lead[k][p])
    BY DEF BrowserInv, BrowserTyped
  <2>2. QED
    BY <2>1
<1>3. ASSUME NEW key PROVE Browser!Risks(key) \subseteq 5..80
  <2>1. Browser!NavigationRisk(key[1]) \in 5..80
    BY DEF Browser!NavigationRisk
  <2>2. \A hashed \in BOOLEAN : Browser!DownloadRisk(key, hashed) \in 5..80
    <3> SUFFICES ASSUME NEW hashed \in BOOLEAN PROVE Browser!DownloadRisk(key, hashed) \in 5..80
      OBVIOUS
    <3> DEFINE flagged == Browser!Flagged(key)
               risky == key[1] \in Dangerous
               address == key[1] \in IpUrls
    <3>1. Browser!DownloadRisk(key, hashed) =
            IF flagged THEN 60
            ELSE (IF risky THEN 45 ELSE 10) + (IF hashed THEN 10 ELSE 0) + (IF address THEN 5 ELSE 0)
      BY DEF Browser!DownloadRisk
    <3> HIDE DEF flagged, risky, address
    <3>2. QED
      BY <3>1
  <2>3. Browser!ExtensionRisk(key[1]) \in 5..80
    BY DEF Browser!ExtensionRisk
  <2>4. stage \in {"history", "downloads", "extensions"}
    BY <1>1, BrowserConstants
  <2>5. QED
    BY <2>1, <2>2, <2>3, <2>4 DEF Browser!Risks
<1>4. records \subseteq Int
  BY DEF BrowserInv, BrowserTyped
<1>5. QED
  BY <1>1, <1>2, <1>3, <1>4 DEF BrowserInv, BrowserTyped, Browser!TypeOK

(* The state of every collector has its type, the browser's risk scores    *)
(* within 5..80 and the ransomware window below its threshold between two  *)
(* alerts: src/collectors/src.                                             *)
THEOREM SensorsTyped == AllSpec => []AllTyped
<1> DEFINE Types == TypeInv /\ ProcTyped /\ FileTyped /\ LoopCounted /\ HostTypes
<1>1. AllInit => Types
  <2> SUFFICES ASSUME AllInit PROVE Types
    OBVIOUS
  <2>1. TypeInv
    BY TypeInit DEF AllInit
  <2>2. ProcTyped
    <3>1. /\ procQueue \in Seq(Proc!Message) /\ log \in Seq(Proc!Message)
          /\ published \in Seq(Proc!Message)
      BY EmptySeq DEF AllInit, Proc!Init
    <3>2. MaxForks \in Nat
      BY SensorsAssumption DEF Proc!ProcessAssumption
    <3>3. QED
      BY <3>1, <3>2 DEF AllInit, Proc!Init, ProcTyped, Proc!TypeOK
  <2>3. FileTyped
    <3>1. Len(Dirs) \in Nat
      BY SensorsAssumption, LenProperties DEF File!PollerAssumption
    <3>2. QED
      BY <3>1 DEF AllInit, File!Init, FileTyped, File!TypeOK
  <2>4. LoopCounted
    <3>1. fileQueue \in Seq(Loop!RawEvent) /\ Len(fileQueue) = 0 /\ Len(fileHistory) = 0
      BY EmptySeq DEF AllInit, Loop!Init
    <3>2. MaxEvents \in Nat /\ MaxBurstTime \in Nat
      BY SensorsAssumption DEF Loop!LoopAssumption
    <3>3. QED
      BY <3>1, <3>2 DEF AllInit, Loop!Init, LoopCounted
  <2>5. HostTypes
    BY DEF AllInit, Host!Init, HostTypes
  <2>6. QED
    BY <2>1, <2>2, <2>3, <2>4, <2>5
<1>2. Types /\ ProcInv /\ LoopInv /\ HostInv /\ [AllNext]_allVars => Types'
  BY PartSteps, TypeNext, ProcTypesKept, FileTypesKept, LoopCountKept, HostTypesKept
<1>3. /\ Types /\ LoopInv /\ HostInv /\ ScanInv /\ clock <= MaxScanTime /\ BrowserInv
      => AllTyped
  BY LoopTypesHold, ScanTypesHold, HostTypesHold, BrowserTypesHold
     DEF AllTyped, TypeInv, ProcTyped, FileTyped
<1>4. QED
  BY <1>1, <1>2, <1>3, ProcAlways, LoopAlways, HostAlways, ScanAlways, BrowserAlways, PTL DEF AllSpec
=============================================================================
