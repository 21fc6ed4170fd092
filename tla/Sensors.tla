-------------------------------- MODULE Sensors --------------------------------
(***************************************************************************)
(* The collectors' components side by side: the network monitor (extended, *)
(* so its names stand for themselves), the process monitor, the file       *)
(* poller, the file event loop, the scan detector, the pollers of the host *)
(* and the browser collector. They share no state in the code, so it is    *)
(* enough that one moves while the others rest where they start: what one  *)
(* of them can do does not depend on the others.                           *)
(***************************************************************************)
EXTENDS NetworkMonitor, Sequences

CONSTANTS
  ProcPids, KernelPids, MaxForks,                                 \* ProcessMonitor
  Dirs, PolledFiles, DirOf, Versions, ListErrors, MaxFileChanges, \* FilePoller
  BurstWindow, MinFiles, MaxBurstTime, MaxEvents,                 \* FileEventLoop
  Hosts, Ports, ScanWindow, Vertical, Horizontal, Storm,          \* ScanDetector, which has the
  MaxScanTime, MaxConns,                                          \*   network monitor's Pids
  Devices, KeyOf, SubEntries, Services, Entries, MaxSent, None,   \* HostPollers
  Bases, Firefox, Pages, Downloads, Extensions, Piped, Fragment,  \* BrowserCollector
  MaxStamp, Dangerous, Malicious, IpUrls, BadTlds, Limit, DownloadWindow, MaxRows

VARIABLES
  moving,    \* the component that does
  procAlive, forks, netlink, procQueue, log, converter, procKnown, current, ahead, todo,
  scanned, during, earlier, published,
  fs, fileChanges, fileKnown, filePc, next, fileListed, last,
  now, fileMade, fileQueue, loopPc, fileRaw, window, fileHistory, alerts,
  clock, observations, scanHistory, verdicts,
  plugged, files, busy, usbFresh, gone, usbScanned, usbKnown, unitsListed, reported, entriesLeft,
  entry, sent, uncounted, lastSaid, unitsTold,
  time, db, state, counted, turn, stage, read, rows, mark, rowsKnown, records,
  rowsTold, again, cut, lead

Proc == INSTANCE ProcessMonitor
          WITH Pids <- ProcPids,
               alive <- procAlive, monitor <- netlink, queue <- procQueue, known <- procKnown

File == INSTANCE FilePoller
          WITH Files <- PolledFiles, MaxChanges <- MaxFileChanges,
               changes <- fileChanges, known <- fileKnown,
               pc <- filePc, listed <- fileListed

Loop == INSTANCE FileEventLoop
          WITH Window <- BurstWindow, MaxTime <- MaxBurstTime,
               made <- fileMade, queue <- fileQueue, pc <- loopPc, raw <- fileRaw,
               history <- fileHistory

Scan == INSTANCE ScanDetector
          WITH Window <- ScanWindow, MaxTime <- MaxScanTime,
               now <- clock, history <- scanHistory

Host == INSTANCE HostPollers
          WITH fresh <- usbFresh, scanned <- usbScanned, known <- usbKnown, listed <- unitsListed,
               todo <- entriesLeft, told <- unitsTold

Browser == INSTANCE BrowserCollector
             WITH Files <- Downloads, Window <- DownloadWindow, MaxTime <- MaxRows,
                  queue <- rows, known <- rowsKnown, told <- rowsTold

ASSUME SensorsAssumption ==
  /\ Proc!ProcessAssumption /\ File!PollerAssumption
  /\ Loop!LoopAssumption /\ Scan!ScanAssumption
  /\ Host!PollerAssumption /\ Browser!BrowserAssumption

-----------------------------------------------------------------------------
Components == {"network", "process", "file", "loop", "scan", "pollers", "browser"}

netVars == vars
procVars == <<procAlive, forks, netlink, procQueue, log, converter, procKnown, current,
              ahead, todo, scanned, during, earlier, published>>
fileVars == <<fs, fileChanges, fileKnown, filePc, next, fileListed, last>>
loopVars == <<now, fileMade, fileQueue, loopPc, fileRaw, window, fileHistory, alerts>>
scanVars == <<clock, observations, scanHistory, verdicts>>
pollVars == <<plugged, files, busy, usbFresh, gone, usbScanned, usbKnown, unitsListed, reported,
              entriesLeft, entry, sent, uncounted, lastSaid, unitsTold>>
browserVars == <<time, db, state, counted, turn, stage, read, rows, mark, rowsKnown,
                 records, rowsTold, again, cut, lead>>
allVars == <<moving, netVars, procVars, fileVars, loopVars, scanVars, pollVars, browserVars>>

AllInit ==
  /\ moving \in Components
  /\ Init /\ Proc!Init /\ File!Init /\ Loop!Init /\ Scan!Init /\ Host!Init /\ Browser!Init
  /\ moving = "network" \/ (alive = Pids /\ ordered)
  /\ moving = "file" \/ \A f \in PolledFiles : fs[f] = Absent
  /\ moving = "pollers" \/ (plugged = {} /\ files = {})

AllNext ==
  \/ /\ moving = "network" /\ Next
     /\ UNCHANGED <<moving, procVars, fileVars, loopVars, scanVars, pollVars, browserVars>>
  \/ /\ moving = "process" /\ Proc!Next
     /\ UNCHANGED <<moving, netVars, fileVars, loopVars, scanVars, pollVars, browserVars>>
  \/ /\ moving = "file" /\ File!Next
     /\ UNCHANGED <<moving, netVars, procVars, loopVars, scanVars, pollVars, browserVars>>
  \/ /\ moving = "loop" /\ Loop!Next
     /\ UNCHANGED <<moving, netVars, procVars, fileVars, scanVars, pollVars, browserVars>>
  \/ /\ moving = "scan" /\ Scan!Next
     /\ UNCHANGED <<moving, netVars, procVars, fileVars, loopVars, pollVars, browserVars>>
  \/ /\ moving = "pollers" /\ Host!Next
     /\ UNCHANGED <<moving, netVars, procVars, fileVars, loopVars, scanVars, browserVars>>
  \/ /\ moving = "browser" /\ Browser!Next
     /\ UNCHANGED <<moving, netVars, procVars, fileVars, loopVars, scanVars, pollVars>>

AllSpec == AllInit /\ [][AllNext]_allVars

-----------------------------------------------------------------------------
(* The properties of the instances, under names of this module.            *)

(* Every component's state has its type.                                   *)
AllTyped ==
  /\ moving = "network" => TypeOK
  /\ moving = "process" => Proc!TypeOK
  /\ moving = "file" => File!TypeOK
  /\ moving = "loop" => Loop!TypeOK
  /\ moving = "scan" => Scan!TypeOK
  /\ moving = "pollers" => Host!TypeOK
  /\ moving = "browser" => Browser!TypeOK

(* Polling announces what has come since the scan before and is still there. *)
NewcomersAnnounced == Proc!NewcomersAnnounced

(* The poller's map of the files agrees with the events it has published.  *)
KnownMatchesEvents == File!KnownMatchesEvents

(* The ransomware window alerts on every burst and on nothing else.        *)
AlertsExact == Loop!AlertsExact

(* The scan detector's verdicts are those of the whole history.            *)
VerdictsExact == Scan!VerdictsExact

(* The USB, service and start-up pollers' events add up to their records.  *)
EventsMatchRecords == Host!EventsMatchRecords

(* The browser collector hands every row it passes to publish() once.      *)
RowsSeenOnce == moving = "browser" => Browser!RowsSeenOnce
=============================================================================
