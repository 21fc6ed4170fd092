----------------------------- MODULE HostPollers -----------------------------
(***************************************************************************)
(* The collectors that only poll the host, and the registry they count in: *)
(* USB devices (collectors/src/usb/mod.rs), systemd user services          *)
(* (collectors/src/registry/mod.rs), start-up entries                      *)
(* (collectors/src/startup/mod.rs), CollectorRegistry                      *)
(* (crates/sentinel-core/src/lib.rs) and the API's calls on it             *)
(* (crates/sentinel-api/src/lib.rs). Each collector is a task: it scans in *)
(* one step and publishes what it found one event at a time, while the     *)
(* host changes and clients call. An event is handed to publish(), whose   *)
(* result the tasks ignore, and counted only when publish() has returned,  *)
(* which may take as long as the bus is full.                              *)
(***************************************************************************)
EXTENDS Integers, FiniteSets

CONSTANTS
  Devices,     \* entries of /sys/bus/usb/devices
  KeyOf,       \* device -> vendor:product:serial, None where there is no vendor
  SubEntries,  \* entries with a dash or a colon in the name: all but the hubs'
  Services,    \* names of user service files
  Entries,     \* start-up entries: [place, ending, readable, comment]
  MaxSent,     \* bound: events of one collector
  None

Tasks == {"usb", "registry", "startup"}
UsbKeys == {KeyOf[d] : d \in Devices} \ {None}

PollerAssumption ==
  /\ SubEntries \subseteq Devices /\ MaxSent \in Nat
  /\ None \notin {"connect", "disconnect"}
  /\ None \notin [state : {"running", "restarting"}, produced : Nat]

VARIABLES
  plugged, files, \* the host: devices and service files there are
  busy,      \* task -> is it publishing what it scanned
  fresh,     \* devices the USB task found new and has not published
  gone,      \* keys it missed and has not published
  scanned,   \* keys of its last scan
  known,     \* its keys after the last poll
  listed,    \* service files listed and not looked at yet
  reported,  \* the registry task's set of names
  todo,      \* start-up entries not published yet
  entry,     \* CollectorRegistry: task -> [state, produced], or None
  sent,      \* task -> events handed to publish()
  uncounted, \* task -> what is still to be counted for the last of them
  lastSaid,  \* key -> the last USB event about it, or None
  told       \* service file -> events published about it

host == <<plugged, files>>
usbVars == <<fresh, gone, scanned, known, lastSaid>>
registryVars == <<listed, reported, told>>
vars == <<host, busy, usbVars, registryVars, todo, entry, sent, uncounted>>

Init ==
  /\ plugged \in SUBSET Devices /\ files \in SUBSET Services
  /\ busy = [t \in Tasks |-> FALSE]
  /\ fresh = {} /\ gone = {} /\ scanned = {} /\ known = {}
  /\ listed = {} /\ reported = {} /\ todo = {}
  /\ entry = [t \in Tasks |-> None]
  /\ sent = [t \in Tasks |-> 0] /\ uncounted = [t \in Tasks |-> 0]
  /\ lastSaid = [k \in UsbKeys |-> None] /\ told = [f \in Services |-> 0]

-----------------------------------------------------------------------------
(* CollectorRegistry: register overwrites, the others need an entry.       *)
Registered(e, t) == [e EXCEPT ![t] = [state |-> "running", produced |-> 0]]
Counted(e, t, n) == IF e[t] = None THEN e ELSE [e EXCEPT ![t].produced = @ + n]
WithState(e, t, s) == IF e[t] = None THEN e ELSE [e EXCEPT ![t].state = s]

(* The task starts: it registers and waits for its first tick.             *)
Register(t) ==
  /\ entry[t] = None /\ entry' = Registered(entry, t)
  /\ UNCHANGED <<host, busy, usbVars, registryVars, todo, sent, uncounted>>

Ready(t) == entry[t] # None /\ ~busy[t] /\ sent[t] < MaxSent

(* An event is handed over. The start-up collector counts each twice.      *)
Due(t) == IF t = "startup" THEN 2 ELSE 1
Sent(t) ==
  /\ uncounted[t] = 0 /\ uncounted' = [uncounted EXCEPT ![t] = Due(t)]
  /\ sent' = [sent EXCEPT ![t] = @ + 1]

(* publish() has returned: one of the calls of increment_events.           *)
Count(t) ==
  /\ uncounted[t] > 0 /\ uncounted' = [uncounted EXCEPT ![t] = @ - 1]
  /\ entry' = Counted(entry, t, 1)
  /\ UNCHANGED <<host, busy, usbVars, registryVars, todo, sent>>

-----------------------------------------------------------------------------
(* scan_usb_devices and the comparison with the known keys. Two devices    *)
(* with the same key are both announced.                                   *)
Seen == {d \in plugged : d \notin SubEntries /\ KeyOf[d] # None}

ScanUsb ==
  /\ Ready("usb") /\ busy' = [busy EXCEPT !["usb"] = TRUE]
  /\ scanned' = {KeyOf[d] : d \in Seen}
  /\ fresh' = {d \in Seen : KeyOf[d] \notin known}
  /\ gone' = known \ scanned'
  /\ UNCHANGED <<host, known, lastSaid, registryVars, todo, entry, sent, uncounted>>

Connect(d) ==
  /\ d \in fresh /\ fresh' = fresh \ {d}
  /\ lastSaid' = [lastSaid EXCEPT ![KeyOf[d]] = "connect"]
  /\ Sent("usb")
  /\ UNCHANGED <<host, busy, gone, scanned, known, registryVars, todo, entry>>

Disconnect(k) ==
  /\ fresh = {} /\ k \in gone /\ gone' = gone \ {k}
  /\ lastSaid' = [lastSaid EXCEPT ![k] = "disconnect"]
  /\ Sent("usb")
  /\ UNCHANGED <<host, busy, fresh, scanned, known, registryVars, todo, entry>>

(* Wrong on purpose: the devices are listed anew for the known set.        *)
EndUsb_Rescans ==
  /\ busy["usb"] /\ fresh = {} /\ gone = {} /\ uncounted["usb"] = 0
  /\ known' = {KeyOf[d] : d \in Seen}
  /\ busy' = [busy EXCEPT !["usb"] = FALSE]
  /\ UNCHANGED <<host, fresh, gone, scanned, lastSaid, registryVars, todo, entry, sent, uncounted>>

EndUsb ==
  /\ busy["usb"] /\ fresh = {} /\ gone = {} /\ uncounted["usb"] = 0
  /\ known' = scanned
  /\ busy' = [busy EXCEPT !["usb"] = FALSE]
  /\ UNCHANGED <<host, fresh, gone, scanned, lastSaid, registryVars, todo, entry, sent, uncounted>>

-----------------------------------------------------------------------------
(* The user services: each name is reported once for the life of the task. *)
ScanServices ==
  /\ Ready("registry") /\ files # {}
  /\ busy' = [busy EXCEPT !["registry"] = TRUE] /\ listed' = files
  /\ UNCHANGED <<host, usbVars, reported, told, todo, entry, sent, uncounted>>

Inspect(f) ==
  /\ f \in listed /\ listed' = listed \ {f} /\ uncounted["registry"] = 0
  /\ reported' = reported \cup {f}
  /\ IF f \in reported THEN UNCHANGED <<told, sent, uncounted>>
     ELSE told' = [told EXCEPT ![f] = @ + 1] /\ Sent("registry")
  /\ UNCHANGED <<host, busy, usbVars, todo, entry>>

(* The start-up entries: lines and files of cron, services, a shell's      *)
(* profiles, and what a desktop starts.                                    *)
Listed(e) ==
  /\ e.readable
  /\ e.place = "cron" => ~e.comment
  /\ e.place = "systemd" => e.ending = "service"
  /\ e.place = "autostart" => e.ending = "desktop"

(* Every scan publishes all there are at the time.                         *)
ScanStartup ==
  /\ Ready("startup")
  /\ busy' = [busy EXCEPT !["startup"] = TRUE]
  /\ todo' \in SUBSET {e \in Entries : Listed(e)}
  /\ UNCHANGED <<host, usbVars, registryVars, entry, sent, uncounted>>

Announce(e) ==
  /\ e \in todo /\ todo' = todo \ {e}
  /\ Sent("startup")
  /\ UNCHANGED <<host, busy, usbVars, registryVars, entry>>

Rest(t) ==
  /\ busy[t] /\ uncounted[t] = 0
  /\ \/ t = "registry" /\ listed = {}
     \/ t = "startup" /\ todo = {}
  /\ busy' = [busy EXCEPT ![t] = FALSE]
  /\ UNCHANGED <<host, usbVars, registryVars, todo, entry, sent, uncounted>>

-----------------------------------------------------------------------------
(* The API's restart_collector: not_found, or a label that nothing acts on *)
(* and nothing takes back.                                                 *)
restart_collector(t) ==
  /\ entry[t] # None /\ entry[t].state # "restarting"
  /\ entry' = WithState(entry, t, "restarting")
  /\ UNCHANGED <<host, busy, usbVars, registryVars, todo, sent, uncounted>>

(* list_collectors and collector_status: what a client is shown.           *)
Shown(t) ==
  IF entry[t] = None THEN "not found"
  ELSE IF entry[t].state = "running" THEN "running" ELSE "unspecified"

(* The host: a device is plugged in or out, a file appears or goes.        *)
HostChanges ==
  /\ \/ \E d \in Devices : plugged' = (plugged \cup {d}) \ (plugged \cap {d}) /\ UNCHANGED files
     \/ \E f \in Services : files' = (files \cup {f}) \ (files \cap {f}) /\ UNCHANGED plugged
  /\ UNCHANGED <<busy, usbVars, registryVars, todo, entry, sent, uncounted>>

Next ==
  \/ \E t \in Tasks : Register(t) \/ Count(t) \/ Rest(t) \/ restart_collector(t)
  \/ ScanUsb \/ (\E d \in Devices : Connect(d)) \/ (\E k \in UsbKeys : Disconnect(k)) \/ EndUsb
  \/ ScanServices \/ (\E f \in Services : Inspect(f))
  \/ ScanStartup \/ (\E e \in Entries : Announce(e))
  \/ HostChanges

Spec == Init /\ [][Next]_vars

-----------------------------------------------------------------------------
(* The variables have their types.                                         *)
TypeOK ==
  /\ plugged \subseteq Devices /\ files \subseteq Services
  /\ busy \in [Tasks -> BOOLEAN]
  /\ fresh \subseteq Devices \ SubEntries /\ gone \cup scanned \cup known \subseteq UsbKeys
  /\ listed \cup reported \subseteq Services /\ todo \subseteq Entries
  /\ \A t \in Tasks : entry[t] # None => entry[t].state \in {"running", "restarting"}
  /\ \A t \in Tasks : uncounted[t] \in 0..Due(t)
  /\ lastSaid \in [UsbKeys -> {None, "connect", "disconnect"}]

(* Between two polls the USB events add up to what the task knows: a key   *)
(* is known exactly if the last event about it was a connection; a service *)
(* file is announced once, however often it comes and goes; and what       *)
(* clients read as produced, at any moment and whatever they restart, is   *)
(* never ahead of what was handed to the bus, at most one event behind it, *)
(* and equal to it between two scans (start-up entries count twice).       *)
EventsMatchRecords ==
  /\ ~busy["usb"] => \A k \in UsbKeys : k \in known <=> lastSaid[k] = "connect"
  /\ \A f \in Services : told[f] = (IF f \in reported THEN 1 ELSE 0)
  /\ \A t \in Tasks : entry[t] # None =>
       /\ entry[t].produced <= Due(t) * sent[t]
       /\ entry[t].produced >= Due(t) * (sent[t] - (IF busy[t] THEN 1 ELSE 0))
=============================================================================
