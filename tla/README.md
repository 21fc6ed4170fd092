# Sentinel AI: TLA+ verification project

Sentinel AI is a host security monitor. Collectors watch processes, files, connections, devices
and browsers and publish events on an in-memory bus. The core service takes the events from the
bus, enriches them, correlates them into chains, evaluates rules, accumulates a risk score per
chain, and turns what exceeds a threshold into alerts, which it stores, streams to API clients and
sends to notification plugins. A desktop application and a command line read the same data; a
management server tracks a fleet of agents.

This directory specifies the parts of it that keep state and are driven from several sides, checks
them with TLC and proves the most important facts about them with TLAPS. Every definition is
translated from the Rust source; `map` in PROJECT.json names the lines of each. Paths below are
relative to the root of the source.

Contents: [inventory](#inventory), [modules](#modules), [runs](#runs), [fairness](#fairness),
[proofs](#proofs), [divergences](#divergences), [not modelled](#not-modelled), [plan](#plan).

## Inventory

| Component | State | Operations | What is hard | What makes it correct |
|---|---|---|---|---|
| Event bus `crates/sentinel-event-bus` | ingest channel, `ingest_depth`, exact and wildcard subscriber lists, a channel per subscriber, the backpressure signal | `publish`, `subscribe`, router `process_events`/`route`, backpressure monitor, `shutdown` | publishers, router, monitor and subscribers interleave; the depth is an unlocked counter; the router waits for full channels | every event once per matching registration, in its publisher's order; the depth and its signal are exact; calls return |
| Correlation engine `crates/sentinel-correlation` | chains, index by pid, index by source and time | `ingest`, `prune` | three ways to join a chain, and indexes that outlive what they name | an event is in one chain; the events of a chain are related; no index entry without cause |
| Risk engine `crates/sentinel-risk` and the service's event loop `apps/sentinel-core-service/src/main.rs` | score per chain, last alert per rule and source, recent alerts per rule | `calculate`, `should_alert`, `prune`; store; notify | decay and cap, two suppressions that share a decision, a store that fails after the decision | the window and the hourly limit hold; nothing is suppressed without cause; scores are sound |
| Alert manager and streams `alert_manager.rs`, `crates/sentinel-api`, alert table in `crates/sentinel-storage` | alert rows, broadcast channel, clients | `create`, `update_alert_state`, `stream_alerts` | read, write and send are three awaited steps of concurrent handlers; slow clients lag | rows stay coherent; an event was true; clients converge or know they lagged |
| Collector manager `collectors/src/framework` | collectors and contexts by id, one lock | `register`, `unregister`, `restart`, `reconfigure`, `health` | a blocking lock held across awaits; failures in the middle | the lock is always let go; what is held is running |
| Process monitor `collectors/src/process` | netlink thread, channel, converter, fallback scan with its known pids | connect, convert, seed, scan | start of the converter; pids that are gone or reused | the kernel's order; every newcomer once |
| File collector `collectors/src/file` | known files, event queue, 10 s window | `scan_dir`, `run_event_loop` | two passes over a directory that changes; a backlog | what is known is what was announced; an alert exactly per burst |
| Network collector `collectors/src/network` | connection tracker, inode-to-pid map, known pids, scan windows | poll, build map, update, scan detection | processes exit, fork and pass sockets on between the steps; two ways to poll that show different things | connects and closes alternate and agree; a scanned owner is found |
| Configuration manager `crates/sentinel-config` | current configuration, watcher, debounce channel | `load`, `start_watcher`, `reload_static`, `update`, `watch` | a change during the debounce or the reload | when all is quiet, what is in force is what the files say |
| Core service life cycle `apps/sentinel-core-service/src/main.rs` | the tasks, shutdown channel, gRPC server | start, signals, main loop, shutdown | signals at every moment; the drain | it stops when told to, and in order |
| Rule engine `crates/sentinel-rule-engine` and the rule calls of the API | compiled rules, watcher, rule table | load, watch, `evaluate`, API calls | broken, vanishing, edited files; scores of truncated products | a broken file costs no other its rule; what is in force was read |
| Schema migrations `crates/sentinel-storage/src/migrations.rs` | objects and `_migrations` of one database file | `run_all` | crash between statements; two processes on one file | a recorded version is complete |
| Event repository `crates/sentinel-storage/src/sqlite.rs` | event table, SQLite's write lock, open transactions | `append`, `query` and its cursor, `get`, `count`, `aggregate`, `retention` | a transaction per batch that waits, fails or is killed; which rows one DELETE with age and limit takes | a batch is stored whole or not at all |
| Enrichment `apps/sentinel-core-service/src/enrichment.rs` and eight plugins | risk and tags of the event in hand, indicators loaded at the start | ask four services at once, join, GeoIP, indicator files, VirusTotal, URLhaus | any mix of replies, refusals and silence | each service counts for what it said, whatever the others did |
| AI engine `crates/sentinel-ai` | cache, switch | `explain_alert` and the other prompts, concurrent | a lock that is let go while the provider generates; a bounded cache with truncated keys | an answer is one the provider gave, or the fall-back |
| Response engine `crates/sentinel-core/src/response.rs` | pending commands and their confirmations | `enqueue`, `confirm`, `expire_pending`, `execute` | a confirmation that races the expiry; the same person twice | nothing is released without as many different people as its tier asks for, and nothing twice |
| Polling collectors `collectors/src/{usb,registry,startup}` and the registry `crates/sentinel-core/src/lib.rs` | what each knows, the counts per collector | scan, announce, rest; `register`, `increment_events`, `restart_collector` | the host changes between the scan and the announcements; clients relabel a collector meanwhile | what is known, announced and counted agrees |
| Browser collector `collectors/src/browser` | marks per profile and table, known rows, burst records | read history, downloads, extensions; publish | browsers write while two tables are read; limits; reads that fail | a row is announced once, and none below the mark is missed but by a limit, or by a number a title puts in the time's place |
| Desktop application `ui/tauri-app` | list of events, page offset, notified alerts | `query_events`, the hooks' `fetchPage`, `checkNewAlerts` | calls that overlap, replies out of order, rows that come and go between pages | nothing is shown twice |
| Privacy, Sigma, CLI, management server, notifier plugins | see [not modelled](#not-modelled) | | | |

How they interact: collectors call `EventBus::publish` and wait while the ingest channel is full.
The router sends to the subscribers' channels; the service's event loop is one subscriber. The loop
calls, for each event in turn, enrichment, `CorrelationEngine::ingest`, `RuleEngine::evaluate`, and
for each match `RiskEngine::calculate` and `should_alert`, `AlertManager::create` (SQLite and the
broadcast channel) and `notify_alerts` (one spawned task per channel). API handlers run
concurrently with the loop and meet it in the database and in the broadcast channel. The
configuration is loaded before everything else and the migrations run before the first query.
The parts share no other state, which is why they are modelled one by one and composed side by side.

The hazards (40, with their lines and the properties that would catch them) are in PROJECT.json.

## Modules

Each module is one component; `MC*` modules give the constants their values.

**EventBus** (`crates/sentinel-event-bus/src/lib.rs`). `publish` is two steps, as in the code:
`BeginPublish` raises the depth, `EndPublish` sends, or waits while the channel is full; it never
fails, because the bus itself owns the receiver. The router is a loop of `Receive`, `Account` (depth), `Snapshot` (the two
subscriber lists are copied under their locks) and one `Deliver`, `Drop` or `Skip` per target.
`subscribe` registers pattern after pattern. `MonitorTick` samples the depth and sends a signal;
the `as u8` cast is kept as `% 256`. A subscriber may leave (`Unsubscribe`) or never read.

**Correlation** (`crates/sentinel-correlation/src/lib.rs`). `Ingest` is one step, as the method
holds its locks throughout and one loop calls it: by the process's own pid, by its parent's, by
source and time, or a new chain. `AddEvent` trims the event list at a literal, here `TrimAt`.
`Prune` is the method's effect, though the service never calls it. `all` is a history variable.

**AlertPipeline** (`crates/sentinel-risk/src/lib.rs`, the event loop, `notifier.rs`). One event at
a time: `TakeEvent`, then per match `Calculate`, `ShouldAlert` (`Reject`, `Suppress` or `Raise`),
`Persist` (which may fail) and `SpawnNotify`, then `EventDone`. `Decay` is a set: between two whole
half-lives the floating-point result lies between the two exact powers.

**AlertLifecycle** (`alert_manager.rs`, `sentinel-api`, the alert repository). Every statement and
every send is a step: `Insert`, `AnnounceCreated`; `Request`, `Update`, `Get`, `AnnounceUpdated`,
with `StorageError` at either statement; `Subscribe`, `Recv`, `Lag`. The broadcast channel is the
whole history `sent`, of which the last `Capacity` entries can still be read.

**CollectorManager** (`collectors/src/framework/mod.rs`). A task that calls occupies a worker; it
enters when the lock is free and otherwise blocks its worker (the lock is `parking_lot`'s). Each
await point is a `pc`; `Failed` is the early return.

**ProcessMonitor** (`collectors/src/process/mod.rs`, `netlink_monitor.rs`, `proc_reader.rs`),
**FilePoller** and **FileEventLoop** (`collectors/src/file/mod.rs`, `fanotify_watcher.rs`),
**NetworkMonitor** (`collectors/src/network/mod.rs`, `sock_diag.rs`, `conn_tracker.rs`) and
**ScanDetector** (`scan_detector.rs`). Each has actions of the system under observation
(processes, files, sockets) and actions of the collector at the grain of its system calls. The
network's poll has both of its ways: `ProcRows` is /proc/net; `DiagRows` is what sock_diag's mask of
states lets through (`Dumped`), under the names and inodes that come of reading its answer through a
struct without `repr(C)`. The order the compiler gives the fields is not the source's to say, so
`ordered` is chosen at the start and both outcomes are checked. The directory of /proc may fail to
open, and so may any process's `fd` (`unread`); `told` and `prior` are the last two events of each
name, the history that `EventsFollowTracker` reads.

In ProcessMonitor the fallback's listing of /proc is as lazy as the code's: `Open` opens the
directory, `List` takes one entry, which is there if the process is there by then, `Gather` reads the
status of a new one, and processes fork, exit and reuse pids between any two of these. `during` and
`earlier` are the pids that were there at some time of the scan under way and of the one before.
The network's map is built from one listing of /proc (`ListPids`), a buffer of which the kernel fills
at once, and then takes process after process.

**HostPollers** (`collectors/src/usb`, `registry`, `startup`, `CollectorRegistry`, the API's calls on
it). One task per collector: a scan is one step; each event is handed to `publish()` in a step (`Connect`,
`Disconnect`, `Inspect`, `Announce`) and counted in another (`Count`, twice for a start-up entry),
since `publish()` may wait for the bus in between and the next event has to wait for the count. The
host changes and clients call between all of these. `sent`, `lastSaid` and `told` are history.

**BrowserCollector** (`collectors/src/browser/mod.rs`). One task walks the profiles; `ReadRows` is one
run of the sqlite3 program (which may fail), `Publish` one event. The marks, the LIMITs and the record
of suspicious downloads are kept, and so is what a `|` in a title or a path does: it shifts the
fields, and a `Fragment` of the text, which may be any number an `i64` holds, is read as the row's
time and may take the mark with it (`Stamp`). `cut` and `lead` are history: which tables a LIMIT has
cut, and how far a mark was ever put ahead of the clock.

**ConfigManager** (`crates/sentinel-config/src/lib.rs`). Writers change files in one step
(`Replace`) or two (`Truncate`, `Fill`); the manager looks up which files exist, reads them one by
one and puts the result in force. `note` is a change the watcher's thread has not delivered yet,
`token` the channel of one slot. `update` writes to the first file and leaves the rest to the watcher.

**CoreService** (`apps/sentinel-core-service/src/main.rs`, `serve` of `sentinel-api`). The main
task, the signal task, the server and its streams, the queue of the rule subscription and the
spawned notifications. What the loop does with an event is AlertPipeline.

**RuleEngine** (`crates/sentinel-rule-engine/src/lib.rs`, the API's rule calls, the rule table).
Loading is one step per directory and per file; the outcome of a condition is true, false or an
error, decided by the event; `Score` folds the multipliers with truncation and cap.

**Enrichment** (`enrichment.rs` and the plugins it calls). `Take` asks the address services that
have a key, `Answer` is a reply in any order or none, `Joined` adds them up in the code's order and
looks at the local databases, then VirusTotal and URLhaus one after the other. A reply is a small
record of what the code looks at; the gains and tags are the code's. A CSV file of indicators is read
as a whole or not at all: its text is one UTF-8 string by the time it is parsed and rows may have any
number of fields, so that no record can fail by itself.

**AiEngine** (`crates/sentinel-ai/src/lib.rs`, `providers.rs`). `Ask` is what happens up to the
request, with the cache looked up and the lock let go; `Generated` and `Failed` come later.

**ResponseEngine** (`crates/sentinel-core/src/response.rs`). Each method holds the list's lock
throughout and is one step. Nothing calls the engine, so the callers make any call; `execute` takes
any command, released or not, as the code does.

**EventStore** (`crates/sentinel-storage/src/sqlite.rs`). `append` is `Begin`, an `Insert` per event
(the first takes SQLite's lock), `Commit`, or `Fail` or `Killed` in between, which roll back.
`query`, `count` and `aggregate` are operators over the table, evaluated by the type invariant and by
the callers; a name or a pid is found in a process and in the parents nested in its text (`Lineage`).
`retention` is one statement that takes at most `count` of the rows that are too old, the newest first
and any of those that tie (`Deletions`). Days are compared as the text comparison does; an event
without a timestamp has the empty text for a time (`NoTime`), which is before every limit.

**DesktopClient** (`ui/tauri-app`: the backend's `state/mod.rs`, the hooks `useInfiniteEvents.ts` and
`useAlertNotifications.ts`) extends EventStore. `Fetch` sends a call, `Served` answers it from the
table at that moment, `Arrived` or `FetchFailed` handles it later, so calls overlap and replies
pass each other. `tangled` and `repeats` are history: calls that overlapped or failed.

**Migrations** (`crates/sentinel-storage/src/migrations.rs`). Processes run the versions in order;
a version is a check, its statements, and a record, each a transaction of its own.

**Service, Startup, Sensors, Analysis** put several components side by side: Service has AlertLifecycle,
CoreService and CollectorManager; Startup has Migrations and ConfigManager; Sensors has all the
collectors; Analysis has RuleEngine, Enrichment, AiEngine, ResponseEngine and DesktopClient with
EventStore. Each extends one component and instantiates the others over variables of their own;
`moving` is chosen at the start and only that component takes steps (in Service and Startup too). This
is sound for every property stated there, because each is about one component's variables and the
components share none: the behaviours of the composition, projected on one component, are exactly its
own behaviours and those in which it rests, and each component's fairness is conjoined with `moving`
being that component. The compositions leave all constants open, so that the theorems about them are
about the very formulas that the runs check.

**MCEventBus, MCCorrelation, MCAlertPipeline, MCRuleEngine, MCMigrations** instantiate one component
for TLC, **MCService, MCStartup, MCSensors, MCAnalysis** one composition.

Definitions whose comment says *Wrong on purpose* are mutants: variants of the definition below
them with a plausible bug. No specification uses them. PROJECT.json pairs each property with the
mutant that breaks it, so that no property holds by the shape of the model alone.

## Runs

Distinct states are in parentheses. Bounds are cfg constants unless noted.

| Run | What it shows | Bounds, and why they are enough |
|---|---|---|
| `bus` (831k) | `EveryEventDelivered`, `PublisherOrder`, `DepthAccounting`, `FullMeansCritical` under every interleaving of publishers, router, monitor, and subscribers that come and go | two publishers with two and one events, so that order within and between publishers matters; ingest capacity 2, so that the channel fills and one call blocks; subscribers whose patterns overlap (exact, wildcard, prefix), one with a source filter; subscriber capacity 1, so that the router waits |
| `bus_live` (32k) | `PublishReturns`, `AcceptedIsReceived` when the subscriber reads | both capacities 1 and three events, so that one can be held by the router, one be queued and one be a blocked `publish()`; one subscriber, whose two patterns make the router send it each event twice, and which may leave while the router waits for it. A second subscriber multiplies the graph beyond what the liveness check can search; its effect on delivery is checked as safety in `bus` |
| `correlation` (2.3M) | `OneChainPerEvent`, `ChainCoherent`, `IndexJustified` | four events of three processes and two sources give every pair of the three ways to join, an expired chain that is extended, a prune between any two events, and a trimmed chain (`TrimAt` 3) |
| `alerts` (3.3M) | `DedupHolds`, `FlapLimit`, `SuppressionJustified`; `TypeOK` includes the cap of the scores | two rules, one that alerts alone and one only on an accumulated score; two sources; limit 2 per hour, so that both suppressions take effect separately; windows of 2 in 3 ticks, so that each is met inside, at its edge and after; `Cap` 7 is reached |
| `service` (65k) | `OnlyRealStates`, `ViewConverges`; `InterruptStops`; `RegistryCoherent`, `LockGranted`; `AllTyped` includes that the lock is exclusive and that a row's columns agree | two handlers on one alert with three states and a channel of 2 slots, which three events overrun; signals at every step, two streams, two notifications; two tasks, two ids, three collectors, each start and stop may fail |
| `startup` (189k) | `SchemaComplete` (what is recorded, and what an Ok promises, is there); `QuietIsCurrent`, `ChangesTakeEffect` | three processes race over three versions with one crash and one fault; two files, missing, empty, broken or one of two texts, changed at any moment |
| `sensors` (2.6M) | `EventsFollowTracker`, `ScannedOwnersFound`; `NewcomersAnnounced`; `KnownMatchesEvents`; `AlertsExact`; `VerdictsExact`; `EventsMatchRecords`; `RowsSeenOnce` | see the constants in MCSensors: two pids and a kernel thread with reuse, a full scan in every second poll (the code's sixth: what matters is that there are polls of both kinds), four steps of the processes, three files in two directories, windows met at both edges, both kinds of connection query; two hubs with one key, a service, four start-up entries, and two events of each of these collectors; three browsers with and without a Default profile, LIMITs of one row so that they cut, and a page whose title ends in a number ahead of the first row |
| `analysis` (584k) | `LoadedWhatWasRead`; `EachCountsAlone`; `ReleasedAsAsked`; `BatchesWhole`; `NothingTwice` | two rule files, each missing, broken or one of three rules (two with the same id), two directories that may be missing or unreadable, an edit during the load; every mix of two replies per service; an automatic command, one for a person and one for two of three people; three writers, two of which append the same event, so that one fails after its first row; one row without a time and two of one time, all too old on the second day, of which retention takes one at a time; pages of one row, two calls under way, three in all |
| `process_realtime`, `rules_reload`, `migr_crash`, `core_term` | one violation each, see [divergences](#divergences) | the smallest instance that shows it |

Bounds that are part of a specification, not of the program: `MaxPublish`, `MaxEvents`, `MaxTime`,
`MaxUpdates`, `MaxInstances`, `MaxForks`, `MaxChanges`, `MaxInode`, `MaxConns`, `MaxWrites`,
`MaxEdits`, `MaxCalls`, `MaxCrashes`, `MaxFaults`, `MaxTasks`, `MaxSent`, `MaxAsks`, `MaxReleases`,
`MaxExecuted`, `MaxChecks`, `Slots`, `Checks`. They stop the environment, so runs
other than the bus's switch the deadlock check off: a system without new input rests. On the bus the
monitor always ticks, so a deadlock there would be a real one, and the check is on.

Symmetry is used in `correlation` (pids, sources) and `alerts` (sources, chains), which check no
liveness.

Each module has one type invariant; every other property relates two pieces of state, or a state to
what happened before, and its mutant is a bug of one action.

## Fairness

Tokio tasks that are ready are eventually polled, and threads run: weak fairness of the router, the
monitor, the converter, the main loop, the server, the reload task, and of each handler, stream and
subscriber that reads (`Attentive`). Strong fairness where a waiting call is enabled again and again
but not continuously: a `publish()` for a slot (tokio's semaphore is a queue), a task for the lock
(parking_lot hands a starved lock over) and the main loop's shutdown branch (`select!` picks among
ready branches at random). No fairness for anything the environment may omit: publishing,
subscribing, signals, API requests, file changes, faults, crashes. Two assumptions are about
the environment and are stated where used: `Fill` (a writer that has emptied a file finishes writing
it) and `Leave` (API clients go away in the end; `InterruptStops` fails without it, see below).

## Proofs

A theorem holds for every value of the constants that satisfies the module's assumption, not only
for the instance of a run. Each is proved the same way: the property is strengthened to an invariant
that the initial states satisfy and every step preserves, with one case per action. What the
strengthening adds is what the code relies on without saying so.

| Module | Theorems | Inductive invariant, and why the property is not inductive alone |
|---|---|---|
| `EventBusProofs` | `TypeCorrect`, `DepthIsExact` | `Inv`: that `depth - 1` stays a natural number needs to know what is counted, so the types and the account are proved together |
| | `CriticalWhenFull`, under an assumption on publishers per slot | `SampleInv`: a sample is at most capacity plus publishers plus one, so that the percentage stays below 256 and the cast does not wrap. Without the assumption it is false (see divergences) |
| | `OrderCorrect` (`PublisherOrder`) | `OrderInv`: the order of a log is that of the events on the way to it. Of one publisher, what is pending comes after what is in the channel, that after what the router has taken, and the event in hand is the last taken |
| | `DeliveryCorrect` (`EveryEventDelivered`) | `OrderInv`, so that no event is routed twice; `Registered`, that the lists hold a subscriber once per pattern registered; `Delivery`, which adds what the exact snapshot holds between the two locks of `route()`. The lemmas on `CountIn` say how a sequence's count moves with `Append`, `Tail` and `\o` |
| `CorrelationProofs` | `TypeCorrect`, `OneChainCorrect`, `CoherenceCorrect`, `IndexCorrect` | `CInv`: an index may hold the id of a chain that is gone, but never one that is still to come (`Typed`); only live chains have events (`Given`); the time in `temporal_index` is that of an event in the chain (`TemporalJustified`) |
| `AlertPipelineProofs` | `TypeCorrect` | `TypeInv`: an alert that is to be stored or announced is there. That scores keep the cap is `CumulativeCapped`: whatever time passes, what decay leaves is at most what there was |
| | `DedupCorrect` (`DedupHolds`) | `Inv`: the property speaks of past alerts, the code only of the dedup map, which `prune()` thins out. `DedupCovers`: an entry is as late as every alert of its key, and where there is none they are all a window old. This is where the factor 2 in `prune()` is used |
| | `FlapLimitCorrect` (`FlapLimit`), `SuppressionCorrect` (`SuppressionJustified`, an action property) | `HourInv`: the entries of `flapping_state` are alerts of the rule (`FlapJustified`), and none of the last hour is missing (`FlapCovers`), so that their number is the number of alerts; an entry of the dedup map is some alert's time (`DedupWitnessed`) |
| `ServiceProofs` | `RealStatesCorrect` (`OnlyRealStates`) | `RealInv` adds `Pending`: what a creator or a handler is about to announce is a state the row has, or has had under an older number |
| | `ViewCorrect` (`ViewConverges`) | `ViewInv`: an alert without overlapping writers has one writer (`Solo`), whose row is that of the database, and when nobody is between its write and its send the last event about the alert tells its state (`Settled`); what a client shows is the last it has taken (`Views`) |
| | `RegistryCorrect` (`RegistryCoherent`) | `MgrInv`: the lock's holders are the tasks at the places where the code has it (`LockHeld`), nobody fills the place in the map of a collector that such a task has taken out, and a collector that a task carries is nobody else's and not in the map (`Carried`) |
| | `ServiceTyped` (`AllTyped`) | `RealInv`, `MgrInv` and `CoreInv`: nothing is lost while the process runs, and at its end at most what was under way |
| `StartupProofs` | `SchemaCorrect` (`SchemaComplete`) | `MInv` adds `Behind`: a process looks at a version when all before it are recorded, and runs a statement when those before it have left their object |
| | `QuietCorrect` (`QuietIsCurrent`), `StartupTyped` (`AllTyped`) | `ConfigInv`: unless there is an alarm (a notification, the channel's token, the debounce, or a change nobody is told of), what a load has read is still what the files say (`ReadIsCurrent`), and so is what it puts in force (`ForceIsCurrent`) |
| `SensorsProofs` | `EventsCorrect` (`EventsFollowTracker`) | `EventInv` adds that before the first update nothing has been told. The step that matters is `Update`: a close takes its pid from the tracked meta, not from the map, and a connection that stays keeps its meta (`UpdateEvents`) |
| | `OwnersCorrect` (`ScannedOwnersFound`) | `MapInv`: in a calm poll that could list /proc the pids listed are those alive, and the scan of one process replaces one owner of an inode only by another (`ScanSound`); what the end of a scan drops is held by the dead (`MapSound`) |
| | `NewcomersCorrect` (`NewcomersAnnounced`, an action property) | `ProcInv`: during a scan a newcomer that still has its pid is yet to be listed, to be looked at or announced (`Looked`); what is known are pids that were there at some time of the scan before, so a pid used at no time of it is not known |
| | `KnownCorrect` (`KnownMatchesEvents`) | `FileInv`: the property and the types. `FileMoves` has the two steps that publish |
| | `AlertsCorrect` (`AlertsExact`) | `LoopInv`: the window is the end of the history, what left it is alerted on or a window old, alerts are disjoint and lie before it, and no `MinFiles` writes of one window are without an alert (`NoBurst`); at the alert itself only the last write makes the burst |
| | `VerdictsCorrect` (`VerdictsExact`) | `ScanInv`: times never go back, so the queue is the end of the history and everything before it is more than a window old (`Suffix`); a verdict counted on the queue is then the one counted on the history |
| | `RecordsCorrect` (`EventsMatchRecords`) | `HostInv`: in the middle of a scan, a key last told as connected is seen again or about to be told as gone, and one that is seen is told or about to be (`Scanning`); only registered tasks publish (`Registered`); what a task has handed over is counted but for what is left to count (`CountInv`), which is at most one event's and nothing when it rests (`Quiet`) |
| | `RowsCorrect` (`RowsSeenOnce`) | `BrowserInv`: the queue is of the stage under way, without repetition and untold (`QueueFresh`); what a reading finds unseen is past the mark, and the mark only goes to rows it lists, newest first, so that none below is missed unless there were more than the LIMIT (`NothingCut`) or the mark went to a number that was no row's time, which `lead` then has (`PassedRowsKnown`) |
| | `SensorsTyped` (`AllTyped`) | the invariants above with `TypeInv`, `ProcTyped`, `LoopCounted` and `HostTypes` |
| `AnalysisProofs` | `LoadedCorrect` (`LoadedWhatWasRead`) | `LoadInv`: every rule compiled so far was read from a file, and every file read as a rule has its id compiled (`Compiled`), which takes that no file is read twice: those listed are unread, since no directory is configured twice. Without edits, what an opened directory no longer lists was read as it is |
| | `EnrichmentCorrect` (`EachCountsAlone`), `EnrichmentTyped` | `EnrichInv`: after each stage the risk and the tags are the sum of the replies so far (`SoFar`), and no later service has been asked (`AskedInStage`). `SaturatedTwice`: capping after each gain comes to the same as capping their sum; the one deduction is no gain and keeps its place |
| | `AiCorrect` (`TypeOK` of AiEngine) | `AiInv`: the entries are finitely many, and a call under way is for the prompt it was last asked |
| | `ReleaseCorrect` (`ReleasedAsAsked`), `ResponseTyped` | `IInv`: a command not enqueued yet is in no list (`Untouched`). The step that matters is `confirm()`: a set of names grows by at most one, so the number that is needed is met exactly and the command leaves the list in that step |
| | `BatchesCorrect` (`BatchesWhole`) | `StoreInv`: only the open transaction with the lock has written (`Locking`), and no row it wrote has an id of the table's or of another row it wrote (`Ahead`), so a commit adds a whole batch and breaks no key |
| | `NothingTwiceCorrect` (`NothingTwice`) | `StoreInv` (a page of a table without equal ids has none), `ListInv`: until calls overlap or fail there is one call and it asks for the first page (`Single`; there is no second, see divergences); `AlertInv`: what a check has still to show is not yet notified, and what was shown is |

Assumptions: each module states what it needs of its constants, and each composition assumes that
of its parts (`ServiceAssumptions`, `StartupAssumption`, `SensorsAssumption`, `AnalysisAssumption`),
which TLC evaluates for the runs' instances. They are of four kinds.

- Types and finiteness: bounds are natural numbers, sets of publishers, rows, pages, files and
  extensions are finite; capacities, thresholds, LIMITs and windows' counts are at least one.
- The markers for "nothing" differ from every value they stand beside: the network's `Absent` is no
  pid, the life cycle's `None` is no alert and no row, `None` of the desktop is no call, `Fallback` is
  no prompt, `NoTask` no task. In the code these are `Option`s.
- Something to talk about: the manager has an id, the AI engine a prompt, the configuration a file.
- Facts of the code or of what it stands on: an alert's base score and an event's risk are within their
  caps, an event of the store has a time or none, retention ages and counts are natural numbers, what a
  browser's title puts in the place of a time is at most what an `i64` holds (`MaxStamp`), no rule directory is configured twice, the key
  of URLhaus is never asked for, a prefix pattern is no event type.

Only model-checked:

- Liveness and ENABLED: `PublishReturns`, `AcceptedIsReceived`, `InterruptStops`, `LockGranted`,
  `ChangesTakeEffect`, and the four violations.
- `AllTyped` of the run `analysis` as a whole: its parts for enrichment, the AI engine and the response
  engine are theorems. The other two evaluate operators whose value is a fold, and what a fold returns
  for every sequence takes induction over data: `Score` of the rule engine, which folds the multipliers
  (the scores of the last evaluation), and the aggregates, the heat map and the graph of the desktop
  over the event store.
- `FullMeansCritical` is a theorem under the assumption that `CriticalWhenFull` states; in general it is
  the run's instance that has it.

## Divergences

Where the code does something else than its documentation, comments or evident intention. The
first four have a run that shows it; the models have the code's behaviour in all cases and the
properties are stated so that they hold of it.

| Where | What |
|---|---|
| `collectors/src/process/mod.rs:56` | run `process_realtime`: the converter awaits the blocking task, whose value comes after the netlink loop has ended; nothing is published while it works |
| `crates/sentinel-rule-engine/src/lib.rs:399` | run `rules_reload`: the watcher is dropped when `start_watcher` returns, so rules are never reloaded |
| `crates/sentinel-storage/src/migrations.rs:107` | run `migr_crash`: `CREATE INDEX` without `IF NOT EXISTS` outside a transaction; after a crash before the record, no later start succeeds |
| `apps/sentinel-core-service/src/main.rs:92` | run `core_term`: SIGTERM is caught only after a Ctrl+C; alone it kills the process |
| `crates/sentinel-event-bus/src/lib.rs:76` | one full subscriber channel stops the routing to all; the architecture document says "Drop oldest" |
| `crates/sentinel-event-bus/src/lib.rs:217` | shutdown drops the event being routed and the ingest channel |
| `crates/sentinel-event-bus/src/lib.rs:250` | the percentage is cast to `u8` and wraps when blocked publishers bring the depth to 2.56 times the capacity |
| `crates/sentinel-correlation/src/lib.rs:167` | a join by source does not index the pid, so a process's later events miss the chain |
| `crates/sentinel-correlation/src/lib.rs:128` | an expired chain that was not pruned is extended, and the service never prunes |
| `crates/sentinel-correlation/src/lib.rs:226` | `prune` removes index entries by pid, those of live chains included |
| `crates/sentinel-correlation/src/lib.rs:80` | chains are trimmed at a literal 500, not at `max_events_per_chain` |
| `apps/sentinel-core-service/src/main.rs:263` | an alert that could not be stored is announced, and suppresses the next one |
| `crates/sentinel-api/src/lib.rs:400` | an error of the read-back loses the event of a change that was made; `ViewConverges` excepts it |
| `collectors/src/framework/mod.rs:128` | a restart that fails loses the collector |
| `collectors/src/framework/mod.rs:105` | a lock held across an await blocks the workers of waiting tasks; `LockGranted` assumes a worker per task |
| `collectors/src/file/mod.rs:349` | all known files are compared with one directory's listing: files of other directories are reported deleted and created in every round |
| `collectors/src/file/mod.rs:127` | writes are dated when handled, so a backlog falls into one window |
| `collectors/src/network/mod.rs:147` | known processes are rescanned in every sixth poll only, so most new connections are announced without their process |
| `collectors/src/network/sock_diag.rs:144` | `TCPF_ALL & !TCP_LISTEN` clears bits 1 and 3, not bit 10: established connections are left out and listening sockets shown. The UDP query asks for no state and shows nothing |
| `collectors/src/network/sock_diag.rs:62` | `inet_diag_msg` has no `repr(C)`; in the order rustc gives its fields the addresses, ports and inode of every answer are others |
| `collectors/src/network/mod.rs:480` | as soon as sock_diag shows one socket, /proc/net is not read: all that only /proc/net shows is closed, and connects again when sock_diag shows none |
| `collectors/src/network/scan_detector.rs:109` | `>=` where the documentation says more than ten ports |
| `crates/sentinel-config/src/lib.rs:228` | nothing is ever sent on the channel `watch` forwards from |
| `crates/sentinel-config/src/lib.rs:132` | the directory of an optional file that is missing fails the start |
| `apps/sentinel-core-service/src/main.rs:323` | the shutdown waits for clients without limit; `graceful_shutdown_timeout` is not read |
| `apps/sentinel-core-service/src/main.rs:315` | events in the rule subscription are dropped at shutdown |
| `crates/sentinel-api/src/lib.rs:466` | the rule calls work on a table the engine never reads |
| `crates/sentinel-rule-engine/src/lib.rs:831` | `test_rule` evaluates the main condition only |
| `crates/sentinel-storage/src/sqlite.rs:164` | nothing outside the tests calls `append`, `retention` or `save_chain`: no event and no chain is ever stored |
| `crates/sentinel-storage/src/sqlite.rs:480` | retention deletes, of the rows that are too old, the newest `max_count`; it compares texts of two formats, so a row of the limit's own day is never too old |
| `crates/sentinel-storage/src/conv.rs:39` | an event without a timestamp is stored with an empty one, which every retention finds too old |
| `crates/sentinel-storage/src/sqlite.rs:271` | a search for a process name or pid also finds events whose process has such a parent |
| `crates/sentinel-storage/src/sqlite.rs:504` | rows are read back without timestamp, payload, metadata and correlation; the desktop's timeline, connections and graph stay empty, and its poll for newer events never finds one |
| `ui/tauri-app/src-tauri/src/state/mod.rs:160` | the total is the number of rows on the page, so there never is a next page |
| `ui/tauri-app/src-tauri/src/state/mod.rs:531` | the heat map counts every technique for all twelve tactics |
| `ui/tauri-app/src/hooks/useInfiniteEvents.ts:58` | overlapping or failed calls duplicate or skip rows, and the page issues two resets when it is mounted |
| `crates/sentinel-core/src/response.rs:145` | a command may be confirmed after it has expired, until the sweep; an automatic one stays pending and can be released again |
| `apps/sentinel-core-service/src/enrichment.rs` | four services are asked without a time limit: a silent one holds up the event loop; `is_anonymous` is never set |
| `crates/sentinel-ai/src/lib.rs:195` | the key is the first 200 bytes of the prompt: another prompt's answer is given, and a cut inside a character panics |
| `collectors/src/usb/mod.rs:130` | an event is counted when `publish()` has returned, so that while the bus is full `events_produced` is one behind; the service, start-up and network collectors do the same |
| `collectors/src/network/mod.rs:165` | a process whose descriptors must not be read owns nothing, and its connections are announced without it |
| `collectors/src/usb/mod.rs:52` | names with a dash are skipped, which all devices but root hubs have |
| `collectors/src/startup/mod.rs:236` | every start-up entry is counted twice |
| `crates/sentinel-api/src/lib.rs:821` | a restart changes a label and nothing else |
| `collectors/src/browser/mod.rs:165` | with a Default profile no other profile is looked for; Firefox is asked for tables it has not |
| `collectors/src/browser/mod.rs:280` | the newest rows up to the LIMIT are read and the mark moves past the others |
| `collectors/src/browser/mod.rs:301` | the fields of a row are split at `|`, so a title that has one gives its second part as the row's time; a number there moves the mark, at worst past every row to come, and all rows up to it are lost |
| `collectors/src/browser/mod.rs:606` | old downloads read newest first count as a burst whatever the time between them |

## Not modelled

- Management server: one lock around a map from host to last heartbeat (the agent's stream is closed
  at once, since the server drops its sender). Planned, see below.
- The legacy process collector and `health.rs`: constructed by no part of the service.
- Privacy, Sigma, the notifier plugins, CLI: functions of one input, or one request.
- DuckDB storage and the eBPF monitor: optional features outside the default build; the eBPF
  monitor's channel has no reader. `agent.rs` belongs to no build.
- Handlers of the API and of the desktop that return constants (event statistics, risk summaries,
  chat, configuration, plugins): there is no state.
- Generated protobuf types and the stubs of the operating-system crates.
- Within modelled parts: CEL expressions (only the outcome of a condition), configuration contents
  (only whether a text loads), hashing and MIME detection, DNS names, the layout of fanotify records,
  the text of SQL statements, prompts and answers of the AI, metrics and logs.

## Plan

Done: the core path from collector to alert (EventBus, Correlation, RuleEngine, AlertPipeline,
AlertLifecycle), all collectors the service starts, configuration, schema and life cycle, enrichment,
the AI and response engines, the event repository and the desktop application over it; and proofs of
every invariant and action property that the runs check, but for the two parts of one type invariant
named above. Next:

1. **Bus and loop composed**: EventBus with AlertPipeline as a subscriber, and an abstract
   specification of the bus (a reliable FIFO per publisher and subscriber), which EventBus
   implements through a refinement mapping; `OrderCorrect` and `DeliveryCorrect` are its two halves.
2. **AlertLifecycle refined**: an abstract register with a change feed, which the rows, handlers
   and streams implement for uncontended alerts; `RealStatesCorrect` and `ViewCorrect` are what it
   promises.
3. **Fleet** (the management server) and the legacy process collector, should the service come to
   use them.
