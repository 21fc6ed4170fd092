--------------------------- MODULE BrowserCollector ---------------------------
(***************************************************************************)
(* The browser collector (collectors/src/browser/mod.rs). Every two        *)
(* minutes one task takes the profiles one after the other and reads, with *)
(* the sqlite3 program, the newest rows of the history and of the          *)
(* downloads past the profile's mark, and then lists the extensions. It    *)
(* publishes what it has not seen yet one by one while the browsers go on. *)
(***************************************************************************)
EXTENDS Integers, Sequences, FiniteSets, FiniteSetsExt, SequencesExt

CONSTANTS
  Bases,        \* the browsers' directories in the order of browser_configs:
                \* [default, ini, dirs], the profiles with a history in each place
  Firefox,      \* those of Firefox: its databases have no such tables
  Pages, Files, Extensions,   \* what may be visited, downloaded, installed
  Piped,        \* what has a | in its title, path or URL, which moves the row's fields
  Fragment,     \* Piped -> what then stands for the time, as a number: any, 0 for none
  MaxStamp,     \* the highest number an i64 holds
  Dangerous,    \* files with a dangerous ending
  Malicious,    \* extensions on the list
  IpUrls, BadTlds,   \* pages and files whose URL has an address, a bad ending
  Limit,        \* table -> LIMIT of its query, 100 and 50
  Window,       \* SUSPICIOUS_DL_WINDOW
  MaxTime,      \* bound: visits and downloads
  None          \* no Default profile

(* discover_profiles: with a Default profile the others are not looked     *)
(* for; then those profiles.ini names, then any subdirectory.              *)
Discovered(b) ==
  IF b.default # None THEN <<b.default>> ELSE IF b.ini # <<>> THEN b.ini ELSE b.dirs

(* find_profiles                                                           *)
Profiles == FlattenSeq([i \in DOMAIN Bases |-> Discovered(Bases[i])])

BrowserAssumption ==
  /\ Firefox \subseteq Range(Profiles) /\ Piped \subseteq Pages \cup Files /\ Dangerous \subseteq Files
  /\ Fragment \in [Piped -> Int] /\ MaxStamp \in Nat /\ \A x \in Piped : Fragment[x] <= MaxStamp
  /\ Limit \in [{"history", "downloads"} -> Nat \ {0}] /\ Window \in Nat /\ MaxTime \in Nat
  /\ IsFiniteSet(Pages) /\ IsFiniteSet(Files) /\ IsFiniteSet(Extensions)
  /\ Profiles \in Seq(Range(Profiles))

Tables == {"history", "downloads"}
Things(k) == IF k = "history" THEN Pages ELSE Files
Owners == Range(Profiles)

VARIABLES
  time,      \* the time of the last row
  db,        \* table -> profile -> thing -> time of its row, 0 without
  state,     \* "off", "running" or "error" in the registry
  counted,   \* events_produced
  turn,      \* the profile it is at, 0 while it sleeps
  stage,     \* "history", "downloads" or "extensions"
  read,      \* has this stage been read
  queue,     \* what it has to publish
  mark,      \* table -> profile -> the last time read
  known,     \* table or "extensions" -> keys seen
  records,   \* SuspiciousDownloadTracker: times of dangerous downloads, each its own
  told, again,   \* history: keys handed to publish; has one been twice
  cut,       \* history: table -> profile -> has its LIMIT cut off rows
  lead       \* history: table -> profile -> the highest mark that was ahead of the clock

browser == <<time, db>>
vars == <<browser, state, counted, turn, stage, read, queue, mark, known, records, told, again, cut, lead>>

Stages == Tables \cup {"extensions"}

Init ==
  /\ time = 0 /\ db = [k \in Tables |-> [p \in Owners |-> [x \in Things(k) |-> 0]]]
  /\ state = "off" /\ counted = 0 /\ turn = 0 /\ stage = "history" /\ read = FALSE /\ queue = <<>>
  /\ mark = [k \in Tables |-> [p \in Owners |-> 0]]
  /\ known = [k \in Stages |-> {}] /\ records = {}
  /\ told = [k \in Stages |-> {}] /\ again = FALSE
  /\ cut = [k \in Tables |-> [p \in Owners |-> FALSE]]
  /\ lead = [k \in Tables |-> [p \in Owners |-> 0]]

-----------------------------------------------------------------------------
(* The browsers, in the tables that are read, which Firefox has not: a     *)
(* visit renews the page's row, a download adds one.                       *)
Browse(k, p, x) ==
  /\ time < MaxTime /\ time' = time + 1
  /\ k = "downloads" => db[k][p][x] = 0
  /\ db' = [db EXCEPT ![k][p][x] = time']
  /\ UNCHANGED <<state, counted, turn, stage, read, queue, mark, known, records, told, again, cut, lead>>

-----------------------------------------------------------------------------
(* The task registers, and ends where there is no sqlite3.                 *)
Start ==
  /\ state = "off" /\ state' \in {"running", "error"}
  /\ UNCHANGED <<browser, counted, turn, stage, read, queue, mark, known, records, told, again, cut, lead>>

(* Awake, it finds the profiles; where there are none it sleeps again.     *)
Wake ==
  /\ state = "running" /\ turn = 0 /\ Profiles # <<>> /\ turn' = 1
  /\ stage' = "history" /\ read' = FALSE
  /\ UNCHANGED <<browser, state, counted, queue, mark, known, records, told, again, cut, lead>>

Owner == Profiles[turn]

(* The rows of the query and what the fields of one give: where a | shifts *)
(* them the key and the time are made of a piece of the title or the URL,  *)
(* which the site chooses. Line breaks, which would tear a row, are not    *)
(* modelled: the browsers take them out.                                   *)
Rows(k, p) == {x \in Things(k) : db[k][p][x] > mark[k][p]}
Newest(k, p) ==
  {x \in Rows(k, p) : Cardinality({y \in Rows(k, p) : db[k][p][y] > db[k][p][x]}) < Limit[k]}
Stamp(k, p, x) == IF x \in Piped THEN Fragment[x] ELSE db[k][p][x]
RowKey(k, p, x) == <<x, Stamp(k, p, x)>>
Unseen(k, p) == {x \in Newest(k, p) : RowKey(k, p, x) \notin known[k]}

(* Newest first.                                                           *)
Listings(k, p) ==
  {q \in SetToSeqs(Unseen(k, p)) :
     \A i, j \in DOMAIN q : i < j => db[k][p][q[i]] > db[k][p][q[j]]}

(* Wrong on purpose: the mark is the time of the newest row there is, read *)
(* or not.                                                                 *)
ReadRows_MarksAll(k) ==
  /\ turn > 0 /\ stage = k /\ ~read /\ read' = TRUE
  /\ mark' = [mark EXCEPT ![k][Owner] = Max({db[k][Owner][x] : x \in Things(k)} \cup {0})]
  /\ lead' = lead
  /\ \/ queue' = <<>> /\ UNCHANGED <<known, cut>>
     \/ /\ Owner \notin Firefox
        /\ \E new \in Listings(k, Owner) : queue' = [i \in DOMAIN new |-> RowKey(k, Owner, new[i])]
        /\ known' = [known EXCEPT ![k] = @ \cup {RowKey(k, Owner, x) : x \in Unseen(k, Owner)}]
        /\ cut' = [cut EXCEPT ![k][Owner] = @ \/ Cardinality(Rows(k, Owner)) > Limit[k]]
  /\ UNCHANGED <<browser, state, counted, turn, stage, records, told, again>>

(* safe_read_db with read_history_incremental or read_downloads_...: the   *)
(* database is locked and its copy fails, or the new keys are queued and   *)
(* the mark follows their times. The known keys are shared by profiles.    *)
ReadRows(k) ==
  /\ turn > 0 /\ stage = k /\ ~read /\ read' = TRUE
  /\ \/ queue' = <<>> /\ UNCHANGED <<known, cut, mark, lead>>
     \/ /\ Owner \notin Firefox
        /\ \E new \in Listings(k, Owner) : queue' = [i \in DOMAIN new |-> RowKey(k, Owner, new[i])]
        /\ mark' = [mark EXCEPT ![k][Owner] = Max({@} \cup {Stamp(k, Owner, x) : x \in Unseen(k, Owner)})]
        /\ lead' = [lead EXCEPT ![k][Owner] = IF mark'[k][Owner] > time THEN mark'[k][Owner] ELSE @]
        /\ known' = [known EXCEPT ![k] = @ \cup {RowKey(k, Owner, x) : x \in Unseen(k, Owner)}]
        /\ cut' = [cut EXCEPT ![k][Owner] = @ \/ Cardinality(Rows(k, Owner)) > Limit[k]]
  /\ UNCHANGED <<browser, state, counted, turn, stage, records, told, again>>

(* read_extensions: whatever the profile's directory holds, in any order,  *)
(* with Firefox none.                                                      *)
ReadExtensions ==
  /\ turn > 0 /\ stage = "extensions" /\ ~read /\ read' = TRUE
  /\ \E there \in (IF Owner \in Firefox THEN {{}} ELSE SUBSET Extensions) :
       LET new == {<<x, 0>> : x \in there} \ known["extensions"] IN
         /\ queue' \in SetToSeqs(new)
         /\ known' = [known EXCEPT !["extensions"] = @ \cup new]
  /\ UNCHANGED <<browser, state, counted, turn, stage, mark, records, told, again, cut, lead>>

-----------------------------------------------------------------------------
(* The events. record(): a dangerous download forgets what is a window     *)
(* older than itself, never what is newer, and is flagged as the third.    *)
Kept(t) == {s \in records : t - s < Window}
Flagged(key) == key[1] \in Dangerous /\ Cardinality(Kept(key[2])) + 1 >= 3

NavigationRisk(x) == 5 + (IF x \in IpUrls THEN 15 ELSE 0) + (IF x \in BadTlds THEN 10 ELSE 0)
DownloadRisk(key, hashed) ==
  IF Flagged(key) THEN 60
  ELSE (IF key[1] \in Dangerous THEN 45 ELSE 10) + (IF hashed THEN 10 ELSE 0)
         + (IF key[1] \in IpUrls THEN 5 ELSE 0)
ExtensionRisk(x) == IF x \in Malicious THEN 80 ELSE 20

Risks(key) ==
  CASE stage = "history" -> {NavigationRisk(key[1])}
    [] stage = "downloads" -> {DownloadRisk(key, hashed) : hashed \in BOOLEAN}
    [] stage = "extensions" -> {ExtensionRisk(key[1])}

(* A navigation is counted only if it could not be published.              *)
Publish ==
  /\ queue # <<>> /\ queue' = Tail(queue)
  /\ LET key == Head(queue) IN
       /\ counted' \in IF stage = "history" THEN {counted, counted + 1} ELSE {counted + 1}
       /\ again' = (again \/ key \in told[stage])
       /\ told' = [told EXCEPT ![stage] = @ \cup {key}]
       /\ records' = IF stage = "downloads" /\ key[1] \in Dangerous
                     THEN Kept(key[2]) \cup {key[2]} ELSE records
  /\ UNCHANGED <<browser, state, turn, stage, read, mark, known, cut, lead>>

(* The next stage, the next profile, or sleep.                             *)
GoOn ==
  /\ read /\ queue = <<>> /\ turn > 0
  /\ stage' = CASE stage = "history" -> "downloads" [] stage = "downloads" -> "extensions"
                [] stage = "extensions" -> "history"
  /\ turn' = IF stage # "extensions" THEN turn ELSE IF turn = Len(Profiles) THEN 0 ELSE turn + 1
  /\ read' = FALSE
  /\ UNCHANGED <<browser, state, counted, queue, mark, known, records, told, again, cut, lead>>

Next ==
  \/ \E p \in Owners \ Firefox, k \in Tables : \E x \in Things(k) : Browse(k, p, x)
  \/ Start \/ Wake \/ (\E k \in Tables : ReadRows(k)) \/ ReadExtensions \/ Publish \/ GoOn

Spec == Init /\ [][Next]_vars

-----------------------------------------------------------------------------
(* The variables have their types.                                         *)
TypeOK ==
  /\ time \in 0..MaxTime /\ turn \in 0..Len(Profiles) /\ stage \in Stages
  /\ turn > 0 => state = "running"
  /\ \A k \in Tables, p \in Owners : mark[k][p] \in 0..time \cup {lead[k][p]}
  /\ \A key \in Range(queue) : Risks(key) \subseteq 5..80
  /\ records \subseteq Int /\ counted \in Nat

(* However the browsers and the reading interleave, and whatever reads     *)
(* fail: a row that is not past the mark was seen, unless a LIMIT once cut *)
(* its table off, or a title with a number put the mark ahead of every row *)
(* there was and the row's time is no later than that number; and what was *)
(* seen is handed to publish(), or about to be, and never twice.           *)
RowsSeenOnce ==
  /\ ~again
  /\ \A k \in Stages : known[k] = told[k] \cup (IF stage = k THEN Range(queue) ELSE {})
  /\ \A k \in Tables, p \in Owners : \A x \in Things(k) :
       db[k][p][x] \in 1..mark[k][p] =>
         cut[k][p] \/ db[k][p][x] <= lead[k][p] \/ RowKey(k, p, x) \in known[k]
=============================================================================
