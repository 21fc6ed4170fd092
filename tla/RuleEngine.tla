------------------------------ MODULE RuleEngine ------------------------------
(***************************************************************************)
(* The rule engine (crates/sentinel-rule-engine/src/lib.rs): loading the   *)
(* rule files, the file watcher, evaluation and scores; and the rules of   *)
(* the API with their table (crates/sentinel-api/src/lib.rs,               *)
(* crates/sentinel-storage/src/sqlite.rs), which the engine never reads.   *)
(*                                                                         *)
(* A condition is a model value that looks at one part of the event (its   *)
(* process, its payload); an event has some parts and says which           *)
(* conditions are true of them.                                            *)
(***************************************************************************)
EXTENDS Integers, Sequences, FiniteSets, SequencesExt

CONSTANTS
  Files,      \* paths of rule files
  DirOrder,   \* rules_directories
  DirOf,      \* Files -> the directory of a file
  Defs,       \* the rules somebody may write: in a file or in a request
  Parts,      \* the optional parts of an event
  PartOf,     \* condition -> the part whose fields it names
  Events,     \* [parts : SUBSET Parts, truth : condition -> BOOLEAN]
  HotReload,  \* config.hot_reload
  MaxScore,   \* the literal 1000
  MaxEdits,   \* bound: changes of files after the start began
  MaxCalls,   \* bound: calls of the API that change the table
  Bad,        \* a file that does not parse, validate or compile
  None        \* no file, no rule

(* No directory is configured twice; what a file is found to hold differs  *)
(* from there being none or a broken one.                                  *)
RuleAssumption ==
  /\ DirOrder \in Seq(Range(DirOrder)) /\ IsInjective(DirOrder)
  /\ DirOf \in [Files -> Range(DirOrder)]
  /\ None \notin Defs /\ Bad \notin Defs /\ HotReload \in BOOLEAN

Dirs == ToSet(DirOrder)
Ids == {d.id : d \in Defs}

(* What load_rule_file can make of a file: it is gone, it does not parse,  *)
(* has no id or condition or does not compile, or it is a rule.            *)
Content == {None, Bad} \cup Defs

VARIABLES
  disk,      \* file -> None, Bad or a rule
  dirs,      \* directory -> "ok", "missing", "unreadable"
  pc,        \* RuleEngine::new: "load", "watch", "return", "ready", "failed"
  opened,    \* directories opened so far
  listing,   \* entries of the open directory not read yet
  compiled,  \* load_rules' local map
  errors,    \* whether its list of errors is nonempty
  seen,      \* file -> what load_rule_file read from it
  rules,     \* the map evaluate() uses
  watching,  \* the notify watcher exists
  task,      \* the reload task: "none", "recv", "sleep", "ended"
  notices,   \* messages in its channel
  table,     \* the rules table: id -> None or a rule
  last,      \* the last evaluation: its event and its matches with scores
  edits, calls

loadVars == <<opened, listing, compiled, errors, seen>>
watchVars == <<watching, task, notices>>
vars == <<disk, dirs, pc, loadVars, rules, watchVars, table, last, edits, calls>>

Empty == [i \in Ids |-> None]
InForce == {i \in Ids : rules[i] # None}

Init ==
  /\ disk \in [Files -> Content]
  /\ dirs \in [Dirs -> {"ok", "missing", "unreadable"}]
  /\ pc = "load" /\ opened = 0 /\ listing = {}
  /\ compiled = Empty /\ errors = FALSE
  /\ seen = [f \in Files |-> None]
  /\ rules = Empty
  /\ watching = FALSE /\ task = "none" /\ notices = 0
  /\ table = Empty
  /\ last = None
  /\ edits = 0 /\ calls = 0

-----------------------------------------------------------------------------
(* Loading *)

(* The next directory; one that does not exist is skipped, one that cannot *)
(* be read ends the load with an error.                                    *)
OpenDir ==
  /\ pc = "load" /\ listing = {} /\ opened < Len(DirOrder)
  /\ LET d == DirOrder[opened + 1] IN
       /\ opened' = opened + 1
       /\ listing' = IF dirs[d] = "ok" THEN {f \in Files : DirOf[f] = d /\ disk[f] # None} ELSE {}
       /\ pc' = IF dirs[d] = "unreadable" THEN "failed" ELSE pc
  /\ UNCHANGED <<disk, dirs, compiled, errors, seen, rules, watchVars, table, last, edits, calls>>

(* Wrong on purpose: every file starts from no rules.                      *)
ReadFile_Afresh(f) ==
  /\ pc = "load" /\ f \in listing
  /\ listing' = listing \ {f}
  /\ seen' = [seen EXCEPT ![f] = disk[f]]
  /\ IF disk[f] \in Defs
       THEN compiled' = [Empty EXCEPT ![disk[f].id] = disk[f]] /\ UNCHANGED errors
       ELSE errors' = TRUE /\ UNCHANGED compiled
  /\ UNCHANGED <<disk, dirs, pc, opened, rules, watchVars, table, last, edits, calls>>

(* load_rule_file: the rule takes the place of one with its id.            *)
ReadFile(f) ==
  /\ pc = "load" /\ f \in listing
  /\ listing' = listing \ {f}
  /\ seen' = [seen EXCEPT ![f] = disk[f]]
  /\ IF disk[f] \in Defs
       THEN compiled' = [compiled EXCEPT ![disk[f].id] = disk[f]] /\ UNCHANGED errors
       ELSE errors' = TRUE /\ UNCHANGED compiled
  /\ UNCHANGED <<disk, dirs, pc, opened, rules, watchVars, table, last, edits, calls>>

EndLoad ==
  /\ pc = "load" /\ listing = {} /\ opened = Len(DirOrder)
  /\ IF errors /\ compiled = Empty
       THEN pc' = "failed" /\ UNCHANGED rules
       ELSE /\ rules' = compiled
            /\ pc' = IF HotReload THEN "watch" ELSE "ready"
  /\ UNCHANGED <<disk, dirs, loadVars, watchVars, table, last, edits, calls>>

-----------------------------------------------------------------------------
(* The watcher *)

(* start_watcher: the system may refuse a watch; then new() fails.         *)
Watch ==
  /\ pc = "watch"
  /\ \/ watching' = TRUE /\ task' = "recv" /\ pc' = "return"
     \/ pc' = "failed" /\ UNCHANGED <<watching, task>>
  /\ UNCHANGED <<disk, dirs, loadVars, rules, notices, table, last, edits, calls>>

(* start_watcher returns: the watcher is its local variable and is dropped, *)
(* and the sender of the task's channel with it.                           *)
Return ==
  /\ pc = "return"
  /\ watching' = FALSE
  /\ pc' = "ready"
  /\ UNCHANGED <<disk, dirs, loadVars, rules, task, notices, table, last, edits, calls>>

(* Somebody writes or removes a file; a removal is not reported.           *)
Edit(f, content) ==
  /\ edits < MaxEdits /\ disk[f] # content
  /\ edits' = edits + 1
  /\ disk' = [disk EXCEPT ![f] = content]
  /\ notices' = IF watching /\ content # None THEN notices + 1 ELSE notices
  /\ UNCHANGED <<dirs, pc, loadVars, rules, watching, task, table, last, calls>>

TaskRecv ==
  /\ task = "recv"
  /\ \/ notices > 0 /\ notices' = notices - 1 /\ task' = "sleep"
     \/ notices = 0 /\ ~watching /\ task' = "ended" /\ UNCHANGED notices
  /\ UNCHANGED <<disk, dirs, pc, loadVars, rules, watching, table, last, edits, calls>>

(* After the 500 ms it drains the channel and signals on reload_tx, whose  *)
(* only receiver new() has dropped: nothing is loaded.                     *)
TaskWake ==
  /\ task = "sleep"
  /\ notices' = 0 /\ task' = "recv"
  /\ UNCHANGED <<disk, dirs, pc, loadVars, rules, watching, table, last, edits, calls>>

-----------------------------------------------------------------------------
(* Evaluation *)

(* A part that is absent is not in the event's map, and naming one of its  *)
(* fields is an error.                                                     *)
Outcome(c, e) ==
  IF PartOf[c] \notin e.parts THEN "error" ELSE IF e.truth[c] THEN "true" ELSE "false"

(* evaluate_program(..).unwrap_or(false): an error counts as false.        *)
Holds(c, e) == Outcome(c, e) = "true"

Fires(r, e) ==
  /\ r.enabled
  /\ \A c \in r.suppressions : ~Holds(c, e)
  /\ Holds(r.main, e)
  /\ \A c \in r.ands : Holds(c, e)
  /\ r.ors = {} \/ \E c \in r.ors : Holds(c, e)
  /\ \A c \in r.nots : ~Holds(c, e)

(* calculate_risk_score: every multiplier in turn, truncated and capped.   *)
(* A factor and the confidence are fractions <<numerator, denominator>>.   *)
Scaled(score, factor) ==
  LET product == (score * factor[1]) \div factor[2]
  IN  IF product > MaxScore THEN MaxScore ELSE product
Applied(r, e, score, m) == IF Holds(m.cond, e) THEN Scaled(score, m.factor) ELSE score
Score(r, e) ==
  LET start == (r.base * r.confidence[1]) \div r.confidence[2]
      final == FoldLeft(LAMBDA score, m : Applied(r, e, score, m), start, r.multipliers)
  IN  IF final > MaxScore THEN MaxScore ELSE final

Evaluate(e) ==
  /\ pc = "ready"
  /\ last' = [event |-> e,
              matches |-> {[id |-> i, score |-> Score(rules[i], e)] :
                             i \in {i \in InForce : Fires(rules[i], e)}}]
  /\ UNCHANGED <<disk, dirs, pc, loadVars, rules, watchVars, table, edits, calls>>

-----------------------------------------------------------------------------
(* The API *)

(* create_rule and update_rule: both upsert; update puts the id of the     *)
(* request in place of the rule's own.                                     *)
Upsert(r) ==
  /\ pc = "ready" /\ calls < MaxCalls
  /\ calls' = calls + 1
  /\ table' = [table EXCEPT ![r.id] = r]
  /\ UNCHANGED <<disk, dirs, pc, loadVars, rules, watchVars, last, edits>>
CreateRule(r) == Upsert(r)

(* Wrong on purpose: the rule keeps its own id.                            *)
UpdateRule_OwnId(i, r) ==
  /\ pc = "ready" /\ calls < MaxCalls
  /\ calls' = calls + 1
  /\ table' = [table EXCEPT ![i] = r]
  /\ UNCHANGED <<disk, dirs, pc, loadVars, rules, watchVars, last, edits>>

UpdateRule(i, r) == Upsert([r EXCEPT !.id = i])

DeleteRule(i) ==
  /\ pc = "ready" /\ calls < MaxCalls
  /\ calls' = calls + 1
  /\ table' = [table EXCEPT ![i] = None]
  /\ UNCHANGED <<disk, dirs, pc, loadVars, rules, watchVars, last, edits>>

EngineStep ==
  \/ OpenDir \/ (\E f \in Files : ReadFile(f)) \/ EndLoad
  \/ Watch \/ Return \/ TaskRecv \/ TaskWake

Next ==
  \/ EngineStep
  \/ \E f \in Files, content \in Content : Edit(f, content)
  \/ \E e \in Events : Evaluate(e)
  \/ \E r \in Defs : CreateRule(r)
  \/ \E i \in Ids, r \in Defs : UpdateRule(i, r)
  \/ \E i \in Ids : DeleteRule(i)

Spec == Init /\ [][Next]_vars

(* new() and the reload task are driven by the runtime.                    *)
FairSpec == Spec /\ WF_vars(EngineStep)

-----------------------------------------------------------------------------
(* Properties *)

(* Types; an entry of a map belongs to its key, scores stay within the cap. *)
TypeOK ==
  /\ disk \in [Files -> Content] /\ seen \in [Files -> Content]
  /\ pc \in {"load", "watch", "return", "ready", "failed"}
  /\ opened \in 0..Len(DirOrder) /\ listing \subseteq Files
  /\ \A i \in Ids : /\ compiled[i] # None => compiled[i] \in Defs /\ compiled[i].id = i
                    /\ rules[i] # None => rules[i] \in Defs /\ rules[i].id = i
                    /\ table[i] # None => table[i].id = i
  /\ task \in {"none", "recv", "sleep", "ended"} /\ notices \in 0..MaxEdits
  /\ edits \in 0..MaxEdits /\ calls \in 0..MaxCalls
  /\ last # None => \A m \in last.matches : m.id \in InForce /\ m.score \in 0..MaxScore

(* One broken file costs no other file its rule (load_rules collects the   *)
(* errors): every rule in force was read from a file, every file read as a *)
(* rule has its id in force, whichever files are broken and whatever is    *)
(* edited during the load, and without edits no rule file goes unread.     *)
LoadedWhatWasRead ==
  pc \in {"watch", "return", "ready"} =>
    /\ \A i \in InForce : \E f \in Files : seen[f] = rules[i]
    /\ \A f \in Files : seen[f] \in Defs => seen[f].id \in InForce
    /\ \A f \in Files : edits = 0 /\ dirs[DirOf[f]] = "ok" => seen[f] = disk[f]

(* docs/rules.md:124, "The rule engine hot-reloads automatically (no       *)
(* restart needed)": a rule that stays in a file comes into force.         *)
HotReloads ==
  \A f \in Files, r \in Defs :
    pc = "ready" /\ disk[f] = r
      ~> rules[r.id] # None \/ disk[f] # r

=============================================================================
