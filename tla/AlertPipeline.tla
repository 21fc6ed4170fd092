---------------------------- MODULE AlertPipeline ----------------------------
(***************************************************************************)
(* From a matched rule to an alert: the risk engine                        *)
(* (crates/sentinel-risk/src/lib.rs) and the part of the service's event   *)
(* loop that drives it, stores the alert and sends the notifications       *)
(* (apps/sentinel-core-service/src/main.rs, alert_manager.rs, notifier.rs).*)
(*                                                                         *)
(* The loop takes one event at a time. For every match it calculates a     *)
(* score, asks the risk engine whether to alert, stores the alert (which   *)
(* may fail) and spawns the notifications (which may fail too).            *)
(***************************************************************************)
EXTENDS Integers, Sequences, FiniteSets

CONSTANTS
  Rules, Sources, Chains,
  Base,          \* Rules -> risk score of a match, already capped by the rule engine
  Medium,        \* thresholds.medium: below it the severity is Low
  Cap,           \* the literal 1000
  HalfLife,      \* half_lives["Warning"]; 0 switches decay off
  DedupWindow,   \* dedup_window_secs
  FlapWindow,    \* the literal 3600
  FlapMax,       \* flapping_max_per_hour
  ScoreLife,     \* the literal 86400: age at which prune() forgets a score
  MaxTime,       \* bound: the clock
  MaxEvents,     \* bound: events taken from the bus
  Never          \* no entry in a map

ASSUME PipelineAssumption ==
  /\ Base \in [Rules -> 0..Cap]
  /\ Medium \in Nat \ {0} /\ Cap \in Nat /\ HalfLife \in Nat
  /\ DedupWindow \in Nat /\ FlapWindow \in Nat /\ FlapMax \in Nat
  /\ ScoreLife \in Nat /\ MaxTime \in Nat /\ MaxEvents \in Nat
  /\ Never \notin Nat

VARIABLES
  now,       \* the clock Instant::now() reads
  scores,    \* chain -> [score, at], at = Never where there is no entry
  dedup,     \* dedup_state: rule and source -> time of the last alert
  flapping,  \* flapping_state: rule -> its recent alerts, [n, at]
  pc,        \* where the loop is: "idle", "match", "decide", "persist", "notify"
  current,   \* the event in hand: its source and its chain
  pending,   \* its matches not looked at yet
  match,     \* the match in hand: rule and score
  taken,     \* events taken so far
  alerts,    \* every alert should_alert() returned, in order
  stored,    \* numbers of the alerts in the database
  announced  \* numbers of the alerts whose notifications were spawned

riskVars == <<scores, dedup, flapping>>
sinkVars == <<stored, announced>>
vars == <<now, riskVars, pc, current, pending, match, taken, alerts, sinkVars>>

Alert == [rule : Rules, src : Sources, score : 0..Cap, at : 0..MaxTime]
Numbers == DOMAIN alerts

-----------------------------------------------------------------------------
Init ==
  /\ now = 0
  /\ scores = [c \in Chains |-> [score |-> 0, at |-> Never]]
  /\ dedup = [k \in Rules \X Sources |-> Never]
  /\ flapping = [r \in Rules |-> {}]
  /\ pc = "idle"
  /\ \E s \in Sources, c \in Chains : current = [src |-> s, chain |-> c]
  /\ pending = {}
  /\ \E r \in Rules : match = [rule |-> r, score |-> 0]
  /\ taken = 0
  /\ alerts = <<>>
  /\ stored = {} /\ announced = {}

-----------------------------------------------------------------------------
(* The risk engine *)

(* decay: score * 0.5^(elapsed / half-life), truncated. Between two whole  *)
(* half-lives the outcome is some value between the two exact ones; it is  *)
(* never more than the score.                                              *)
Decay(score, elapsed) ==
  IF HalfLife = 0 THEN {score}
  ELSE {left \in 0..score :
          /\ left >= score \div 2 ^ ((elapsed + HalfLife - 1) \div HalfLife)
          /\ left <= score \div 2 ^ (elapsed \div HalfLife)}

(* Wrong on purpose: the cap is off by one.                                *)
Capped_Wide(n) == IF n > Cap + 1 THEN Cap + 1 ELSE n

Capped(n) == IF n > Cap THEN Cap ELSE n

(* calculate: what is left of the chain's score plus the match's own.      *)
Cumulative(c, base) ==
  IF scores[c].at = Never THEN {base}
  ELSE {Capped(left + base) : left \in Decay(scores[c].score, now - scores[c].at)}

Calculate(r) ==
  /\ pc = "match" /\ r \in pending
  /\ \E score \in Cumulative(current.chain, Base[r]) :
       /\ scores' = [scores EXCEPT ![current.chain] = [score |-> score, at |-> now]]
       /\ match' = [rule |-> r, score |-> Capped(score)]
  /\ pending' = pending \ {r}
  /\ pc' = "decide"
  /\ UNCHANGED <<now, dedup, flapping, current, taken, alerts, sinkVars>>

(* should_alert *)
Key == <<match.rule, current.src>>
AlertWorthy == match.score >= Medium

(* Wrong on purpose: deduplication by rule, not by rule and source.        *)
Duplicate_WholeRule ==
  \E s \in Sources : dedup[<<match.rule, s>>] # Never /\ now - dedup[<<match.rule, s>>] < DedupWindow

Duplicate == dedup[Key] # Never /\ now - dedup[Key] < DedupWindow

(* Wrong on purpose: alerts leave the hour after half of it.               *)
Recent_Half(r) == {t \in flapping[r] : t.at > now - (FlapWindow \div 2)}

Recent(r) == {t \in flapping[r] : t.at >= now - FlapWindow}

Flapping == Cardinality(Recent(match.rule)) >= FlapMax

Reject ==
  /\ ~AlertWorthy \/ Duplicate
  /\ UNCHANGED <<flapping, dedup, alerts>>
  /\ pc' = "match"

Suppress ==
  /\ AlertWorthy /\ ~Duplicate /\ Flapping
  /\ flapping' = [flapping EXCEPT ![match.rule] = Recent(match.rule)]
  /\ UNCHANGED <<dedup, alerts>>
  /\ pc' = "match"

Raise ==
  /\ AlertWorthy /\ ~Duplicate /\ ~Flapping
  /\ flapping' = [flapping EXCEPT ![match.rule] =
                    Recent(match.rule) \cup {[n |-> Len(alerts) + 1, at |-> now]}]
  /\ dedup' = [dedup EXCEPT ![Key] = now]
  /\ alerts' = Append(alerts, [rule |-> match.rule, src |-> current.src,
                               score |-> match.score, at |-> now])
  /\ pc' = "persist"

ShouldAlert ==
  /\ pc = "decide"
  /\ Reject \/ Suppress \/ Raise
  /\ UNCHANGED <<now, scores, current, pending, match, taken, sinkVars>>

(* Wrong on purpose: dedup entries go after half a window.                 *)
Prune_ShortDedup ==
  /\ scores' = [c \in Chains |->
       IF scores[c].at # Never /\ now - scores[c].at >= ScoreLife
       THEN [score |-> 0, at |-> Never] ELSE scores[c]]
  /\ dedup' = [k \in Rules \X Sources |->
       IF dedup[k] # Never /\ 2 * (now - dedup[k]) >= DedupWindow
       THEN Never ELSE dedup[k]]
  /\ UNCHANGED <<now, flapping, pc, current, pending, match, taken, alerts, sinkVars>>

(* prune: no caller in the service, but part of the engine's interface.    *)
Prune ==
  /\ scores' = [c \in Chains |->
       IF scores[c].at # Never /\ now - scores[c].at >= ScoreLife
       THEN [score |-> 0, at |-> Never] ELSE scores[c]]
  /\ dedup' = [k \in Rules \X Sources |->
       IF dedup[k] # Never /\ now - dedup[k] >= 2 * DedupWindow
       THEN Never ELSE dedup[k]]
  /\ UNCHANGED <<now, flapping, pc, current, pending, match, taken, alerts, sinkVars>>

-----------------------------------------------------------------------------
(* The event loop *)

(* rule_sub.receiver.recv(), enrichment, correlation and rule evaluation:  *)
(* the event comes with its chain and its matches.                         *)
TakeEvent(s, c, matched) ==
  /\ pc = "idle" /\ taken < MaxEvents
  /\ taken' = taken + 1
  /\ current' = [src |-> s, chain |-> c]
  /\ pending' = matched
  /\ pc' = "match"
  /\ UNCHANGED <<now, riskVars, match, alerts, sinkVars>>

EventDone ==
  /\ pc = "match" /\ pending = {}
  /\ pc' = "idle"
  /\ UNCHANGED <<now, riskVars, current, pending, match, taken, alerts, sinkVars>>

(* alert_mgr.create(...).await; an error is logged and nothing more.       *)
Persist ==
  /\ pc = "persist"
  /\ \/ stored' = stored \cup {Len(alerts)}
     \/ UNCHANGED stored
  /\ pc' = "notify"
  /\ UNCHANGED <<now, riskVars, current, pending, match, taken, alerts, announced>>

(* notifier::notify_alerts spawns a task per channel and does not wait,    *)
(* whether or not the alert could be stored; what becomes of the tasks     *)
(* nobody hears.                                                           *)
SpawnNotify ==
  /\ pc = "notify"
  /\ announced' = announced \cup {Len(alerts)}
  /\ pc' = "match"
  /\ UNCHANGED <<now, riskVars, current, pending, match, taken, alerts, stored>>

Tick ==
  /\ now < MaxTime
  /\ now' = now + 1
  /\ UNCHANGED <<riskVars, pc, current, pending, match, taken, alerts, sinkVars>>

LoopStep ==
  \/ \E r \in Rules : Calculate(r)
  \/ ShouldAlert \/ Persist \/ SpawnNotify \/ EventDone

Next ==
  \/ \E s \in Sources, c \in Chains : \E matched \in SUBSET Rules : TakeEvent(s, c, matched)
  \/ LoopStep
  \/ Prune
  \/ Tick

Spec == Init /\ [][Next]_vars

-----------------------------------------------------------------------------
(* Properties *)

(* Types, and the number of a flapping entry is that of an alert of the    *)
(* rule, raised at that time.                                              *)
TypeOK ==
  /\ now \in 0..MaxTime /\ taken \in 0..MaxEvents
  /\ scores \in [Chains -> [score : 0..Cap, at : 0..MaxTime \cup {Never}]]
  /\ dedup \in [Rules \X Sources -> 0..MaxTime \cup {Never}]
  /\ \A r \in Rules : flapping[r] \subseteq [n : Nat \ {0}, at : 0..MaxTime]
  /\ pc \in {"idle", "match", "decide", "persist", "notify"}
  /\ current \in [src : Sources, chain : Chains]
  /\ pending \subseteq Rules
  /\ match \in [rule : Rules, score : 0..Cap]
  /\ alerts \in Seq(Alert)
  /\ stored \subseteq Numbers
  /\ announced \subseteq Numbers

SameKey(i, j) == alerts[i].rule = alerts[j].rule /\ alerts[i].src = alerts[j].src

(* "Alerts for the same rule+source within this window are suppressed"     *)
(* (lib.rs:22): whatever prune() forgets, two alerts of a rule and source  *)
(* are at least a window apart.                                            *)
DedupHolds ==
  \A i, j \in Numbers : i < j /\ SameKey(i, j) => alerts[j].at - alerts[i].at >= DedupWindow

(* "maximum alerts per rule per hour" (lib.rs:25): in the hour that ends   *)
(* with an alert its rule has raised no more than that, over all sources.  *)
FlapLimit ==
  \A i \in Numbers :
    Cardinality({j \in 1..i : /\ alerts[j].rule = alerts[i].rule
                              /\ alerts[i].at - alerts[j].at <= FlapWindow}) <= FlapMax

(* No match is lost without a reason: should_alert() turns an alert-worthy *)
(* match down only when an alert of that rule and source is inside the     *)
(* window, or the rule has used up its hour.                               *)
Excused ==
  \/ \E i \in Numbers : /\ alerts[i].rule = match.rule /\ alerts[i].src = current.src
                        /\ now - alerts[i].at < DedupWindow
  \/ Cardinality({j \in Numbers : /\ alerts[j].rule = match.rule
                                  /\ now - alerts[j].at <= FlapWindow}) >= FlapMax
SuppressionJustified ==
  [][pc = "decide" /\ pc' = "match" /\ AlertWorthy => Excused]_vars

=============================================================================
