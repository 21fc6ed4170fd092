------------------------- MODULE AlertPipelineProofs -------------------------
(***************************************************************************)
(* The types, the deduplication window, the hourly limit and the           *)
(* justification of every suppression hold for every set of rules and      *)
(* sources, every cap, window and limit, every half-life and every order   *)
(* of events, ticks and prunes.                                            *)
(***************************************************************************)
EXTENDS AlertPipeline, TLAPS, SequenceTheorems, FiniteSetTheorems

AnyAlert == [rule : Rules, src : Sources, score : Int, at : Nat]

(* What the argument needs of the types.                                   *)
Typed ==
  /\ now \in Nat
  /\ dedup \in [Rules \X Sources -> Nat \cup {Never}]
  /\ \A c \in Chains : scores[c].score \in Int
  /\ DOMAIN scores = Chains
  /\ pending \subseteq Rules
  /\ current.src \in Sources /\ current.chain \in Chains
  /\ match.rule \in Rules /\ match.score \in Int
  /\ alerts \in Seq(AnyAlert)

(* No alert is from the future.                                            *)
Past == \A i \in Numbers : alerts[i].at <= now

(* dedup_state never understates: an entry is as late as every alert of    *)
(* its rule and source, and where there is none, because no alert was      *)
(* raised or prune() forgot it, all of them are a window old.              *)
DedupCovers ==
  \A i \in Numbers :
    LET last == dedup[<<alerts[i].rule, alerts[i].src>>]
    IN  IF last = Never THEN now - alerts[i].at >= DedupWindow
        ELSE alerts[i].at <= last

(* An entry is never from the future.                                      *)
DedupPast == \A k \in Rules \X Sources : dedup[k] = Never \/ dedup[k] <= now

Inv == Typed /\ Past /\ DedupCovers /\ DedupPast /\ DedupHolds

(* The constants, as far as they matter here.                              *)
LEMMA Constants ==
  /\ Base \in [Rules -> Int] /\ \A r \in Rules : Base[r] \in Int
  /\ DedupWindow \in Nat /\ Cap \in Int /\ Never \notin Nat
BY PipelineAssumption DEF PipelineAssumption

(* An alert in the list is a record with a known rule, source and time.    *)
LEMMA AlertTyped ==
  ASSUME Typed, NEW i \in Numbers
  PROVE  /\ alerts[i].rule \in Rules /\ alerts[i].src \in Sources
         /\ alerts[i].at \in Nat
         /\ <<alerts[i].rule, alerts[i].src>> \in Rules \X Sources
         /\ dedup[<<alerts[i].rule, alerts[i].src>>] \in Nat \cup {Never}
<1>1. alerts[i] \in AnyAlert
  BY DEF Typed, Numbers
<1>2. alerts[i].rule \in Rules /\ alerts[i].src \in Sources /\ alerts[i].at \in Nat
  BY <1>1 DEF AnyAlert
<1>3. QED
  BY <1>2 DEF Typed

(* The engine starts with no alert and no entry.                           *)
LEMMA InitInv == Init => Inv
<1> SUFFICES ASSUME Init PROVE Inv
  OBVIOUS
<1>1. alerts = <<>> /\ Numbers = {} /\ alerts \in Seq(AnyAlert)
  BY EmptySeq DEF Init, Numbers
<1>2. Typed
  BY <1>1 DEF Init, Typed
<1>3. QED
  BY <1>1, <1>2 DEF Init, Inv, Past, DedupCovers, DedupPast, DedupHolds

(* A step that leaves the clock, the alerts and dedup_state alone keeps    *)
(* everything but the types.                                               *)
LEMMA Untouched ==
  ASSUME Inv, UNCHANGED <<now, alerts, dedup>>, Typed'
  PROVE  Inv'
BY DEF Inv, Past, DedupCovers, DedupPast, DedupHolds, SameKey, Numbers

(* The decayed score of a chain is an integer.                             *)
LEMMA CumulativeInt ==
  ASSUME Typed, NEW c \in Chains, NEW base \in Int, NEW score \in Cumulative(c, base)
  PROVE  score \in Int
<1>1. CASE scores[c].at = Never
  BY <1>1 DEF Cumulative
<1>2. CASE scores[c].at # Never
  <2>1. PICK left \in Decay(scores[c].score, now - scores[c].at) : score = Capped(left + base)
    BY <1>2 DEF Cumulative
  <2>2. left \in Int
    <3>1. CASE HalfLife = 0
      BY <2>1, <3>1 DEF Decay, Typed
    <3>2. CASE HalfLife # 0
      BY <2>1, <3>2 DEF Decay
    <3>3. QED
      BY <3>1, <3>2
  <2>3. QED
    BY <2>1, <2>2, Constants DEF Capped
<1>3. QED
  BY <1>1, <1>2

(* calculate() changes scores only.                                        *)
LEMMA CalculateInv ==
  ASSUME Inv, NEW r \in Rules, Calculate(r)
  PROVE  Inv'
<1>0. Typed
  BY DEF Inv
<1>1. PICK score \in Cumulative(current.chain, Base[r]) :
        /\ scores' = [scores EXCEPT ![current.chain] = [score |-> score, at |-> now]]
        /\ match' = [rule |-> r, score |-> Capped(score)]
  BY DEF Calculate
<1>2. score \in Int
  BY <1>0, <1>1, CumulativeInt, Constants DEF Typed
<1>3. Capped(score) \in Int
  BY <1>2, Constants DEF Capped
<1>4. UNCHANGED <<now, alerts, dedup, current>> /\ pending' \subseteq Rules
  BY <1>0 DEF Calculate, sinkVars, Typed
<1>5. \A c \in Chains : scores'[c].score \in Int
  BY <1>0, <1>1, <1>2 DEF Typed
<1>6. Typed'
  BY <1>0, <1>1, <1>3, <1>4, <1>5 DEF Typed
<1>7. QED
  BY <1>4, <1>6, Untouched

(* A new alert has the current time, and none of its rule and source is    *)
(* younger than a window.                                                  *)
LEMMA RaiseInv ==
  ASSUME Inv, Raise, UNCHANGED <<now, scores, current, pending, match>>
  PROVE  Inv'
<1> DEFINE new == [rule |-> match.rule, src |-> current.src, score |-> match.score, at |-> now]
           n == Len(alerts)
<1>0. /\ Typed /\ Past /\ DedupCovers /\ DedupPast /\ DedupHolds
      /\ now' = now /\ now \in Nat
  BY DEF Inv, Typed
<1>1. new \in AnyAlert /\ alerts' = Append(alerts, new)
  BY <1>0 DEF Typed, AnyAlert, Raise
<1>2. /\ n \in Nat /\ Numbers = 1..n /\ Numbers' = 1..(n + 1)
      /\ alerts' \in Seq(AnyAlert)
      /\ \A i \in Numbers : alerts'[i] = alerts[i]
      /\ alerts'[n + 1] = new
  BY <1>0, <1>1, AppendProperties, LenProperties DEF Typed, Numbers
<1>3. Key \in Rules \X Sources /\ dedup[Key] \in Nat \cup {Never}
  BY <1>0 DEF Typed, Key
<1>4. dedup' = [dedup EXCEPT ![Key] = now]
  BY DEF Raise
<1>5. dedup' \in [Rules \X Sources -> Nat \cup {Never}]
  BY <1>0, <1>3, <1>4 DEF Typed
<1>6. Typed'
  BY <1>0, <1>2, <1>5 DEF Typed
<1>7. Past'
  BY <1>0, <1>2, AlertTyped DEF Past
<1>8. DedupPast'
  BY <1>0, <1>3, <1>4, <1>5 DEF DedupPast, Typed
<1>9. DedupCovers'
  <2> SUFFICES ASSUME NEW i \in Numbers'
               PROVE LET last == dedup'[<<alerts'[i].rule, alerts'[i].src>>]
                     IN  IF last = Never THEN now' - alerts'[i].at >= DedupWindow
                         ELSE alerts'[i].at <= last
    BY DEF DedupCovers
  <2>1. CASE i = n + 1
    <3>1. <<alerts'[i].rule, alerts'[i].src>> = Key /\ alerts'[i].at = now
      BY <1>2, <2>1 DEF Key
    <3>2. dedup'[<<alerts'[i].rule, alerts'[i].src>>] = now
      BY <1>0, <1>3, <1>4, <3>1 DEF Typed
    <3>3. alerts'[i].at = now /\ now <= now /\ now # Never
      BY <1>0, <3>1, Constants
    <3>4. QED
      BY <3>2, <3>3
  <2>2. CASE i \in Numbers
    <3> DEFINE k == <<alerts[i].rule, alerts[i].src>>
    <3>1. alerts'[i] = alerts[i] /\ alerts[i].at \in Nat /\ k \in Rules \X Sources
      BY <1>0, <1>2, <2>2, AlertTyped
    <3>2. alerts[i].at <= now
      BY <1>0, <2>2 DEF Past
    <3>3. CASE k = Key
      <4>1. dedup'[k] = now
        BY <1>0, <1>3, <1>4, <3>3 DEF Typed
      <4>2. QED
        BY <1>0, <3>1, <3>2, <4>1, Constants DEF Typed
    <3>4. CASE k # Key
      <4>1. dedup'[k] = dedup[k]
        BY <1>0, <1>4, <3>1, <3>4 DEF Typed
      <4>2. QED
        BY <1>0, <2>2, <3>1, <4>1 DEF DedupCovers
    <3>5. QED
      BY <3>3, <3>4
  <2>3. QED
    BY <1>2, <2>1, <2>2
<1>10. ASSUME NEW i \in Numbers, alerts[i].rule = match.rule, alerts[i].src = current.src
       PROVE  now - alerts[i].at >= DedupWindow
  <2>1. <<alerts[i].rule, alerts[i].src>> = Key /\ alerts[i].at \in Nat
    BY <1>0, <1>10, AlertTyped DEF Key
  <2>2. IF dedup[Key] = Never THEN now - alerts[i].at >= DedupWindow
        ELSE alerts[i].at <= dedup[Key]
    BY <1>0, <2>1 DEF DedupCovers
  <2>3. dedup[Key] = Never \/ ~(now - dedup[Key] < DedupWindow)
    BY DEF Raise, Duplicate
  <2>4. QED
    BY <1>0, <1>3, <2>1, <2>2, <2>3, Constants DEF Typed
<1>11. DedupHolds'
  <2> SUFFICES ASSUME NEW i \in Numbers', NEW j \in Numbers', i < j,
                      alerts'[i].rule = alerts'[j].rule, alerts'[i].src = alerts'[j].src
               PROVE  alerts'[j].at - alerts'[i].at >= DedupWindow
    BY DEF DedupHolds, SameKey
  <2>1. i \in Numbers
    BY <1>2
  <2>2. CASE j \in Numbers
    BY <1>0, <1>2, <2>1, <2>2 DEF DedupHolds, SameKey
  <2>3. CASE j = n + 1
    BY <1>2, <1>10, <2>1, <2>3
  <2>4. QED
    BY <1>2, <2>2, <2>3
<1>12. QED
  BY <1>6, <1>7, <1>8, <1>9, <1>11 DEF Inv

(* should_alert(): only a raised alert touches dedup_state.                *)
LEMMA ShouldAlertInv ==
  ASSUME Inv, ShouldAlert
  PROVE  Inv'
<1>1. UNCHANGED <<now, scores, current, pending, match>>
  BY DEF ShouldAlert
<1>2. CASE Raise
  BY <1>1, <1>2, RaiseInv
<1>3. CASE Reject \/ Suppress
  <2>1. UNCHANGED <<alerts, dedup>>
    BY <1>3 DEF Reject, Suppress
  <2>2. Typed'
    BY <1>1, <2>1 DEF Inv, Typed
  <2>3. QED
    BY <1>1, <2>1, <2>2, Untouched
<1>4. QED
  BY <1>2, <1>3 DEF ShouldAlert

(* prune() forgets an entry only when it is two windows old.               *)
LEMMA PruneInv ==
  ASSUME Inv, Prune
  PROVE  Inv'
<1>0. Typed /\ Past /\ DedupCovers /\ DedupPast /\ DedupHolds
  BY DEF Inv
<1>1. UNCHANGED <<now, alerts, current, pending, match>>
  BY DEF Prune, sinkVars
<1>2. dedup' = [k \in Rules \X Sources |->
        IF dedup[k] # Never /\ now - dedup[k] >= 2 * DedupWindow THEN Never ELSE dedup[k]]
  BY DEF Prune
<1>3. dedup' \in [Rules \X Sources -> Nat \cup {Never}]
  BY <1>0, <1>2 DEF Typed
<1>4. DOMAIN scores' = Chains /\ \A c \in Chains : scores'[c].score \in Int
  BY <1>0 DEF Prune, Typed
<1>5. Typed'
  BY <1>0, <1>1, <1>3, <1>4 DEF Typed
<1>6. Past' /\ DedupHolds'
  BY <1>0, <1>1 DEF Past, DedupHolds, SameKey, Numbers
<1>7. DedupPast'
  BY <1>0, <1>1, <1>2 DEF DedupPast
<1>8. DedupCovers'
  <2> SUFFICES ASSUME NEW i \in Numbers
               PROVE LET last == dedup'[<<alerts[i].rule, alerts[i].src>>]
                     IN  IF last = Never THEN now - alerts[i].at >= DedupWindow
                         ELSE alerts[i].at <= last
    BY <1>1 DEF DedupCovers, Numbers
  <2> DEFINE k == <<alerts[i].rule, alerts[i].src>>
  <2>1. k \in Rules \X Sources /\ alerts[i].at \in Nat /\ dedup[k] \in Nat \cup {Never}
    BY <1>0, AlertTyped
  <2>2. IF dedup[k] = Never THEN now - alerts[i].at >= DedupWindow ELSE alerts[i].at <= dedup[k]
    BY <1>0 DEF DedupCovers
  <2>3. dedup'[k] = IF dedup[k] # Never /\ now - dedup[k] >= 2 * DedupWindow
                    THEN Never ELSE dedup[k]
    BY <1>2, <2>1
  <2>4. now \in Nat
    BY <1>0 DEF Typed
  <2> HIDE DEF k
  <2>5. IF dedup'[k] = Never THEN now - alerts[i].at >= DedupWindow ELSE alerts[i].at <= dedup'[k]
    BY <2>1, <2>2, <2>3, <2>4, Constants
  <2>6. QED
    BY <2>5 DEF k
<1>9. QED
  BY <1>5, <1>6, <1>7, <1>8 DEF Inv

(* Time only lets the alerts grow older.                                   *)
LEMMA TickInv ==
  ASSUME Inv, Tick
  PROVE  Inv'
<1>0. Typed /\ Past /\ DedupCovers /\ DedupPast /\ DedupHolds
  BY DEF Inv
<1>1. now' = now + 1 /\ UNCHANGED <<scores, dedup, alerts, current, pending, match>>
  BY DEF Tick, riskVars, sinkVars
<1>2. Typed' /\ now \in Nat
  BY <1>0, <1>1 DEF Typed
<1>3. Past'
  <2>1. ASSUME NEW i \in Numbers PROVE alerts[i].at <= now + 1
    <3>1. alerts[i].at <= now
      BY <1>0, <2>1 DEF Past
    <3>2. alerts[i].at \in Nat /\ now \in Nat
      BY <1>0, <1>2, <2>1, AlertTyped
    <3>3. QED
      BY <3>1, <3>2
  <2>2. QED
    BY <1>1, <2>1 DEF Past, Numbers
<1>4. DedupPast'
  BY <1>0, <1>1, <1>2 DEF DedupPast, Typed
<1>5. DedupCovers'
  <2> SUFFICES ASSUME NEW i \in Numbers
               PROVE LET last == dedup'[<<alerts[i].rule, alerts[i].src>>]
                     IN  IF last = Never THEN now' - alerts[i].at >= DedupWindow
                         ELSE alerts[i].at <= last
    BY <1>1 DEF DedupCovers, Numbers
  <2> DEFINE k == <<alerts[i].rule, alerts[i].src>>
  <2>1. alerts[i].at \in Nat
    BY <1>0, AlertTyped
  <2>2. IF dedup[k] = Never THEN now - alerts[i].at >= DedupWindow ELSE alerts[i].at <= dedup[k]
    BY <1>0 DEF DedupCovers
  <2>3. now' = now + 1 /\ dedup'[k] = dedup[k]
    BY <1>1
  <2> HIDE DEF k
  <2>4. IF dedup'[k] = Never THEN now' - alerts[i].at >= DedupWindow ELSE alerts[i].at <= dedup'[k]
    BY <1>2, <2>1, <2>2, <2>3, Constants
  <2>5. QED
    BY <2>4 DEF k
<1>6. DedupHolds'
  BY <1>0, <1>1 DEF DedupHolds, SameKey, Numbers
<1>7. QED
  BY <1>2, <1>3, <1>4, <1>5, <1>6 DEF Inv

(* Every other step of the loop leaves clock, alerts and entries alone.    *)
LEMMA OtherInv ==
  ASSUME Inv,
         \/ \E s \in Sources, c \in Chains : \E matched \in SUBSET Rules : TakeEvent(s, c, matched)
         \/ EventDone \/ Persist \/ SpawnNotify
         \/ UNCHANGED vars
  PROVE  Inv'
<1>1. UNCHANGED <<now, scores, alerts, dedup, match>>
  BY DEF TakeEvent, EventDone, Persist, SpawnNotify, vars, riskVars, sinkVars
<1>2. /\ pending' \subseteq Rules
      /\ current'.src \in Sources /\ current'.chain \in Chains
  BY DEF Inv, Typed, TakeEvent, EventDone, Persist, SpawnNotify,
         vars, riskVars, sinkVars
<1>3. Typed'
  BY <1>1, <1>2 DEF Inv, Typed
<1>4. QED
  BY <1>1, <1>3, Untouched

(* Every step keeps the invariant.                                         *)
LEMMA NextInv == Inv /\ [Next]_vars => Inv'
<1> SUFFICES ASSUME Inv, [Next]_vars PROVE Inv'
  OBVIOUS
<1>1. ASSUME NEW r \in Rules, Calculate(r) PROVE Inv'
  BY <1>1, CalculateInv
<1>2. ASSUME ShouldAlert PROVE Inv'
  BY <1>2, ShouldAlertInv
<1>3. ASSUME Prune PROVE Inv'
  BY <1>3, PruneInv
<1>4. ASSUME Tick PROVE Inv'
  BY <1>4, TickInv
<1>5. ASSUME \/ \E s \in Sources, c \in Chains :
                  \E matched \in SUBSET Rules : TakeEvent(s, c, matched)
             \/ EventDone \/ Persist \/ SpawnNotify
             \/ UNCHANGED vars
      PROVE Inv'
  BY <1>5, OtherInv
<1>6. QED
  BY <1>1, <1>2, <1>3, <1>4, <1>5 DEF Next, LoopStep

(* Two alerts of one rule and source are at least dedup_window_secs apart, *)
(* also across prune(): should_alert(), crates/sentinel-risk/src/lib.rs:196.*)
THEOREM DedupCorrect == Spec => []DedupHolds
<1>1. Inv => DedupHolds
  BY DEF Inv
<1>2. QED
  BY InitInv, NextInv, <1>1, PTL DEF Spec

-----------------------------------------------------------------------------
(* The hourly limit and what a suppression rests on *)

(* The alerts a rule has raised in the hour that ends now.                 *)
HourOf(r) == {j \in Numbers : alerts[j].rule = r /\ now - alerts[j].at <= FlapWindow}

FlapEntry(j) == [n |-> j, at |-> alerts[j].at]

(* flapping_state holds nothing but alerts of its rule ...                 *)
FlapJustified ==
  \A r \in Rules : \A t \in flapping[r] :
    \E j \in Numbers : alerts[j].rule = r /\ t = FlapEntry(j)

(* ... and no alert of the last hour is missing: the entries should_alert() *)
(* drops are older than that.                                              *)
FlapCovers == \A r \in Rules : \A j \in HourOf(r) : FlapEntry(j) \in flapping[r]

(* An entry of dedup_state is the time of an alert of its rule and source. *)
DedupWitnessed ==
  \A r \in Rules, s \in Sources :
    dedup[<<r, s>>] # Never =>
      \E i \in Numbers : /\ alerts[i].rule = r /\ alerts[i].src = s
                         /\ alerts[i].at = dedup[<<r, s>>]

HourInv ==
  /\ Inv
  /\ DOMAIN flapping = Rules /\ FlapJustified /\ FlapCovers
  /\ DedupWitnessed /\ FlapLimit

(* The entries that count for should_alert() are as many as the alerts of  *)
(* the rule in the last hour.                                              *)
LEMMA RecentCounts ==
  ASSUME HourInv, NEW r \in Rules
  PROVE  /\ IsFiniteSet(HourOf(r))
         /\ Cardinality(Recent(r)) = Cardinality(HourOf(r))
         /\ Cardinality(HourOf(r)) \in Nat
<1> DEFINE f == [j \in HourOf(r) |-> FlapEntry(j)]
<1>0. Typed /\ FlapJustified /\ FlapCovers /\ now \in Nat /\ FlapWindow \in Nat
  BY PipelineAssumption DEF HourInv, Inv, Typed, PipelineAssumption
<1>1. IsFiniteSet(HourOf(r))
  <2>1. Len(alerts) \in Nat /\ Numbers = 1..Len(alerts)
    BY <1>0, LenProperties DEF Typed, Numbers
  <2>2. IsFiniteSet(Numbers)
    BY <2>1, FS_Interval
  <2>3. HourOf(r) \in SUBSET Numbers
    BY DEF HourOf
  <2>4. QED
    BY <2>2, <2>3, FS_Subset
<1>2. ASSUME NEW j \in HourOf(r) PROVE FlapEntry(j) \in Recent(r)
  <2>1. FlapEntry(j) \in flapping[r] /\ now - alerts[j].at <= FlapWindow /\ j \in Numbers
    BY <1>0, <1>2 DEF FlapCovers, HourOf
  <2>2. alerts[j].at \in Nat
    BY <1>0, <2>1, AlertTyped
  <2>3. QED
    BY <1>0, <2>1, <2>2 DEF Recent, FlapEntry
<1>3. ASSUME NEW t \in Recent(r) PROVE \E j \in HourOf(r) : t = FlapEntry(j)
  <2>1. t \in flapping[r] /\ t.at >= now - FlapWindow
    BY <1>3 DEF Recent
  <2>2. PICK j \in Numbers : alerts[j].rule = r /\ t = FlapEntry(j)
    BY <1>0, <2>1 DEF FlapJustified
  <2>3. alerts[j].at \in Nat /\ t.at = alerts[j].at
    BY <1>0, <2>2, AlertTyped DEF FlapEntry
  <2>4. QED
    BY <1>0, <2>1, <2>2, <2>3 DEF HourOf
<1>4. f \in Bijection(HourOf(r), Recent(r))
  <2>1. f \in [HourOf(r) -> Recent(r)]
    BY <1>2
  <2>2. \A i, j \in HourOf(r) : f[i] = f[j] => i = j
    BY DEF FlapEntry
  <2>3. \A t \in Recent(r) : \E j \in HourOf(r) : f[j] = t
    BY <1>3
  <2> HIDE DEF f
  <2>4. QED
    BY <2>1, <2>2, <2>3 DEF Bijection, Injection, Surjection, IsInjective
<1>5. ExistsBijection(HourOf(r), Recent(r))
  BY <1>4 DEF ExistsBijection
<1>6. QED
  BY <1>1, <1>5, FS_Bijection, FS_CardinalityType

(* Steps that raise nothing: time may pass and entries of dedup_state may  *)
(* be forgotten.                                                           *)
LEMMA NothingRaised ==
  ASSUME HourInv, Inv', now' >= now, UNCHANGED <<alerts, flapping>>,
         \A r \in Rules, s \in Sources : dedup'[<<r, s>>] \in {Never, dedup[<<r, s>>]}
  PROVE  HourInv'
<1>0. Typed /\ Typed' /\ now \in Nat /\ now' \in Nat /\ FlapWindow \in Nat
  BY PipelineAssumption DEF HourInv, Inv, Typed, PipelineAssumption
<1>1. DOMAIN flapping' = Rules /\ FlapJustified' /\ FlapLimit'
  BY DEF HourInv, FlapJustified, FlapEntry, FlapLimit, Numbers
<1>2. DedupWitnessed'
  <2> SUFFICES ASSUME NEW r \in Rules, NEW s \in Sources, dedup'[<<r, s>>] # Never
               PROVE  \E i \in Numbers : /\ alerts[i].rule = r /\ alerts[i].src = s
                                         /\ alerts[i].at = dedup'[<<r, s>>]
    BY DEF DedupWitnessed, Numbers
  <2>1. dedup'[<<r, s>>] = dedup[<<r, s>>]
    OBVIOUS
  <2>2. QED
    BY <2>1 DEF HourInv, DedupWitnessed
<1>3. FlapCovers'
  <2> SUFFICES ASSUME NEW r \in Rules, NEW j \in HourOf(r)' PROVE FlapEntry(j)' \in flapping'[r]
    BY DEF FlapCovers
  <2>1. j \in Numbers /\ alerts[j].rule = r /\ now' - alerts[j].at <= FlapWindow
    BY DEF HourOf, Numbers
  <2>2. alerts[j].at \in Nat
    BY <1>0, <2>1, AlertTyped
  <2>3. j \in HourOf(r)
    BY <1>0, <2>1, <2>2 DEF HourOf
  <2>4. QED
    BY <2>3 DEF HourInv, FlapCovers, FlapEntry
<1>4. QED
  BY <1>1, <1>2, <1>3 DEF HourInv

(* should_alert() drops the entries of the rule that are older than an     *)
(* hour before it counts.                                                  *)
LEMMA RecentKeepsHour ==
  ASSUME HourInv, NEW r \in Rules
  PROVE  \A j \in HourOf(r) : FlapEntry(j) \in Recent(r)
<1>0. Typed /\ FlapCovers /\ now \in Nat /\ FlapWindow \in Nat
  BY PipelineAssumption DEF HourInv, Inv, Typed, PipelineAssumption
<1>1. ASSUME NEW j \in HourOf(r) PROVE FlapEntry(j) \in Recent(r)
  <2>1. FlapEntry(j) \in flapping[r] /\ now - alerts[j].at <= FlapWindow /\ j \in Numbers
    BY <1>0, <1>1 DEF FlapCovers, HourOf
  <2>2. alerts[j].at \in Nat
    BY <1>0, <2>1, AlertTyped
  <2>3. QED
    BY <1>0, <2>1, <2>2 DEF Recent, FlapEntry
<1>2. QED
  BY <1>1

(* A suppressed match: only old entries go.                                *)
LEMMA SuppressHour ==
  ASSUME HourInv, Inv', Suppress, UNCHANGED now
  PROVE  HourInv'
<1>0. /\ match.rule \in Rules /\ DOMAIN flapping = Rules
      /\ FlapJustified /\ FlapCovers /\ UNCHANGED <<alerts, dedup>>
  BY DEF HourInv, Inv, Typed, Suppress
<1>1. flapping' = [flapping EXCEPT ![match.rule] = Recent(match.rule)]
  BY DEF Suppress
<1>2. FlapJustified'
  BY <1>0, <1>1 DEF FlapJustified, FlapEntry, Recent, Numbers
<1>3. FlapCovers'
  <2> SUFFICES ASSUME NEW r \in Rules, NEW j \in HourOf(r) PROVE FlapEntry(j) \in flapping'[r]
    BY <1>0 DEF FlapCovers, HourOf, FlapEntry, Numbers
  <2>1. CASE r = match.rule
    BY <1>0, <1>1, <2>1, RecentKeepsHour
  <2>2. CASE r # match.rule
    BY <1>0, <1>1, <2>2 DEF FlapCovers
  <2>3. QED
    BY <2>1, <2>2
<1>4. FlapLimit' /\ DedupWitnessed'
  BY <1>0 DEF HourInv, FlapLimit, DedupWitnessed, Numbers
<1>5. QED
  BY <1>0, <1>1, <1>2, <1>3, <1>4 DEF HourInv

(* A raised alert: the rule had used up less than its hour, and the alert  *)
(* is counted from now on.                                                 *)
LEMMA RaiseHour ==
  ASSUME HourInv, Inv', Raise, UNCHANGED now
  PROVE  HourInv'
<1> DEFINE new == [rule |-> match.rule, src |-> current.src, score |-> match.score, at |-> now]
           n == Len(alerts)
           q == match.rule
<1>0. /\ Typed /\ Past /\ now \in Nat /\ FlapWindow \in Nat /\ FlapMax \in Nat
      /\ q \in Rules /\ current.src \in Sources /\ DOMAIN flapping = Rules
      /\ FlapJustified /\ FlapCovers /\ FlapLimit /\ DedupWitnessed
  BY PipelineAssumption DEF HourInv, Inv, Typed, PipelineAssumption
<1>1. new \in AnyAlert /\ alerts' = Append(alerts, new)
  BY <1>0 DEF Typed, AnyAlert, Raise
<1>2. /\ n \in Nat /\ Numbers = 1..n /\ Numbers' = 1..(n + 1)
      /\ \A i \in Numbers : alerts'[i] = alerts[i]
      /\ alerts'[n + 1] = new
  BY <1>0, <1>1, AppendProperties, LenProperties DEF Typed, Numbers
<1>3. flapping' = [flapping EXCEPT ![q] = Recent(q) \cup {[n |-> n + 1, at |-> now]}]
  BY DEF Raise
<1>4. /\ \A i \in Numbers : [n |-> i, at |-> alerts'[i].at] = FlapEntry(i)
      /\ [n |-> n + 1, at |-> alerts'[n + 1].at] = [n |-> n + 1, at |-> now]
  BY <1>2 DEF FlapEntry
<1>5. \A i \in Numbers : i \in Numbers'
  BY <1>2
<1> HIDE DEF new, n, q
<1>6. FlapJustified'
  <2> SUFFICES ASSUME NEW r \in Rules, NEW t \in flapping'[r]
               PROVE  \E j \in Numbers' : alerts'[j].rule = r /\ t = [n |-> j, at |-> alerts'[j].at]
    BY DEF FlapJustified, FlapEntry
  <2>1. CASE t \in flapping[r]
    <3>1. PICK j \in Numbers : alerts[j].rule = r /\ t = FlapEntry(j)
      BY <1>0, <2>1 DEF FlapJustified
    <3>2. QED
      BY <1>2, <1>4, <1>5, <3>1
  <2>2. CASE t \notin flapping[r]
    <3>1. r = q /\ t = [n |-> n + 1, at |-> now]
      BY <1>0, <1>3, <2>2 DEF Recent
    <3>2. n + 1 \in Numbers' /\ alerts'[n + 1].rule = r
      BY <1>2, <3>1 DEF new, q
    <3>3. QED
      BY <1>4, <3>1, <3>2
  <2>3. QED
    BY <2>1, <2>2
<1>7. FlapCovers'
  <2> SUFFICES ASSUME NEW r \in Rules, NEW j \in HourOf(r)' PROVE [n |-> j, at |-> alerts'[j].at] \in flapping'[r]
    BY DEF FlapCovers, FlapEntry
  <2>1. j \in Numbers' /\ alerts'[j].rule = r /\ now - alerts'[j].at <= FlapWindow
    BY DEF HourOf
  <2>2. CASE j = n + 1
    <3>1. r = q
      BY <1>2, <2>1, <2>2 DEF new, q
    <3>2. QED
      BY <1>0, <1>3, <1>4, <2>2, <3>1
  <2>3. CASE j \in Numbers
    <3>1. j \in HourOf(r) /\ [n |-> j, at |-> alerts'[j].at] = FlapEntry(j)
      BY <1>2, <1>4, <2>1, <2>3 DEF HourOf
    <3>2. CASE r = q
      BY <1>0, <1>3, <3>1, <3>2, RecentKeepsHour
    <3>3. CASE r # q
      BY <1>0, <1>3, <3>1, <3>3 DEF FlapCovers
    <3>4. QED
      BY <3>2, <3>3
  <2>4. QED
    BY <1>2, <2>1, <2>2, <2>3
<1>8. DedupWitnessed'
  <2> SUFFICES ASSUME NEW r \in Rules, NEW s \in Sources, dedup'[<<r, s>>] # Never
               PROVE  \E i \in Numbers' : /\ alerts'[i].rule = r /\ alerts'[i].src = s
                                          /\ alerts'[i].at = dedup'[<<r, s>>]
    BY DEF DedupWitnessed
  <2>1. dedup' = [dedup EXCEPT ![<<q, current.src>>] = now] /\ DOMAIN dedup = Rules \X Sources
    BY <1>0 DEF Raise, Key, Typed, q
  <2>2. CASE r = q /\ s = current.src
    <3>1. dedup'[<<r, s>>] = now
      BY <2>1, <2>2
    <3>2. alerts'[n + 1].rule = r /\ alerts'[n + 1].src = s /\ alerts'[n + 1].at = now
      BY <1>2, <2>2 DEF new, q
    <3>3. QED
      BY <1>2, <3>1, <3>2
  <2>3. CASE ~(r = q /\ s = current.src)
    <3>1. dedup'[<<r, s>>] = dedup[<<r, s>>]
      BY <2>1, <2>3
    <3>2. QED
      BY <1>0, <1>2, <1>5, <3>1 DEF DedupWitnessed
  <2>4. QED
    BY <2>2, <2>3
<1>9. FlapLimit'
  <2> SUFFICES ASSUME NEW i \in Numbers'
               PROVE  Cardinality({j \in 1..i : /\ alerts'[j].rule = alerts'[i].rule
                                                /\ alerts'[i].at - alerts'[j].at <= FlapWindow})
                        <= FlapMax
    BY DEF FlapLimit
  <2>1. CASE i \in Numbers
    <3>1. \A j \in 1..i : alerts'[j] = alerts[j] /\ alerts'[i] = alerts[i]
      BY <1>2, <2>1
    <3>2. {j \in 1..i : /\ alerts'[j].rule = alerts'[i].rule
                        /\ alerts'[i].at - alerts'[j].at <= FlapWindow}
            = {j \in 1..i : /\ alerts[j].rule = alerts[i].rule
                            /\ alerts[i].at - alerts[j].at <= FlapWindow}
      BY <3>1
    <3>3. Cardinality({j \in 1..i : /\ alerts[j].rule = alerts[i].rule
                                    /\ alerts[i].at - alerts[j].at <= FlapWindow}) <= FlapMax
      BY <1>0, <2>1 DEF FlapLimit
    <3>4. QED
      BY <3>2, <3>3
  <2>2. CASE i = n + 1
    <3>1. IsFiniteSet(HourOf(q)) /\ Cardinality(HourOf(q)) < FlapMax
      BY <1>0, RecentCounts DEF Raise, Flapping, q
    <3>2. {j \in 1..i : /\ alerts'[j].rule = alerts'[i].rule
                        /\ alerts'[i].at - alerts'[j].at <= FlapWindow} = HourOf(q) \cup {n + 1}
      <4>1. alerts'[i].rule = q /\ alerts'[i].at = now /\ now - now <= FlapWindow
        BY <1>0, <1>2, <2>2 DEF new, q
      <4>2. \A j \in 1..i : j \in Numbers \/ j = n + 1
        BY <1>2, <2>2
      <4>3. Numbers \subseteq 1..i /\ n + 1 \in 1..i
        BY <1>2, <2>2
      <4>4. QED
        BY <1>2, <2>2, <4>1, <4>2, <4>3 DEF HourOf
    <3>3. n + 1 \notin HourOf(q)
      BY <1>2 DEF HourOf
    <3>4. Cardinality(HourOf(q) \cup {n + 1}) = Cardinality(HourOf(q)) + 1
      BY <3>1, <3>3, FS_AddElement
    <3>5. Cardinality(HourOf(q)) \in Nat
      BY <1>0, RecentCounts
    <3>6. Cardinality(HourOf(q) \cup {n + 1}) <= FlapMax
      BY <1>0, <3>1, <3>4, <3>5
    <3>7. QED
      BY <3>2, <3>6
  <2>3. QED
    BY <1>2, <2>1, <2>2
<1>10. DOMAIN flapping' = Rules
  BY <1>0, <1>3
<1>11. QED
  BY <1>6, <1>7, <1>8, <1>9, <1>10 DEF HourInv

(* Every step keeps the invariant of the hour.                             *)
LEMMA HourNext == HourInv /\ [Next]_vars => HourInv'
<1> SUFFICES ASSUME HourInv, [Next]_vars PROVE HourInv'
  OBVIOUS
<1>0. Inv /\ Inv' /\ now \in Nat
  BY NextInv DEF HourInv, Inv, Typed
<1>1. CASE Raise /\ ShouldAlert
  BY <1>0, <1>1, RaiseHour DEF ShouldAlert
<1>2. CASE Suppress /\ ShouldAlert
  BY <1>0, <1>2, SuppressHour DEF ShouldAlert
<1>3. CASE Reject /\ ShouldAlert
  BY <1>0, <1>3, NothingRaised DEF Reject, ShouldAlert
<1>4. ASSUME NEW r \in Rules, Calculate(r) PROVE HourInv'
  BY <1>0, <1>4, NothingRaised DEF Calculate
<1>5. CASE Prune
  <2>1. \A r \in Rules, s \in Sources : dedup'[<<r, s>>] \in {Never, dedup[<<r, s>>]}
    BY <1>5 DEF Prune
  <2>2. QED
    BY <1>0, <1>5, <2>1, NothingRaised DEF Prune
<1>6. CASE Tick
  BY <1>0, <1>6, NothingRaised DEF Tick, riskVars
<1>7. ASSUME \/ \E s \in Sources, c \in Chains :
                  \E matched \in SUBSET Rules : TakeEvent(s, c, matched)
             \/ EventDone \/ Persist \/ SpawnNotify
             \/ UNCHANGED vars
      PROVE HourInv'
  <2>1. UNCHANGED <<now, alerts, dedup, flapping>>
    BY <1>7 DEF TakeEvent, EventDone, Persist, SpawnNotify, vars, riskVars, sinkVars
  <2>2. QED
    BY <1>0, <2>1, NothingRaised
<1>8. QED
  BY <1>1, <1>2, <1>3, <1>4, <1>5, <1>6, <1>7 DEF Next, LoopStep, ShouldAlert

(* The engine starts with empty maps.                                      *)
LEMMA HourInit == Init => HourInv
<1> SUFFICES ASSUME Init PROVE HourInv
  OBVIOUS
<1>1. Inv /\ alerts = <<>> /\ Numbers = {} /\ flapping = [r \in Rules |-> {}]
  BY InitInv, EmptySeq DEF Init, Numbers
<1>2. \A r \in Rules, s \in Sources : dedup[<<r, s>>] = Never
  BY DEF Init
<1>3. FlapLimit
  BY <1>1 DEF FlapLimit
<1>4. QED
  BY <1>1, <1>2, <1>3 DEF HourInv, FlapJustified, FlapCovers, HourOf, DedupWitnessed

(* flapping_max_per_hour is kept: no alert is raised that would be one too *)
(* many in the hour of its rule, whatever was suppressed or forgotten in   *)
(* between; should_alert(), crates/sentinel-risk/src/lib.rs:196.           *)
THEOREM FlapLimitCorrect == Spec => []FlapLimit
<1>1. HourInv => FlapLimit
  BY DEF HourInv
<1>2. QED
  BY HourInit, HourNext, <1>1, PTL DEF Spec

(* A match that should_alert() turns down has an excuse in the alerts      *)
(* raised so far.                                                          *)
LEMMA RejectExcused ==
  ASSUME HourInv, [Next]_vars
  PROVE  [pc = "decide" /\ pc' = "match" /\ AlertWorthy => Excused]_vars
<1> SUFFICES ASSUME Next, pc = "decide", pc' = "match", AlertWorthy PROVE Excused
  BY DEF Excused
<1>0. /\ Typed /\ now \in Nat /\ DedupWitnessed
      /\ match.rule \in Rules /\ current.src \in Sources
  BY DEF HourInv, Inv, Typed
<1>1. ShouldAlert
  BY DEF Next, LoopStep, TakeEvent, Calculate, Persist, SpawnNotify, EventDone, Prune, Tick
<1>2. CASE Reject
  <2>1. dedup[<<match.rule, current.src>>] # Never
          /\ now - dedup[<<match.rule, current.src>>] < DedupWindow
    BY <1>2 DEF Reject, Duplicate, Key
  <2>2. PICK i \in Numbers : /\ alerts[i].rule = match.rule /\ alerts[i].src = current.src
                             /\ alerts[i].at = dedup[<<match.rule, current.src>>]
    BY <1>0, <2>1 DEF DedupWitnessed
  <2>3. now - alerts[i].at < DedupWindow
    BY <2>1, <2>2
  <2>4. QED
    BY <2>2, <2>3 DEF Excused
<1>3. CASE Suppress
  <2>1. Cardinality(HourOf(match.rule)) >= FlapMax
    BY <1>0, <1>3, RecentCounts DEF Suppress, Flapping
  <2>2. QED
    BY <2>1 DEF Excused, HourOf
<1>4. CASE Raise
  BY <1>4 DEF Raise
<1>5. QED
  BY <1>1, <1>2, <1>3, <1>4 DEF ShouldAlert

(* No alert-worthy match is lost without a reason: what should_alert()     *)
(* remembers in dedup_state and flapping_state always stands for alerts    *)
(* that were raised; crates/sentinel-risk/src/lib.rs:196.                  *)
THEOREM SuppressionCorrect == Spec => SuppressionJustified
<1>1. HourInv /\ [Next]_vars => [pc = "decide" /\ pc' = "match" /\ AlertWorthy => Excused]_vars
  BY RejectExcused
<1>2. QED
  BY HourInit, HourNext, <1>1, PTL DEF Spec, SuppressionJustified

-----------------------------------------------------------------------------
(* The types                                                               *)

(* Until it is stored and announced there is an alert.                     *)
TypeInv ==
  /\ TypeOK /\ flapping = [r \in Rules |-> flapping[r]]
  /\ pc \in {"persist", "notify"} => Len(alerts) \in Numbers

(* Scores stay within the cap: decay only lowers them.                     *)
LEMMA CumulativeCapped ==
  ASSUME TypeOK, NEW c \in Chains, NEW base \in 0..Cap, NEW score \in Cumulative(c, base)
  PROVE  score \in 0..Cap
<1>1. Cap \in Nat
  BY PipelineAssumption
<1>2. scores[c].score \in 0..Cap
  BY DEF TypeOK
<1>3. CASE scores[c].at = Never
  BY <1>3 DEF Cumulative
<1>4. CASE scores[c].at # Never
  <2>1. PICK left \in Decay(scores[c].score, now - scores[c].at) : score = Capped(left + base)
    BY <1>4 DEF Cumulative
  <2>2. left \in {scores[c].score} \/ left \in 0..scores[c].score
    BY <2>1 DEF Decay
  <2>3. left \in Nat
    BY <1>1, <1>2, <2>2
  <2>4. left + base \in Nat
    BY <1>1, <2>3
  <2>5. QED
    BY <1>1, <2>1, <2>4 DEF Capped
<1>5. QED
  BY <1>3, <1>4

(* An alert that is raised leaves a well-typed state.                      *)
LEMMA RaiseTyped ==
  ASSUME TypeInv, ShouldAlert, Raise
  PROVE  TypeInv'
<1> DEFINE a == [rule |-> match.rule, src |-> current.src, score |-> match.score, at |-> now]
<1>1. /\ flapping' = [flapping EXCEPT ![match.rule] =
                        Recent(match.rule) \cup {[n |-> Len(alerts) + 1, at |-> now]}]
      /\ dedup' = [dedup EXCEPT ![Key] = now]
      /\ alerts' = Append(alerts, a) /\ pc' = "persist"
      /\ UNCHANGED <<now, scores, current, pending, match, taken, stored, announced>>
  BY DEF Raise, ShouldAlert, sinkVars
<1>2. /\ now \in 0..MaxTime /\ match \in [rule : Rules, score : 0..Cap]
      /\ current \in [src : Sources, chain : Chains] /\ alerts \in Seq(Alert)
      /\ MaxTime \in Nat
  BY PipelineAssumption DEF TypeInv, TypeOK
<1>3. a \in Alert
  BY <1>2 DEF Alert
<1> HIDE DEF a
<1>4. /\ alerts' \in Seq(Alert) /\ Len(alerts') = Len(alerts) + 1 /\ Len(alerts) \in Nat
  BY <1>1, <1>2, <1>3, AppendProperties, LenProperties
<1>5. Numbers = 1..Len(alerts) /\ Numbers' = 1..(Len(alerts) + 1)
  BY <1>2, <1>4, LenProperties DEF Numbers
<1>6. Numbers \subseteq Numbers' /\ Len(alerts') \in Numbers'
  BY <1>4, <1>5
<1>7. dedup' \in [Rules \X Sources -> 0..MaxTime \cup {Never}]
  <2>1. dedup \in [Rules \X Sources -> 0..MaxTime \cup {Never}] /\ Key \in Rules \X Sources
    BY <1>2 DEF TypeInv, TypeOK, Key
  <2>2. QED
    BY <1>1, <1>2, <2>1
<1>8. [n |-> Len(alerts) + 1, at |-> now] \in [n : Nat \ {0}, at : 0..MaxTime]
  BY <1>2, <1>4
<1>9. flapping' = [r \in Rules |-> flapping'[r]]
      /\ \A r \in Rules : flapping'[r] \subseteq [n : Nat \ {0}, at : 0..MaxTime]
  <2>1. Recent(match.rule) \subseteq flapping[match.rule] /\ match.rule \in Rules
    BY <1>2 DEF Recent
  <2>2. QED
    BY <1>1, <1>8, <2>1 DEF TypeInv, TypeOK
<1>10. QED
  BY <1>1, <1>4, <1>6, <1>7, <1>9 DEF TypeInv, TypeOK

(* So does every other step of the pipeline.                               *)
LEMMA TypeNext == TypeInv /\ [Next]_vars => TypeInv'
<1> SUFFICES ASSUME TypeInv, [Next]_vars PROVE TypeInv'
  OBVIOUS
<1>0. TypeOK /\ MaxTime \in Nat /\ Cap \in Nat /\ MaxEvents \in Nat /\ Base \in [Rules -> 0..Cap]
  BY PipelineAssumption DEF TypeInv
<1>1. ASSUME NEW r \in Rules, Calculate(r)
      PROVE  TypeInv'
  <2>1. PICK score \in Cumulative(current.chain, Base[r]) :
          /\ scores' = [scores EXCEPT ![current.chain] = [score |-> score, at |-> now]]
          /\ match' = [rule |-> r, score |-> Capped(score)]
    BY <1>1 DEF Calculate
  <2>2. Base[r] \in 0..Cap /\ current.chain \in Chains
    BY <1>0 DEF TypeOK
  <2>3. score \in 0..Cap
    BY <1>0, <2>1, <2>2, CumulativeCapped
  <2>4. Capped(score) \in 0..Cap
    BY <1>0, <2>3 DEF Capped
  <2>5. scores' \in [Chains -> [score : 0..Cap, at : 0..MaxTime \cup {Never}]]
    BY <1>0, <2>1, <2>2, <2>3 DEF TypeOK
  <2>6. QED
    BY <1>0, <1>1, <2>1, <2>4, <2>5 DEF TypeInv, TypeOK, Calculate, sinkVars, Numbers
<1>2. CASE ShouldAlert
  <2>1. CASE Raise
    BY <1>2, <2>1, RaiseTyped
  <2>2. CASE Reject
    BY <1>2, <2>2 DEF TypeInv, TypeOK, ShouldAlert, Reject, sinkVars, Numbers
  <2>3. CASE Suppress
    <3>1. /\ flapping' = [flapping EXCEPT ![match.rule] = Recent(match.rule)]
          /\ pc' = "match"
          /\ UNCHANGED <<now, scores, dedup, current, pending, match, taken, alerts, stored, announced>>
      BY <1>2, <2>3 DEF ShouldAlert, Suppress, sinkVars
    <3>2. Recent(match.rule) \subseteq flapping[match.rule] /\ match.rule \in Rules
      BY DEF Recent, TypeInv, TypeOK
    <3>3. flapping' = [r \in Rules |-> flapping'[r]]
          /\ \A r \in Rules : flapping'[r] \subseteq [n : Nat \ {0}, at : 0..MaxTime]
      BY <3>1, <3>2 DEF TypeInv, TypeOK
    <3>4. QED
      BY <3>1, <3>3 DEF TypeInv, TypeOK, Numbers
  <2>4. QED
    BY <1>2, <2>1, <2>2, <2>3 DEF ShouldAlert
<1>3. CASE Prune
  <2>1. /\ scores' = [c \in Chains |->
             IF scores[c].at # Never /\ now - scores[c].at >= ScoreLife
             THEN [score |-> 0, at |-> Never] ELSE scores[c]]
        /\ dedup' = [k \in Rules \X Sources |->
             IF dedup[k] # Never /\ now - dedup[k] >= 2 * DedupWindow
             THEN Never ELSE dedup[k]]
        /\ UNCHANGED <<now, flapping, pc, current, pending, match, taken, alerts, stored, announced>>
    BY <1>3 DEF Prune, sinkVars
  <2>2. [score |-> 0, at |-> Never] \in [score : 0..Cap, at : 0..MaxTime \cup {Never}]
    BY <1>0
  <2>3. scores' \in [Chains -> [score : 0..Cap, at : 0..MaxTime \cup {Never}]]
    BY <1>0, <2>1, <2>2 DEF TypeOK
  <2>4. dedup' \in [Rules \X Sources -> 0..MaxTime \cup {Never}]
    BY <1>0, <2>1 DEF TypeOK
  <2>5. QED
    BY <2>1, <2>3, <2>4 DEF TypeInv, TypeOK, Numbers
<1>4. CASE Tick
  BY <1>0, <1>4 DEF TypeInv, TypeOK, Tick, riskVars, sinkVars, Numbers
<1>5. ASSUME NEW s \in Sources, NEW c \in Chains, NEW matched \in SUBSET Rules, TakeEvent(s, c, matched)
      PROVE  TypeInv'
  <2>1. /\ UNCHANGED <<now, scores, dedup, flapping, match, alerts, stored, announced>>
        /\ taken < MaxEvents /\ taken' = taken + 1 /\ pc' = "match" /\ pending' = matched
        /\ current' = [src |-> s, chain |-> c]
    BY <1>5 DEF TakeEvent, riskVars, sinkVars
  <2>2. taken' \in 0..MaxEvents
    BY <1>0, <2>1 DEF TypeOK
  <2>3. current' \in [src : Sources, chain : Chains]
    BY <2>1
  <2>4. QED
    BY <2>1, <2>2, <2>3 DEF TypeInv, TypeOK, Numbers
<1>6. CASE EventDone \/ Persist \/ SpawnNotify \/ UNCHANGED vars
  <2>1. UNCHANGED <<now, scores, dedup, flapping, current, pending, match, taken, alerts>>
    BY <1>6 DEF EventDone, Persist, SpawnNotify, vars, riskVars, sinkVars
  <2>2. /\ pc' \in {"idle", "match", "decide", "persist", "notify"}
        /\ pc' \in {"persist", "notify"} => pc \in {"persist", "notify"}
        /\ stored' = stored \/ (pc = "persist" /\ stored' = stored \cup {Len(alerts)})
        /\ announced' = announced \/ (pc = "notify" /\ announced' = announced \cup {Len(alerts)})
    BY <1>6 DEF EventDone, Persist, SpawnNotify, vars, riskVars, sinkVars, TypeInv, TypeOK
  <2>3. QED
    BY <2>1, <2>2 DEF TypeInv, TypeOK, Numbers
<1>7. QED
  BY <1>1, <1>2, <1>3, <1>4, <1>5, <1>6 DEF Next, LoopStep

(* Scores stay within the cap of 1000, every stored and announced number   *)
(* is that of an alert: calculate() and decay(), the event loop.           *)
THEOREM TypeCorrect == Spec => []TypeOK
<1>1. Init => TypeInv
  <2>1. SUFFICES ASSUME Init PROVE TypeInv
    OBVIOUS
  <2>2. MaxTime \in Nat /\ Cap \in Nat /\ MaxEvents \in Nat
    BY PipelineAssumption
  <2>3. <<>> \in Seq(Alert)
    OBVIOUS
  <2>4. QED
    BY <2>1, <2>2, <2>3 DEF Init, TypeInv, TypeOK
<1>2. QED
  BY <1>1, TypeNext, PTL DEF Spec, TypeInv
=============================================================================
