----------------------------- MODULE MCAnalysis -----------------------------
(***************************************************************************)
(* Instance of Analysis for TLC: two rule files and two rules, three       *)
(* response commands and users, four events to enrich, two callers of the  *)
(* AI engine, three writers of the event store.                            *)
(***************************************************************************)
EXTENDS Analysis

CONSTANTS
  f1, f2, i1, i2, c1, c2,       \* rule files, rules, conditions
  ip, w1, w2, w3,               \* an address; writers of the event store
  auto, one, quorum, u1, u2, u3 \* response commands and users

-----------------------------------------------------------------------------
(* Rules i1 in two versions, one of them with every kind of condition, and *)
(* i2, off; events that lack parts or make any of the conditions true.     *)
TwoFiles == {f1, f2}
TwoDirs == <<"rules", "extra">>
InRules == [f \in TwoFiles |-> "rules"]
Rule(i, main) ==
  [id |-> i, enabled |-> TRUE, main |-> main, ands |-> {}, ors |-> {}, nots |-> {},
   suppressions |-> {}, base |-> 40, confidence |-> <<9, 10>>, multipliers |-> <<>>]
SomeRules ==
  {[Rule(i1, c1) EXCEPT !.multipliers = <<[cond |-> c1, factor |-> <<3, 2>>],
                                          [cond |-> c2, factor |-> <<5, 1>>]>>],
   [Rule(i1, c1) EXCEPT !.ands = {c1}, !.suppressions = {c2},
                        !.multipliers = <<[cond |-> c2, factor |-> <<1, 2>>]>>],
   [Rule(i2, c2) EXCEPT !.ors = {c1, c2}, !.nots = {c1}, !.enabled = FALSE]}
TwoParts == {"process", "payload"}
PartOfCond == [c \in {c1, c2} |-> IF c = c1 THEN "process" ELSE "payload"]
SomeRuleEvents ==
  {e \in [parts : SUBSET TwoParts, truth : [{c1, c2} -> BOOLEAN]] :
     \A c \in {c1, c2} : e.truth[c] => PartOfCond[c] \in e.parts}

SomeEvents ==
  {[kind |-> "network", ip |-> ip, hash |-> TRUE, url |-> FALSE, risk |-> 2],
   [kind |-> "network", ip |-> ip, hash |-> FALSE, url |-> FALSE, risk |-> 60],
   [kind |-> "network", ip |-> None, hash |-> FALSE, url |-> FALSE, risk |-> 2],
   [kind |-> "browser", ip |-> None, hash |-> TRUE, url |-> TRUE, risk |-> 10]}

SomeFacts ==
  [abuseipdb |-> {[score |-> 60, reports |-> 20], [score |-> 30, reports |-> 0]},
   shodan |-> {[ports |-> {22, 23}, vulns |-> 40], [ports |-> {80}, vulns |-> 0]},
   otx |-> {[pulses |-> 60, reputation |-> -3, hits |-> 0, malware |-> 1],
            [pulses |-> 0, reputation |-> 0, hits |-> 1, malware |-> 0]},
   greynoise |-> {[class |-> "malicious", named |-> TRUE], [class |-> "benign", named |-> FALSE]},
   virustotal |-> {[malicious |-> 3, bad |-> 4, total |-> 8], [malicious |-> 0, bad |-> 0, total |-> 0]},
   urlhaus |-> {[online |-> TRUE, threat |-> TRUE, executable |-> FALSE],
                [online |-> FALSE, threat |-> TRUE, executable |-> TRUE]}]

SomeIocFiles ==
  {[kind |-> "csv", readable |-> TRUE,
    rows |-> {[kind |-> "ip", indicator |-> ip, risk |-> None, fields |-> 3],
              [kind |-> "ip", indicator |-> ip, risk |-> 90, fields |-> 2]}],
   [kind |-> "stix", readable |-> TRUE, rows |-> {[kind |-> "ip", indicator |-> ip, name |-> "high"]}],
   [kind |-> "stix", readable |-> FALSE, rows |-> {[kind |-> "ip", indicator |-> ip, name |-> "critical"]}]}

AllKeys == {"abuseipdb", "shodan", "otx", "greynoise", "virustotal"}
SomeKeys == {AllKeys, {"otx"}, {}}

(* Two prompts with one key, and one that is cut inside a character.       *)
SomePrompts == {"chain", "chain2", "alert", "torn"}
FirstBytes == [chain |-> "c", chain2 |-> "c", alert |-> "a", torn |-> "t"]
Bounds == [chain |-> 1, chain2 |-> 1, alert |-> 2, torn |-> 2]

ThreeCommands == {auto, one, quorum}
ThreePeople == {u1, u2, u3}
SomeTiers ==
  [c \in ThreeCommands |->
     IF c = auto THEN "T1Auto" ELSE IF c = one THEN "T2Confirm" ELSE "T3Quorum"]
ShortLives == [T1Auto |-> 0, T2Confirm |-> 1, T3Quorum |-> 1, T4BreakGlass |-> 1]

Row(i, t) ==
  [id |-> i, time |-> t, type |-> IF i = 2 THEN "network" ELSE "process", source |-> "netlink",
   parents |-> IF i = 3 THEN {[name |-> "sh", pid |-> 1]} ELSE {},
   severity |-> i % 2, risk |-> 10 * i, tags |-> {"mitre"}, words |-> {"sshd"}, host |-> "host",
   process |-> IF i = 1 THEN None ELSE [name |-> "sshd", pid |-> 12],
   correlation |-> None, flow |-> None, payload |-> IF i = 2 THEN "connection" ELSE None]

(* One event has no timestamp (NoTime), the other two have the same.       *)
Untimed == -1
ThreeRows == {Row(1, Untimed), Row(2, 0), Row(3, 0)}
ThreeWriters == {w1, w2, w3}
SomeBatches ==
  [w \in ThreeWriters |->
     IF w = w1 THEN <<Row(1, Untimed), Row(2, 0)>> ELSE IF w = w2 THEN <<Row(2, 0)>> ELSE <<Row(3, 0)>>]
OnePolicy == {[types |-> {"process", "network"}, age |-> 0, count |-> 1]}
=============================================================================
