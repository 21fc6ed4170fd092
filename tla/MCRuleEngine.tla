----------------------------- MODULE MCRuleEngine -----------------------------
(* The instance of RuleEngine on which the watcher is examined: two rules   *)
(* and one event of which both conditions are true.                         *)
EXTENDS RuleEngine

CONSTANTS f1, f2, i1, i2, c1, c2

TwoFiles == {f1, f2}
OneDir == <<"rules">>
InOneDir == [f \in TwoFiles |-> "rules"]

Plainly(i, main) ==
  [id |-> i, enabled |-> TRUE, main |-> main, ands |-> {}, ors |-> {}, nots |-> {},
   suppressions |-> {}, base |-> 40, confidence |-> <<9, 10>>, multipliers |-> <<>>]
FewRules == {Plainly(i1, c1), [Plainly(i2, c2) EXCEPT !.ors = {c1, c2}, !.nots = {c1}]}

TwoParts == {"process", "payload"}
PartOfCond == [c \in {c1, c2} |-> IF c = c1 THEN "process" ELSE "payload"]
OneEvent == {[parts |-> TwoParts, truth |-> [c \in {c1, c2} |-> TRUE]]}
=============================================================================
