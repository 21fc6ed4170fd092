--------------------------- MODULE MCAlertPipeline ---------------------------
(* Instance of AlertPipeline for TLC: r1 alerts only on an accumulated     *)
(* score, r2 on its own.                                                   *)
EXTENDS AlertPipeline, TLC

CONSTANTS r1, r2

TwoRules == {r1, r2}
TwoBases == [r \in TwoRules |-> IF r = r1 THEN 2 ELSE 4]
Symmetry == Permutations(Sources) \cup Permutations(Chains)
=============================================================================
