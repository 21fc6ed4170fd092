------------------------------ MODULE MCEventBus ------------------------------
(* Instances of EventBus for TLC.                                            *)
EXTENDS EventBus, TLC

CONSTANTS p1, p2, s1, s2, tA, procStar

(* s1 lists a type next to "*" and so is registered twice for it; s2 lists *)
(* a prefix pattern, registered where "*" is but matching nothing.         *)
OverlapPatterns == (s1 :> <<procStar, Star>>) @@ (s2 :> <<tA>>)
OneSource == (s1 :> {p1, p2}) @@ (s2 :> {p1})
TwoAndOne == (p1 :> 2) @@ (p2 :> 1)

(* The registered-twice subscriber alone; its filter accepts both sources. *)
OnlyTwice == s1 :> <<procStar, Star>>
OnlyBoth == s1 :> {p1, p2}

=============================================================================
