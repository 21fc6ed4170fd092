---------------------------- MODULE MCCorrelation ----------------------------
(* Instance of Correlation for TLC: processes and sources are interchangeable. *)
EXTENDS Correlation, TLC

Symmetry == Permutations(Pids) \cup Permutations(EventSources)
=============================================================================
