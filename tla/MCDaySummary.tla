----------------------------- MODULE MCDaySummary ------------------------------
(* The summary of a day on small instances. *)
EXTENDS DaySummary, TLC

Symmetry == Permutations(Recordings) \cup Permutations(Workers)
================================================================================
