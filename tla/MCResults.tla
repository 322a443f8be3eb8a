------------------------------- MODULE MCResults -------------------------------
(* Instances of Results. *)
EXTENDS Results

CONSTANTS t1, t2

OneTab == {t1}
TwoTabs == {t1, t2}

OfAnalysis == [t \in OneTab |-> {"analysis"}]
OfMixed == [t \in TwoTabs |-> IF t = t1 THEN {"words", "rows"} ELSE {"analysis"}]
================================================================================
