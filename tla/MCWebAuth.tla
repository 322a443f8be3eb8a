------------------------------- MODULE MCWebAuth -------------------------------
(* Instances of WebAuth. *)
EXTENDS WebAuth

CONSTANTS r1, r2, s1, s2, c1, c2

Two == {r1, r2}
Tokens == {s1, s2}
Browsers == {c1, c2}
================================================================================
