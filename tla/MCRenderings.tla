------------------------------ MODULE MCRenderings ------------------------------
(* An instance of Renderings: "b" ends a sentence, and moments 0 and 1 are within the window. *)
EXTENDS Renderings, TLC

CONSTANTS r1, r2

Says(who, t, words) == [speaker |-> who, start |-> t, end |-> t + 1, text |-> words]
TheSegments == {Says("s", 0, <<"a">>), Says("s", 1, <<"b">>), Says("s", 3, <<"b">>),
                Says("u", 0, <<"a", "b">>), Says("u", 1, <<"b">>)}
RowSymmetry == Permutations({r1, r2})
================================================================================
