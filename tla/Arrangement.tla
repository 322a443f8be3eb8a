------------------------------ MODULE Arrangement ------------------------------
(***************************************************************************)
(* A finite set put in order, as sorted() and the filters of the processing *)
(* modules leave it, and a row of places cut into runs.                     *)
(***************************************************************************)
EXTENDS Integers, Sequences, FiniteSets

\* The members of S in the order that `before` gives them.
Arranged(S, before(_, _)) ==
  CHOOSE s \in [1 .. Cardinality(S) -> S] :
    \A i, j \in DOMAIN s : i < j => before(s[i], s[j])
Ascending(S) == Arranged(S, <)

\* The items of s at the places P, in their order: what a filter keeps.
Kept(s, P) == LET at == Ascending(P) IN [k \in DOMAIN at |-> s[at[k]]]

\* 1 .. n cut at the places where a run starts, each run as <<first, last>>.
Runs(starts, n) ==
  LET at == Ascending(starts)
      last(k) == IF k = Len(at) THEN n ELSE at[k + 1] - 1
  IN [k \in DOMAIN at |-> <<at[k], last(k)>>]
\* Spans follow one another over 1 .. n, without a gap and without a place twice.
Tiles(spans, n) ==
  /\ spans[1][1] = 1 /\ spans[Len(spans)][2] = n
  /\ \A i \in DOMAIN spans : /\ spans[i][1] <= spans[i][2]
                             /\ i > 1 => spans[i][1] = spans[i - 1][2] + 1
================================================================================
