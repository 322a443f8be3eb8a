--------------------------------- MODULE Batches ---------------------------------
(***************************************************************************)
(* How an input is cut into prompts: the pieces of a transcript or of a day *)
(* into chunks, and the partial results of a pass into groups.  Sizes are   *)
(* numbers of characters and a batch is the span <<first, last>> of what it *)
(* holds.                                                                   *)
(***************************************************************************)
EXTENDS Arrangement, SequencesExt

\* The characters of items i to j, with a gap between two.
Load(sizes, gap, i, j) == FoldFunction(+, 0, [k \in i .. j |-> sizes[k]]) + gap * (j - i)

\* Plausible bug: a batch is closed once it has outgrown the budget.
CutLate(sizes, budget, gap, cap) ==
  LET start[i \in DOMAIN sizes] ==
        IF i = 1 THEN 1
        ELSE LET b == start[i - 1]
             IN IF Load(sizes, gap, b, i - 1) <= budget /\ i - b < cap THEN b ELSE i
  IN Runs({i \in DOMAIN sizes : start[i] = i}, Len(sizes))
\* Consecutive items: a batch is closed when another item would outgrow the budget, or at cap items.
Cut(sizes, budget, gap, cap) ==
  LET start[i \in DOMAIN sizes] ==
        IF i = 1 THEN 1
        ELSE LET b == start[i - 1]
             IN IF Load(sizes, gap, b, i) <= budget /\ i - b < cap THEN b ELSE i
  IN Runs({i \in DOMAIN sizes : start[i] = i}, Len(sizes))

\* Items two by two.
Pairs(n) == [k \in 1 .. (n + 1) \div 2 |-> <<2 * k - 1, Min({2 * k, n})>>]

\* Plausible bug: each result that is too large is reduced by itself.
GroupDraftsBySize(sizes, budget, cap) == Cut(sizes, budget, 0, cap)
\* _group_drafts of the analysis and of the day summary, which has no cap: results that are too
\* large to share a prompt are paired all the same.
GroupDrafts(sizes, budget, cap) ==
  LET groups == Cut(sizes, budget, 0, cap)
  IN IF Len(groups) = Len(sizes) THEN Pairs(Len(sizes)) ELSE groups

\* chunk_transcript: a segment takes the parts of its text that fit beside its prefix, one at least.
Parts(length, room) ==
  LET n == Max({1, (length + room - 1) \div room})
  IN [k \in 1 .. n |-> IF k < n THEN room ELSE length - (n - 1) * room]
PieceSizes(lengths, prefix, budget) ==
  LET room == budget - prefix - 1
      sized(length) == [k \in DOMAIN Parts(length, room) |-> prefix + Parts(length, room)[k] + 1]
  IN FlattenSeq([i \in DOMAIN lengths |-> sized(lengths[i])])
================================================================================
