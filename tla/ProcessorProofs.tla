------------------------------ MODULE ProcessorProofs ------------------------------
(***************************************************************************)
(* Theorems about a processor's run, for any inputs, models and bounds,     *)
(* proved with TLAPS from what its operators compute (AlgorithmProofs).     *)
(***************************************************************************)
EXTENDS Processor, AlgorithmProofs

\* A run keeps to its phases, is over exactly when it has an outcome, and a day summary makes no
\* more than MaxPasses passes over its partial results.
THEOREM TypeCorrect == Spec => []TypeOK
<1>1. Init => TypeOK
  BY ProcessorAssumption DEF Init, TypeOK
<1>2. TypeOK /\ [Next]_vars => TypeOK'
  <2> SUFFICES ASSUME TypeOK, [Next]_vars PROVE TypeOK'
    OBVIOUS
  <2> USE DEF End, Fails, Goes, input, audio, talk
  <2>1. CASE Refuse
    BY <2>1 DEF Refuse, TypeOK
  <2>2. CASE LoseClaim
    BY <2>2 DEF LoseClaim, TypeOK
  <2>3. CASE Preprocess
    BY <2>3 DEF Preprocess, TypeOK
  <2>4. CASE Transcribe
    BY <2>4 DEF Transcribe, TypeOK
  <2>5. CASE Diarize
    BY <2>5 DEF Diarize, TypeOK
  <2>6. CASE Reconcile
    BY <2>6 DEF Reconcile, TypeOK
  <2>7. CASE Skip
    BY <2>7 DEF Skip, TypeOK
  <2>8. CASE Connect
    BY <2>8 DEF Connect, TypeOK
  <2>9. CASE Unanswered
    BY <2>9 DEF Unanswered, TypeOK
  <2>10. CASE Answer
    BY <2>10 DEF Answer, TypeOK
  <2>11. CASE Blank
    BY <2>11 DEF Blank, TypeOK
  <2>12. CASE Reduce
    <3>1. passes' \in 0 .. MaxPasses
      BY <2>12, ProcessorAssumption DEF Reduce, OutOfPasses, Summary, TypeOK
    <3> QED
      BY <2>12, <3>1 DEF Reduce, TypeOK
  <2>13. CASE Conclude
    BY <2>13 DEF Conclude, TypeOK
  <2>14. CASE UNCHANGED vars
    BY <2>14 DEF vars, TypeOK
  <2> QED
    BY <2>1, <2>2, <2>3, <2>4, <2>5, <2>6, <2>7, <2>8, <2>9, <2>10, <2>11, <2>12, <2>13, <2>14
       DEF Next
<1> QED
  BY <1>1, <1>2, PTL DEF Spec
--------------------------------------------------------------------------------
(* The prompts of a pass. *)

SpansOf(prompts) == [i \in DOMAIN prompts |-> <<prompts[i].first, prompts[i].last>>]
WellFormed(prompts) ==
  /\ prompts \in Seq(Range(prompts))
  /\ \A i \in DOMAIN prompts : prompts[i].first \in Int /\ prompts[i].last \in Int
Modest(prompts) == \A i \in DOMAIN prompts : prompts[i].load <= Budget \/ prompts[i].parts \in {1, 2}

\* What is prompted for is there, and no piece of it is larger than a prompt.
LEMMA SizesAre ==
  ASSUME lengths \in Seq(Nat), lengths # <<>>
  PROVE  /\ Sizes \in Seq(Nat) /\ Sizes # <<>>
         /\ kind \in {"analysis", "daily_summary"} => \A i \in DOMAIN Sizes : Sizes[i] <= Budget
         /\ kind \notin {"analysis", "daily_summary"} => Sizes = lengths
<1>1. Budget \in Nat /\ Prefix \in Nat /\ Prefix + 1 < Budget
  BY ProcessorAssumption
<1>2. CASE kind = "analysis"
  <2>1. Sizes \in Seq(0 .. Budget) /\ Sizes # <<>>
    BY <1>1, <1>2, PieceSizesAre DEF Sizes
  <2>2. Len(Sizes) \in Nat /\ DOMAIN Sizes = 1 .. Len(Sizes)
        /\ \A i \in DOMAIN Sizes : Sizes[i] \in 0 .. Budget
    BY <2>1, SequenceHas
  <2>3. Sizes \in Seq(Nat)
    <3>1. \A i \in 1 .. Len(Sizes) : Sizes[i] \in Nat
      BY <2>2
    <3> QED
      BY <2>1, <3>1, SequenceHas
  <2> QED
    BY <2>1, <2>2, <2>3, <1>1, <1>2
<1>3. CASE kind = "daily_summary"
  <2> DEFINE m == Len(lengths)
             least(x) == IF x <= Budget THEN x ELSE Budget
  <2>1. m \in Nat /\ DOMAIN lengths = 1 .. m /\ m # 0 /\ \A i \in 1 .. m : lengths[i] \in Nat
    OBVIOUS
  <2>2. \A i \in 1 .. m : Min({lengths[i], Budget}) = least(lengths[i])
    <3> SUFFICES ASSUME NEW i \in 1 .. m PROVE Min({lengths[i], Budget}) = least(lengths[i])
      OBVIOUS
    <3>1. lengths[i] \in Int /\ Budget \in Int
      BY <1>1, <2>1
    <3> QED
      BY <3>1, Extremes
  <2>3. Sizes = [i \in DOMAIN lengths |-> Min({lengths[i], Budget})]
    BY <1>3 DEF Sizes
  <2> HIDE DEF m
  <2>4. Sizes \in [1 .. m -> 0 .. Budget]
    BY <1>1, <2>1, <2>2, <2>3
  <2>5. Sizes \in Seq(0 .. Budget) /\ Len(Sizes) = m /\ Sizes # <<>>
    BY <2>1, <2>4, SequenceIs
  <2>6. DOMAIN Sizes = 1 .. m /\ \A i \in 1 .. m : Sizes[i] \in 0 .. Budget
    BY <2>4
  <2>7. Sizes \in Seq(Nat)
    <3>1. \A i \in 1 .. Len(Sizes) : Sizes[i] \in Nat
      BY <2>5, <2>6
    <3> QED
      BY <2>5, <3>1, SequenceHas
  <2> QED
    BY <2>5, <2>6, <2>7, <1>1, <1>3
<1>4. CASE kind \notin {"analysis", "daily_summary"}
  BY <1>4 DEF Sizes
<1> QED
  BY <1>2, <1>3, <1>4

LEMMA ChunksAre ==
  ASSUME lengths \in Seq(Nat), lengths # <<>>
  PROVE  LET n == Len(Sizes)
             gap == IF Summary THEN 2 ELSE 0
         IN  /\ Chunks \in Seq((1 .. n) \X (1 .. n)) /\ Chunks # <<>> /\ Tiles(Chunks, n)
             /\ kind \in {"analysis", "daily_summary"} =>
                  \A k \in DOMAIN Chunks :
                    Load(Sizes, gap, Chunks[k][1], Chunks[k][2]) <= Budget
<1> DEFINE n == Len(Sizes)
           gap == IF Summary THEN 2 ELSE 0
<1>1. /\ Sizes \in Seq(Nat) /\ Sizes # <<>>
      /\ kind \in {"analysis", "daily_summary"} => \A i \in DOMAIN Sizes : Sizes[i] <= Budget
      /\ kind \notin {"analysis", "daily_summary"} => Sizes = lengths
  BY SizesAre
<1>2. n \in Nat \ {0} /\ DOMAIN Sizes = 1 .. n
  BY <1>1
<1>3. CASE kind \in {"analysis", "daily_summary"}
  <2> DEFINE c == Cut(Sizes, Budget, gap, n)
  <2>1. Chunks = c
    BY <1>3 DEF Chunks, Summary
  <2>2. /\ c \in Seq((1 .. n) \X (1 .. n)) /\ c # <<>> /\ Tiles(c, n)
        /\ \A k \in DOMAIN c : c[k][1] = c[k][2] \/ Load(Sizes, gap, c[k][1], c[k][2]) <= Budget
    BY <1>1, <1>2, CutIs
  <2>3. \A i \in 1 .. n : Load(Sizes, gap, i, i) <= Budget
    <3>1. gap \in Int
      OBVIOUS
    <3> HIDE DEF gap
    <3> QED
      BY <3>1, <1>1, <1>2, <1>3, LoadOfOne
  <2> HIDE DEF c, n, gap
  <2>4. \A k \in DOMAIN c : c[k][1] \in 1 .. n
    BY <2>2
  <2> QED
    BY <2>1, <2>2, <2>3, <2>4 DEF n, gap
<1>4. CASE kind \notin {"analysis", "daily_summary"}
  <2>1. Chunks = [i \in 1 .. n |-> <<i, i>>]
    BY <1>1, <1>2, <1>4 DEF Chunks
  <2> HIDE DEF n
  <2>2. Chunks \in [1 .. n -> (1 .. n) \X (1 .. n)]
    BY <2>1
  <2>3. Chunks \in Seq((1 .. n) \X (1 .. n)) /\ Len(Chunks) = n /\ Chunks # <<>>
    BY <1>2, <2>2
  <2>4. Tiles(Chunks, n)
    BY <1>2, <2>1, <2>3 DEF Tiles
  <2> QED
    BY <2>3, <2>4, <1>4 DEF n
<1> QED
  BY <1>3, <1>4

LEMMA ChunkAsksAre ==
  ASSUME lengths \in Seq(Nat), lengths # <<>>
  PROVE  /\ WellFormed(ChunkAsks) /\ ChunkAsks # <<>>
         /\ Tiles(SpansOf(ChunkAsks), Len(Sizes))
         /\ kind \in {"analysis", "daily_summary"} => Modest(ChunkAsks)
<1> DEFINE n == Len(Sizes)
           gap == IF Summary THEN 2 ELSE 0
           c == Chunks
           m == Len(c)
<1>1. /\ c \in Seq((1 .. n) \X (1 .. n)) /\ c # <<>> /\ Tiles(c, n)
      /\ kind \in {"analysis", "daily_summary"} =>
           \A k \in DOMAIN c : Load(Sizes, gap, c[k][1], c[k][2]) <= Budget
  BY ChunksAre
<1>2. ChunkAsks = [k \in DOMAIN c |-> Ask(c[k][1], c[k][2], 0, Load(Sizes, gap, c[k][1], c[k][2]))]
  BY DEF ChunkAsks
<1> HIDE DEF n, gap, c
<1>3. /\ m \in Nat \ {0} /\ DOMAIN c = 1 .. m
      /\ \A k \in 1 .. m : c[k][1] \in Int /\ c[k][2] \in Int /\ c[k] = <<c[k][1], c[k][2]>>
  BY <1>1
<1> HIDE DEF m
<1>4. /\ DOMAIN ChunkAsks = 1 .. m /\ ChunkAsks = [k \in 1 .. m |-> ChunkAsks[k]]
      /\ \A k \in 1 .. m : /\ ChunkAsks[k].first = c[k][1] /\ ChunkAsks[k].last = c[k][2]
                           /\ ChunkAsks[k].load = Load(Sizes, gap, c[k][1], c[k][2])
  BY <1>2, <1>3 DEF Ask
<1>5. WellFormed(ChunkAsks) /\ ChunkAsks # <<>>
  <2>1. ChunkAsks \in [1 .. m -> Range(ChunkAsks)]
    BY <1>4 DEF Range
  <2>2. ChunkAsks \in Seq(Range(ChunkAsks)) /\ Len(ChunkAsks) = m
    <3> DEFINE R == Range(ChunkAsks)
    <3> HIDE DEF R
    <3> QED
      BY <1>3, <2>1 DEF R
  <2>3. ChunkAsks # <<>>
    BY <1>3, <2>2
  <2> QED
    BY <2>2, <2>3, <1>3, <1>4 DEF WellFormed
<1>6. SpansOf(ChunkAsks) = c
  <2>1. SpansOf(ChunkAsks) = [k \in 1 .. m |-> c[k]]
    BY <1>3, <1>4 DEF SpansOf
  <2>2. c = [k \in 1 .. m |-> c[k]]
    BY <1>1, <1>3
  <2> QED
    BY <2>1, <2>2
<1>7. kind \in {"analysis", "daily_summary"} => Modest(ChunkAsks)
  BY <1>1, <1>3, <1>4 DEF Modest
<1> QED
  BY <1>1, <1>5, <1>6, <1>7 DEF n
Drafts == [first : Int, last : Int, size : Nat]

\* A pass over partial results that cover 1 .. n asks for fewer, which cover it too.
LEMMA GroupAsksAre ==
  ASSUME done \in Seq(Drafts), Len(done) > 1, NEW n \in Int, Tiles(SpansOf(done), n)
  PROVE  LET to == GroupAsks(Groups)
         IN  /\ WellFormed(to) /\ to # <<>> /\ Len(to) < Len(done)
             /\ Tiles(SpansOf(to), n) /\ Modest(to)
<1> DEFINE m == Len(done)
           sizes == DoneSizes
           cap == IF Summary THEN Len(done) ELSE GroupCap
           g == GroupDrafts(sizes, Budget, cap)
           l == Len(g)
           to == GroupAsks(g)
           spans == SpansOf(done)
<1>1. /\ m \in Nat \ {0} /\ m > 1 /\ DOMAIN done = 1 .. m
      /\ \A i \in 1 .. m : done[i].first \in Int /\ done[i].last \in Int /\ done[i].size \in Nat
  <2>1. Len(done) \in Nat /\ DOMAIN done = 1 .. m /\ \A i \in 1 .. m : done[i] \in Drafts
    BY SequenceHas
  <2> HIDE DEF m
  <2>2. \A i \in 1 .. m : done[i].first \in Int /\ done[i].last \in Int /\ done[i].size \in Nat
    BY <2>1 DEF Drafts
  <2> QED
    BY <2>1, <2>2 DEF m
<1>2. cap \in Nat
  BY <1>1, ProcessorAssumption
<1>3. Groups = g
  BY DEF Groups
<1> HIDE DEF m, cap
<1>4. sizes \in Seq(Nat) /\ Len(sizes) = m /\ sizes # <<>>
  <2>1. DoneSizes \in [1 .. m -> Nat]
    BY <1>1 DEF DoneSizes
  <2> QED
    BY <1>1, <2>1, SequenceIs
<1>5. spans \in Seq(Int \X Int) /\ Len(spans) = m
      /\ \A i \in 1 .. m : spans[i] = <<done[i].first, done[i].last>>
  <2>1. spans = [i \in 1 .. m |-> <<done[i].first, done[i].last>>]
    BY <1>1 DEF SpansOf
  <2>2. spans \in [1 .. m -> Int \X Int]
    BY <1>1, <2>1
  <2> HIDE DEF spans
  <2> QED
    BY <1>1, <2>1, <2>2, SequenceIs
<1> HIDE DEF sizes, spans
<1>6. /\ g \in Seq((1 .. m) \X (1 .. m)) /\ g # <<>> /\ Tiles(g, m) /\ l < m
      /\ \A k \in DOMAIN g : \/ g[k][2] - g[k][1] \in {0, 1}
                             \/ Load(sizes, 0, g[k][1], g[k][2]) <= Budget
  BY <1>1, <1>2, <1>4, GroupDraftsIs
<1> HIDE DEF g
<1>7. /\ l \in Nat \ {0} /\ DOMAIN g = 1 .. l
      /\ \A k \in 1 .. l : g[k][1] \in 1 .. m /\ g[k][2] \in 1 .. m
  BY <1>6, SequenceHas
<1> HIDE DEF l
<1>8. to = [k \in 1 .. l |-> Ask(done[g[k][1]].first, done[g[k][2]].last, g[k][2] - g[k][1] + 1,
                                 Load(sizes, 0, g[k][1], g[k][2]))]
  BY <1>7 DEF GroupAsks, sizes
<1> HIDE DEF to
<1>9. /\ DOMAIN to = 1 .. l /\ to = [k \in 1 .. l |-> to[k]]
      /\ \A k \in 1 .. l : /\ to[k].first = done[g[k][1]].first /\ to[k].last = done[g[k][2]].last
                           /\ to[k].parts = g[k][2] - g[k][1] + 1
                           /\ to[k].load = Load(sizes, 0, g[k][1], g[k][2])
  BY <1>8 DEF Ask
<1>10. WellFormed(to) /\ to # <<>> /\ Len(to) = l
  <2>1. to \in [1 .. l -> Range(to)]
    BY <1>9 DEF Range
  <2>2. to \in Seq(Range(to)) /\ Len(to) = l /\ to # <<>>
    BY <1>7, <2>1, SequenceIs
  <2>3. \A k \in 1 .. l : to[k].first \in Int /\ to[k].last \in Int
    BY <1>1, <1>7, <1>9
  <2> QED
    BY <2>2, <2>3, <1>9 DEF WellFormed
<1>11. Tiles(SpansOf(to), n)
  <2>1. SpansOf(to) = [k \in 1 .. l |-> <<spans[g[k][1]][1], spans[g[k][2]][2]>>]
    <3>1. \A k \in 1 .. l : /\ to[k].first = spans[g[k][1]][1]
                            /\ to[k].last = spans[g[k][2]][2]
      <4> SUFFICES ASSUME NEW k \in 1 .. l
                   PROVE  to[k].first = spans[g[k][1]][1] /\ to[k].last = spans[g[k][2]][2]
        OBVIOUS
      <4>1. g[k][1] \in 1 .. m /\ g[k][2] \in 1 .. m
        BY <1>7
      <4>2. /\ spans[g[k][1]] = <<done[g[k][1]].first, done[g[k][1]].last>>
            /\ spans[g[k][2]] = <<done[g[k][2]].first, done[g[k][2]].last>>
        BY <4>1, <1>5
      <4> QED
        BY <4>2, <1>9
    <3> QED
      BY <3>1, <1>9 DEF SpansOf
  <2>2. Tiles([k \in DOMAIN g |-> <<spans[g[k][1]][1], spans[g[k][2]][2]>>], n)
    BY <1>1, <1>5, <1>6, TilesOfTiles, ZenonT(60) DEF spans
  <2> QED
    BY <2>1, <2>2, <1>7
<1>12. Modest(to)
  <2> SUFFICES ASSUME NEW k \in 1 .. l PROVE to[k].load <= Budget \/ to[k].parts \in {1, 2}
    BY <1>9 DEF Modest
  <2>1. CASE g[k][2] - g[k][1] \in {0, 1}
    BY <2>1, <1>7, <1>9
  <2>2. CASE Load(sizes, 0, g[k][1], g[k][2]) <= Budget
    BY <2>2, <1>9
  <2> QED
    BY <2>1, <2>2, <1>6, <1>7
<1> QED
  BY <1>3, <1>6, <1>10, <1>11, <1>12 DEF to, m

\* A prompt that is answered leaves what has been prompted for as it is.
LEMMA AnswerMoves ==
  ASSUME NEW d \in Seq(Drafts), NEW a, WellFormed(a), a # <<>>, NEW x \in Drafts,
         x.first = Head(a).first, x.last = Head(a).last
  PROVE  /\ SpansOf(Append(d, x)) \o SpansOf(Tail(a)) = SpansOf(d) \o SpansOf(a)
         /\ WellFormed(Tail(a)) /\ (Modest(a) => Modest(Tail(a)))
<1> DEFINE m == Len(d)
           n == Len(a)
           t == Tail(a)
           e == Append(d, x)
<1>1. /\ m \in Nat /\ n \in Nat \ {0} /\ DOMAIN d = 1 .. m /\ DOMAIN a = 1 .. n
      /\ DOMAIN t = 1 .. n - 1 /\ Len(t) = n - 1 /\ \A i \in 1 .. n - 1 : t[i] = a[i + 1]
      /\ e \in Seq(Drafts) /\ DOMAIN e = 1 .. m + 1 /\ Len(e) = m + 1 /\ e[m + 1] = x
      /\ \A i \in 1 .. m : e[i] = d[i]
      /\ Head(a) = a[1]
  BY DEF WellFormed
<1> HIDE DEF m, n, t, e
<1>2. WellFormed(t) /\ (Modest(a) => Modest(t))
  <2>1. \A i \in 1 .. n - 1 : i + 1 \in 1 .. n
    BY <1>1
  <2>2. t \in [1 .. n - 1 -> Range(t)]
    <3> DEFINE R == Range(a)
    <3>1. t \in Seq(R)
      <4>1. a \in Seq(R) /\ a # <<>>
        BY DEF WellFormed
      <4> HIDE DEF R
      <4> QED
        BY <4>1 DEF t
    <3>2. t \in [1 .. n - 1 -> R]
      <4> HIDE DEF R
      <4> QED
        BY <3>1, <1>1, SequenceHas
    <3> QED
      BY <3>2, <1>1 DEF Range
  <2>3. t \in Seq(Range(t))
    BY <1>1, <2>2, SequenceIs
  <2> QED
    BY <1>1, <2>1, <2>3, ZenonT(60) DEF WellFormed, Modest
<1>3. SpansOf(e) \o SpansOf(t) = SpansOf(d) \o SpansOf(a)
  <2>1. /\ SpansOf(e) = [i \in 1 .. m + 1 |-> <<e[i].first, e[i].last>>]
        /\ SpansOf(t) = [i \in 1 .. n - 1 |-> <<t[i].first, t[i].last>>]
        /\ SpansOf(d) = [i \in 1 .. m |-> <<d[i].first, d[i].last>>]
        /\ SpansOf(a) = [i \in 1 .. n |-> <<a[i].first, a[i].last>>]
    BY <1>1 DEF SpansOf
  <2> DEFINE se == SpansOf(e)
             st == SpansOf(t)
             sd == SpansOf(d)
             sa == SpansOf(a)
  <2> DEFINE V == Int \X Int
  <2>3. /\ \A i \in 1 .. n : <<a[i].first, a[i].last>> \in V
        /\ \A i \in 1 .. m : <<d[i].first, d[i].last>> \in V
        /\ \A i \in 1 .. m + 1 : <<e[i].first, e[i].last>> \in V
        /\ \A i \in 1 .. n - 1 : <<t[i].first, t[i].last>> \in V
    <3>1. \A i \in 1 .. m + 1 : e[i] \in Drafts
      BY <1>1, SequenceHas
    <3>2. \A i \in 1 .. n : a[i].first \in Int /\ a[i].last \in Int
      BY <1>1 DEF WellFormed
    <3>3. \A i \in 1 .. n - 1 : i + 1 \in 1 .. n
      BY <1>1
    <3>4. \A i \in 1 .. m : i \in 1 .. m + 1 /\ d[i] = e[i]
      BY <1>1
    <3> QED
      BY <3>1, <3>2, <3>3, <3>4, <1>1 DEF Drafts
  <2> HIDE DEF V, se, st, sd, sa
  <2>2. /\ se \in Seq(V) /\ st \in Seq(V) /\ sd \in Seq(V) /\ sa \in Seq(V)
        /\ Len(se) = m + 1 /\ Len(st) = n - 1 /\ Len(sd) = m /\ Len(sa) = n
    <3>1. /\ se \in [1 .. m + 1 -> V] /\ st \in [1 .. n - 1 -> V]
          /\ sd \in [1 .. m -> V] /\ sa \in [1 .. n -> V]
      BY <2>1, <2>3 DEF se, st, sd, sa
    <3>2. m \in Nat /\ m + 1 \in Nat /\ n - 1 \in Nat /\ n \in Nat
      BY <1>1
    <3> QED
      BY <3>1, <3>2, SequenceIs
  <2>4. /\ \A i \in 1 .. m : se[i] = sd[i]
        /\ se[m + 1] = sa[1]
        /\ \A i \in 1 .. n - 1 : st[i] = sa[i + 1]
    <3>1. /\ \A i \in 1 .. m + 1 : se[i] = <<e[i].first, e[i].last>>
          /\ \A i \in 1 .. n - 1 : st[i] = <<t[i].first, t[i].last>>
          /\ \A i \in 1 .. m : sd[i] = <<d[i].first, d[i].last>>
          /\ \A i \in 1 .. n : sa[i] = <<a[i].first, a[i].last>>
      BY <2>1 DEF se, st, sd, sa
    <3>2. /\ \A i \in 1 .. m : i \in 1 .. m + 1 /\ e[i] = d[i]
          /\ m + 1 \in 1 .. m + 1 /\ 1 \in 1 .. n
          /\ \A i \in 1 .. n - 1 : i + 1 \in 1 .. n /\ t[i] = a[i + 1]
      BY <1>1
    <3>3. e[m + 1].first = a[1].first /\ e[m + 1].last = a[1].last
      BY <1>1
    <3>4. \A i \in 1 .. m : se[i] = sd[i]
      BY <3>1, <3>2
    <3>5. se[m + 1] = sa[1]
      BY <3>1, <3>2, <3>3
    <3>6. \A i \in 1 .. n - 1 : st[i] = sa[i + 1]
      BY <3>1, <3>2, SMTT(30)
    <3> QED
      BY <3>4, <3>5, <3>6
  <2>5. /\ se \o st \in Seq(V) /\ sd \o sa \in Seq(V)
        /\ Len(se \o st) = m + n /\ Len(sd \o sa) = m + n
        /\ \A i \in 1 .. m + n : (se \o st)[i] = IF i <= m + 1 THEN se[i] ELSE st[i - (m + 1)]
        /\ \A i \in 1 .. m + n : (sd \o sa)[i] = IF i <= m THEN sd[i] ELSE sa[i - m]
    <3>1. (m + 1) + (n - 1) = m + n
      BY <1>1
    <3>2. /\ se \o st \in Seq(V) /\ Len(se \o st) = (m + 1) + (n - 1)
          /\ \A i \in 1 .. (m + 1) + (n - 1) :
               (se \o st)[i] = IF i <= m + 1 THEN se[i] ELSE st[i - (m + 1)]
      <4>1. /\ se \o st \in Seq(V) /\ Len(se \o st) = Len(se) + Len(st)
            /\ \A i \in 1 .. Len(se) + Len(st) :
                 (se \o st)[i] = IF i <= Len(se) THEN se[i] ELSE st[i - Len(se)]
        BY <2>2, ConcatProperties
      <4> QED
        BY <4>1, <2>2
    <3>3. /\ sd \o sa \in Seq(V) /\ Len(sd \o sa) = m + n
          /\ \A i \in 1 .. m + n : (sd \o sa)[i] = IF i <= m THEN sd[i] ELSE sa[i - m]
      BY <2>2, ConcatProperties
    <3> QED
      BY <3>1, <3>2, <3>3
  <2>6. \A i \in 1 .. m + n : (se \o st)[i] = (sd \o sa)[i]
    <3> SUFFICES ASSUME NEW i \in 1 .. m + n PROVE (se \o st)[i] = (sd \o sa)[i]
      OBVIOUS
    <3>4. m \in Nat /\ i \in Nat \ {0}
      BY <1>1
    <3>1. CASE i <= m
      BY <3>1, <2>4, <2>5, <1>1, SMTT(30)
    <3>2. CASE i = m + 1
      <4>1. i <= m + 1 /\ ~(i <= m) /\ i - m = 1
        BY <3>2, <3>4
      <4> QED
        BY <4>1, <3>2, <2>4, <2>5
    <3>3. CASE i > m + 1
      <4>1. i - (m + 1) \in 1 .. n - 1 /\ (i - (m + 1)) + 1 = i - m /\ ~(i <= m + 1) /\ ~(i <= m)
        BY <3>3, <1>1
      <4> QED
        BY <4>1, <2>4, <2>5
    <3>5. i <= m \/ i = m + 1 \/ i > m + 1
      BY <3>4
    <3> QED
      BY <3>1, <3>2, <3>3, <3>5
  <2>7. se \o st = sd \o sa
    BY <2>5, <2>6, SeqEqual
  <2> QED
    BY <2>7 DEF se, st, sd, sa
<1> QED
  BY <1>2, <1>3 DEF t, e
\* The inductive invariant: what is answered and asked is well formed, nothing is answered before
\* a run has begun, and the spans of the answers and of the prompts tile the input.
Covered == SpansOf(done) \o SpansOf(asks)
PromptsInv ==
  /\ WellFormed(asks) /\ done \in Seq(Drafts)
  /\ phase = "claimed" => done = <<>>
  /\ Covered # <<>> => Tiles(Covered, Len(Sizes))
  /\ kind # "translation" => Modest(asks)

LEMMA InputIs ==
  ASSUME TypeOK
  PROVE  /\ lengths \in Seq(Nat) /\ kind \in {"full", "analysis", "translation", "daily_summary"}
         /\ DraftSizes(kind) \subseteq Nat
BY ProcessorAssumption DEF TypeOK

LEMMA NoSpans ==
  ASSUME NEW prompts, WellFormed(prompts)
  PROVE  /\ SpansOf(prompts) \in Seq(Int \X Int) /\ (prompts # <<>> <=> SpansOf(prompts) # <<>>)
         /\ SpansOf(<<>>) = <<>>
         /\ SpansOf(prompts) \o SpansOf(<<>>) = SpansOf(prompts)
         /\ SpansOf(<<>>) \o SpansOf(prompts) = SpansOf(prompts)
<1> DEFINE s == SpansOf(prompts)
           m == Len(prompts)
<1>1. m \in Nat /\ DOMAIN prompts = 1 .. m /\ (m # 0 <=> prompts # <<>>)
  BY SequenceHas DEF WellFormed
<1> HIDE DEF m
<1>2. s \in [1 .. m -> Int \X Int]
  <2>1. \A i \in 1 .. m : <<prompts[i].first, prompts[i].last>> \in Int \X Int
    BY <1>1 DEF WellFormed
  <2> QED
    BY <1>1, <2>1 DEF SpansOf
<1>3. s \in Seq(Int \X Int) /\ (m # 0 <=> s # <<>>)
  <2> HIDE DEF s
  <2> QED
    BY <1>1, <1>2, SequenceIs
<1>4. SpansOf(<<>>) = <<>>
  BY DEF SpansOf
<1>5. s \o <<>> = s /\ <<>> \o s = s
  <2> HIDE DEF s
  <2> QED
    BY <1>3, ConcatEmptySeq
<1> QED
  BY <1>1, <1>3, <1>4, <1>5

LEMMA DraftsAreWellFormed ==
  ASSUME NEW d \in Seq(Drafts)
  PROVE  WellFormed(d)
<1>1. /\ d \in [1 .. Len(d) -> Drafts] /\ DOMAIN d = 1 .. Len(d) /\ Len(d) \in Nat
      /\ \A i \in 1 .. Len(d) : d[i] \in Drafts
  BY SequenceHas
<1>2. d \in [1 .. Len(d) -> Range(d)]
  BY <1>1 DEF Range
<1>3. d \in Seq(Range(d))
  BY <1>1, <1>2, SequenceIs
<1> QED
  BY <1>1, <1>3 DEF WellFormed, Drafts

LEMMA PromptsInvHolds == Spec => []PromptsInv
<1>1. Init => PromptsInv
  <2> SUFFICES ASSUME Init PROVE PromptsInv
    OBVIOUS
  <2>1. asks = <<>> /\ done = <<>>
    BY DEF Init
  <2>2. <<>> \in Seq(Drafts) /\ WellFormed(<<>>) /\ Modest(<<>>)
    BY DEF WellFormed, Modest
  <2>3. SpansOf(<<>>) \o SpansOf(<<>>) = <<>>
    BY <2>2, NoSpans
  <2> QED
    BY <2>1, <2>2, <2>3 DEF PromptsInv, Covered
<1>2. TypeOK /\ PromptsInv /\ [Next]_vars => PromptsInv'
  <2> SUFFICES ASSUME TypeOK, PromptsInv, [Next]_vars PROVE PromptsInv'
    OBVIOUS
  <2>1. ASSUME UNCHANGED <<kind, lengths, asks, done>>, phase' = "claimed" => phase = "claimed"
        PROVE  PromptsInv'
    <3>1. Sizes' = Sizes
      BY <2>1 DEF Sizes
    <3>2. Covered' = Covered /\ WellFormed(asks)' = WellFormed(asks) /\ Modest(asks)' = Modest(asks)
      BY <2>1 DEF Covered, SpansOf, WellFormed, Modest
    <3> QED
      BY <3>1, <3>2, <2>1 DEF PromptsInv
  <2>2. ASSUME UNCHANGED input
        PROVE  kind' = kind /\ lengths' = lengths /\ Sizes' = Sizes
    BY <2>2 DEF input, Sizes
  <2>3. CASE \/ Refuse \/ LoseClaim \/ Preprocess \/ Transcribe \/ Diarize \/ Reconcile
             \/ Skip \/ Unanswered \/ Blank \/ Conclude \/ UNCHANGED vars
    <3>1. UNCHANGED <<kind, lengths, asks, done>> /\ (phase' = "claimed" => phase = "claimed")
      BY <2>3 DEF Refuse, LoseClaim, Preprocess, Transcribe, Diarize, Reconcile, Skip, Unanswered,
                  Blank, Conclude, vars, input, talk, End, Fails, Goes
    <3> QED
      BY <3>1, <2>1
  <2>4. CASE Connect
    <3>1. CASE asks' = asks
      <4>1. UNCHANGED <<kind, lengths, asks, done>> /\ phase' # "claimed"
        BY <2>4, <3>1 DEF Connect, input, End, Fails, Goes
      <4> QED
        BY <4>1, <2>1
    <3>2. CASE asks' = ChunkAsks /\ phase' = "asking"
      <4>1. UNCHANGED <<kind, lengths, done>> /\ done = <<>> /\ lengths # <<>> /\ kind # "full"
            /\ Sizes' = Sizes
        BY <2>2, <2>4 DEF Connect, input, PromptsInv
      <4>2. /\ WellFormed(ChunkAsks) /\ ChunkAsks # <<>>
            /\ Tiles(SpansOf(ChunkAsks), Len(Sizes))
            /\ kind \in {"analysis", "daily_summary"} => Modest(ChunkAsks)
        BY <4>1, InputIs, ChunkAsksAre
      <4> HIDE DEF ChunkAsks
      <4>3. Covered' = SpansOf(ChunkAsks)
        <5>1. Covered' = SpansOf(<<>>) \o SpansOf(ChunkAsks)
          BY <3>2, <4>1 DEF Covered, SpansOf
        <5> QED
          BY <5>1, <4>2, NoSpans
      <4>4. WellFormed(asks)' /\ (kind' # "translation" => Modest(asks)')
        BY <3>2, <4>1, <4>2, InputIs DEF WellFormed, Modest
      <4> QED
        BY <3>2, <4>1, <4>2, <4>3, <4>4 DEF PromptsInv
    <3> QED
      BY <2>4, <3>1, <3>2 DEF Connect, Goes
  <2>5. CASE Answer
    <3>1. CASE UNCHANGED <<asks, done>>
      <4>1. UNCHANGED <<kind, lengths, asks, done>> /\ (phase' = "claimed" => phase = "claimed")
        BY <2>5, <3>1 DEF Answer, input, End
      <4> QED
        BY <4>1, <2>1
    <3>2. ASSUME NEW size \in DraftSizes(kind), asks' = Tail(asks), UNCHANGED phase,
                 done' = Append(done, [first |-> Head(asks).first, last |-> Head(asks).last,
                                       size |-> size])
          PROVE  PromptsInv'
      <4> DEFINE x == [first |-> Head(asks).first, last |-> Head(asks).last, size |-> size]
      <4>1. UNCHANGED <<kind, lengths>> /\ Sizes' = Sizes /\ phase = "asking" /\ asks # <<>>
        BY <2>2, <2>5 DEF Answer, input
      <4>2. x \in Drafts /\ x.first = Head(asks).first /\ x.last = Head(asks).last
        <5>1. 1 \in DOMAIN asks /\ Head(asks) = asks[1]
          BY <4>1 DEF PromptsInv, WellFormed
        <5>2. size \in Nat
          BY InputIs
        <5> QED
          BY <5>1, <5>2 DEF PromptsInv, WellFormed, Drafts
      <4>3. done' \in Seq(Drafts)
        <5> HIDE DEF x
        <5> QED
          BY <3>2, <4>2 DEF PromptsInv, x
      <4>4. Covered' = Covered /\ WellFormed(Tail(asks)) /\ (Modest(asks) => Modest(Tail(asks)))
        <5>1. done' = Append(done, x) /\ done \in Seq(Drafts) /\ WellFormed(asks)
          BY <3>2 DEF PromptsInv
        <5> HIDE DEF x
        <5>2. Covered' = SpansOf(Append(done, x)) \o SpansOf(Tail(asks))
          BY <3>2, <5>1 DEF Covered, SpansOf
        <5> QED
          BY <4>1, <4>2, <5>1, <5>2, AnswerMoves DEF Covered
      <4>5. WellFormed(asks)' /\ (kind' # "translation" => Modest(asks)')
        BY <3>2, <4>1, <4>4 DEF PromptsInv, WellFormed, Modest
      <4> QED
        BY <3>2, <4>1, <4>3, <4>4, <4>5 DEF PromptsInv
    <3> QED
      BY <2>5, <3>1, <3>2 DEF Answer
  <2>6. CASE Reduce
    <3>1. CASE UNCHANGED <<asks, done>>
      <4>1. UNCHANGED <<kind, lengths, asks, done>> /\ (phase' = "claimed" => phase = "claimed")
        BY <2>6, <3>1 DEF Reduce, input, End
      <4> QED
        BY <4>1, <2>1
    <3>2. CASE asks' = GroupAsks(Groups) /\ done' = <<>>
      <4> DEFINE to == GroupAsks(Groups)
      <4>1. UNCHANGED <<kind, lengths>> /\ Sizes' = Sizes /\ asks = <<>> /\ Len(done) > 1
        BY <2>2, <2>6 DEF Reduce, input
      <4>2. Covered = SpansOf(done) /\ Covered # <<>>
        <5>1. done \in Seq(Drafts) /\ done # <<>>
          BY <4>1 DEF PromptsInv
        <5> QED
          BY <5>1, <4>1, DraftsAreWellFormed, NoSpans DEF Covered
      <4>3. WellFormed(to) /\ to # <<>> /\ Tiles(SpansOf(to), Len(Sizes)) /\ Modest(to)
        <5>1. Tiles(SpansOf(done), Len(Sizes)) /\ done \in Seq(Drafts)
          BY <4>2 DEF PromptsInv
        <5>2. Len(Sizes) \in Int
          OBVIOUS
        <5> QED
          BY <4>1, <5>1, <5>2, GroupAsksAre
      <4> HIDE DEF to
      <4>4. Covered' = SpansOf(to)
        <5>1. Covered' = SpansOf(<<>>) \o SpansOf(to)
          BY <3>2 DEF Covered, SpansOf, to
        <5> QED
          BY <5>1, <4>3, NoSpans
      <4>5. WellFormed(asks)' /\ Modest(asks)' /\ done' \in Seq(Drafts)
        BY <3>2, <4>3 DEF WellFormed, Modest, to
      <4> QED
        BY <3>2, <4>1, <4>3, <4>4, <4>5 DEF PromptsInv
    <3> QED
      BY <2>6, <3>1, <3>2 DEF Reduce
  <2> QED
    BY <2>3, <2>4, <2>5, <2>6 DEF Next
<1> QED
  BY <1>1, <1>2, TypeCorrect, PTL DEF Spec

\* Whatever the sizes of the pieces and of the answers, the answers and the prompts of a pass tile
\* the input, and a prompt keeps to chunk_chars unless it is one partial result, or two.
THEOREM PromptsTile == Spec => []PromptsTileTheInput
<1>1. PromptsInv => PromptsTileTheInput
  BY DEF PromptsInv, PromptsTileTheInput, Covered, SpansOf, Modest
<1> QED
  BY <1>1, PromptsInvHolds, PTL

\* However large the partial results are, a pass over them asks for fewer.
THEOREM EveryPassShrinks == Spec => PassesShrink
<1>1. TypeOK /\ PromptsInv /\ [Next]_vars
        => [phase' = "asking" /\ done # <<>> /\ done' = <<>> => Len(asks') < Len(done)]_vars
  <2> SUFFICES ASSUME TypeOK, PromptsInv, Next, phase' = "asking", done # <<>>, done' = <<>>
               PROVE  Len(asks') < Len(done)
    OBVIOUS
  <2>1. CASE Reduce
    <3>1. /\ asks' = GroupAsks(Groups) /\ asks = <<>> /\ Len(done) > 1
          /\ done \in Seq(Drafts)
      BY <2>1 DEF Reduce, PromptsInv, End
    <3>2. Tiles(SpansOf(done), Len(Sizes))
      <4>1. Covered = SpansOf(done) /\ Covered # <<>>
        BY <3>1, DraftsAreWellFormed, NoSpans DEF Covered
      <4> QED
        BY <4>1 DEF PromptsInv
    <3>3. Len(Sizes) \in Int
      OBVIOUS
    <3> QED
      BY <3>1, <3>2, <3>3, GroupAsksAre
  <2>2. CASE Answer
    <3>1. done' = done \/ \E x : done' = Append(done, x)
      BY <2>2 DEF Answer
    <3> QED
      BY <3>1 DEF PromptsInv
  <2>3. CASE Next /\ ~Reduce /\ ~Answer
    <3>1. done' = done
      BY <2>3 DEF Next, Refuse, LoseClaim, Preprocess, Transcribe, Diarize, Reconcile, Skip, Connect,
                  Unanswered, Blank, Conclude, talk
    <3> QED
      BY <3>1
  <2> QED
    BY <2>1, <2>2, <2>3
<1> QED
  BY <1>1, TypeCorrect, PromptsInvHolds, PTL DEF Spec, PassesShrink
--------------------------------------------------------------------------------
(* The quotes of an analysis. *)

RawQuotes == [names : Nat, words : STRING, wrapped : BOOLEAN]

\* The filter keeps the first of equal quotes that are in the segment they name.
LEMMA QuotesOfIs ==
  ASSUME NEW quotes \in Seq(RawQuotes)
  PROVE  /\ \A q \in Range(QuotesOf(quotes)) : \E i \in DOMAIN quotes :
              q = Bare(quotes[i]) /\ Grounded(quotes[i])
         /\ Len(QuotesOf(quotes)) = Cardinality(Range(QuotesOf(quotes)))
         /\ \A i \in DOMAIN quotes : Grounded(quotes[i]) => Bare(quotes[i]) \in Range(QuotesOf(quotes))
<1> DEFINE bare == [i \in DOMAIN quotes |-> Bare(quotes[i])]
           n == Len(quotes)
           grounded == {i \in DOMAIN quotes : Grounded(quotes[i])}
           P == {i \in grounded : \A j \in grounded : j < i => bare[j] # bare[i]}
           X == {Bare(quotes[i]) : i \in DOMAIN quotes}
<1>1. n \in Nat /\ DOMAIN quotes = 1 .. n
  BY SequenceHas
<1> HIDE DEF n
<1>2. bare \in Seq(X) /\ DOMAIN bare = 1 .. n /\ \A i \in 1 .. n : bare[i] = Bare(quotes[i])
  <2>1. bare \in [1 .. n -> X]
    BY <1>1
  <2> HIDE DEF bare, X
  <2>2. bare \in Seq(X) /\ DOMAIN bare = 1 .. n
    BY <1>1, <2>1, SequenceIs
  <2> QED
    BY <1>1, <2>2 DEF bare
<1>3. QuotesOf(quotes) = Kept(bare, P)
  BY DEF QuotesOf
<1>4. grounded \in SUBSET (1 .. n) /\ P \in SUBSET grounded
  BY <1>1
<1>5. \A i, j \in P : bare[i] = bare[j] => i = j
  <2> SUFFICES ASSUME NEW i \in P, NEW j \in P, i # j PROVE bare[i] # bare[j]
    OBVIOUS
  <2>1. i < j \/ j < i
    BY <1>1
  <2> QED
    BY <2>1
<1>6. \A i \in grounded : \E j \in P : bare[j] = bare[i]
  <2> SUFFICES ASSUME NEW i \in grounded PROVE \E j \in P : bare[j] = bare[i]
    OBVIOUS
  <2> DEFINE S == {j \in grounded : bare[j] = bare[i]}
             m == Min(S)
  <2>1. S \in SUBSET (1 .. n) /\ S # {}
    BY <1>4
  <2>2. m \in S /\ \A j \in S : m <= j
    <3> HIDE DEF S
    <3> QED
      BY <1>1, <2>1, FirstExists
  <2> HIDE DEF m
  <2>3. \A j \in grounded : j < m => bare[j] # bare[m]
    <3> SUFFICES ASSUME NEW j \in grounded, j < m, bare[j] = bare[m] PROVE FALSE
      OBVIOUS
    <3>1. j \in S /\ j \in 1 .. n /\ m \in 1 .. n
      BY <2>1, <2>2
    <3> QED
      BY <2>2, <3>1
  <2> QED
    BY <2>2, <2>3
<1> HIDE DEF bare, grounded
<1>7. P \in SUBSET DOMAIN bare
  BY <1>2, <1>4
<1> HIDE DEF P, X
<1>8. /\ Range(Kept(bare, P)) = {bare[i] : i \in P}
      /\ Len(Kept(bare, P)) = Cardinality(Range(Kept(bare, P)))
  <2>1. bare \in Seq(X)
    BY <1>2
  <2>2. Range(Kept(bare, P)) = {bare[i] : i \in P}
    BY <2>1, <1>7, KeptIs
  <2>3. Len(Kept(bare, P)) = Cardinality(Range(Kept(bare, P)))
    BY <2>1, <1>5, <1>7, KeptOnce
  <2> QED
    BY <2>2, <2>3
<1>9. \A i \in grounded : i \in 1 .. n /\ Grounded(quotes[i])
  BY <1>1 DEF grounded
<1>10. \A i \in 1 .. n : Grounded(quotes[i]) => i \in grounded
  BY <1>1 DEF grounded
<1>11. \A q \in Range(Kept(bare, P)) : \E i \in DOMAIN quotes :
         q = Bare(quotes[i]) /\ Grounded(quotes[i])
  <2> SUFFICES ASSUME NEW q \in Range(Kept(bare, P))
               PROVE  \E i \in DOMAIN quotes : q = Bare(quotes[i]) /\ Grounded(quotes[i])
    OBVIOUS
  <2>1. PICK i \in P : q = bare[i]
    BY <1>8
  <2>2. i \in 1 .. n /\ Grounded(quotes[i])
    BY <1>4, <1>9
  <2> QED
    BY <2>1, <2>2, <1>1, <1>2
<1>12. ASSUME NEW i \in DOMAIN quotes, Grounded(quotes[i])
       PROVE  Bare(quotes[i]) \in Range(Kept(bare, P))
  <2>1. i \in 1 .. n /\ i \in grounded
    BY <1>1, <1>10, <1>12
  <2>2. PICK j \in P : bare[j] = bare[i]
    BY <1>6, <2>1
  <2> QED
    BY <2>1, <2>2, <1>2, <1>8
<1> QED
  BY <1>3, <1>8, <1>11, <1>12

\* The inductive invariant: there are no quotes before the end, and then they are grounded.
QuotesInv ==
  /\ phase # "ended" => quoted = <<>> /\ kept = <<>>
  /\ QuotesAreGrounded

LEMMA ConcludesGrounded ==
  ASSUME NEW quotes \in Seq(RawQuotes), \A q \in Range(QuotesOf(quotes)) : q.words # ""
  PROVE  LET k == QuotesOf(quotes)
         IN  /\ \A q \in Range(k) : q.names \in DOMAIN lengths /\ q.words \in Said(q.names)
             /\ Len(k) = Cardinality(Range(k))
             /\ \A q \in Range(quotes) :
                  q.names \in DOMAIN lengths /\ q.words \in Said(q.names) => Bare(q) \in Range(k)
<1> DEFINE k == QuotesOf(quotes)
<1>1. /\ \A q \in Range(k) : \E i \in DOMAIN quotes : q = Bare(quotes[i]) /\ Grounded(quotes[i])
      /\ Len(k) = Cardinality(Range(k))
      /\ \A i \in DOMAIN quotes : Grounded(quotes[i]) => Bare(quotes[i]) \in Range(k)
  BY QuotesOfIs
<1> HIDE DEF k
<1>2. ASSUME NEW q \in Range(k)
      PROVE  q.names \in DOMAIN lengths /\ q.words \in Said(q.names)
  <2>1. PICK i \in DOMAIN quotes : q = Bare(quotes[i]) /\ Grounded(quotes[i])
    BY <1>1
  <2>2. q.names = quotes[i].names /\ q.words = quotes[i].words
    BY <2>1 DEF Bare
  <2>3. q.words # ""
    BY DEF k
  <2> QED
    BY <2>1, <2>2, <2>3 DEF Grounded
<1>3. ASSUME NEW q \in Range(quotes), q.names \in DOMAIN lengths, q.words \in Said(q.names)
      PROVE  Bare(q) \in Range(k)
  <2>1. PICK i \in DOMAIN quotes : q = quotes[i]
    BY DEF Range
  <2> QED
    BY <2>1, <1>1, <1>3 DEF Grounded
<1> QED
  BY <1>1, <1>2, <1>3 DEF k

\* What an analysis quotes is word for word in the segment it is quoted from, is quoted once, and
\* no quote of the model that is there is lost.
THEOREM QuotesGrounded == Spec => []QuotesAreGrounded
<1>1. Init => QuotesInv
  BY DEF Init, QuotesInv, QuotesAreGrounded
<1>2. TypeOK /\ QuotesInv /\ [Next]_vars => QuotesInv'
  <2> SUFFICES ASSUME TypeOK, QuotesInv, [Next]_vars PROVE QuotesInv'
    OBVIOUS
  <2>1. CASE UNCHANGED vars
    BY <2>1 DEF vars, input, QuotesInv, QuotesAreGrounded, Grounded
  <2>2. ASSUME phase # "ended", UNCHANGED <<input, quoted, kept>>
        PROVE  QuotesInv'
    <3>1. quoted' = <<>> /\ kept' = <<>>
      BY <2>2 DEF QuotesInv
    <3>2. Range(<<>>) = {} /\ Cardinality({}) = 0 /\ Len(<<>>) = 0
      BY FS_EmptySet DEF Range
    <3> QED
      BY <3>1, <3>2 DEF QuotesInv, QuotesAreGrounded
  <2>3. CASE Conclude
    <3>1. CASE UNCHANGED <<quoted, kept>>
      BY <2>2, <2>3, <3>1 DEF Conclude
    <3>2. CASE quoted' \in Quotes /\ phase' = "ended"
               /\ (kind = "analysis" => kept' = QuotesOf(quoted'))
               /\ (kind = "analysis" /\ outcome' = "result" => \A q \in Range(kept') : q.words # "")
      <4>1. quoted' \in Seq(RawQuotes)
        BY <3>2, ProcessorAssumption DEF RawQuotes
      <4>2. kind' = kind /\ lengths' = lengths
        BY <2>3 DEF Conclude, input
      <4>3. QuotesAreGrounded'
        <5> SUFFICES ASSUME kind = "analysis", outcome' = "result" PROVE QuotesAreGrounded'
          BY <4>2 DEF QuotesAreGrounded
        <5>1. kept' = QuotesOf(quoted') /\ \A q \in Range(kept') : q.words # ""
          BY <3>2
        <5> DEFINE of == quoted'
        <5> HIDE DEF of
        <5> QED
          BY <4>1, <4>2, <5>1, ConcludesGrounded DEF QuotesAreGrounded, Grounded
      <4> QED
        BY <3>2, <4>3 DEF QuotesInv
    <3> QED
      BY <2>3, <3>1, <3>2 DEF Conclude, End, Summary
  <2>4. CASE Next /\ ~Conclude
    <3>1. phase # "ended" /\ UNCHANGED <<input, quoted, kept>>
      BY <2>4 DEF Next, Refuse, LoseClaim, Preprocess, Transcribe, Diarize, Reconcile, Skip, Connect,
                  Unanswered, Answer, Blank, Reduce
    <3> QED
      BY <2>2, <3>1
  <2> QED
    BY <2>1, <2>3, <2>4
<1>3. QuotesInv => QuotesAreGrounded
  BY DEF QuotesInv
<1> QED
  BY <1>1, <1>2, <1>3, TypeCorrect, PTL DEF Spec
--------------------------------------------------------------------------------
(* The replies. *)

\* The inductive invariant: the loaded model gives typed replies, and the last one has been read.
RepliesInv ==
  /\ model \in Models(kind, lengths)
  /\ reply # NoReply => taken = Payload(reply)

\* A reply is read as its last answer: the last object that fits the schema and that the marks put
\* outside every block of reasoning, and no draft of an open one but after a quoted close mark.
THEOREM RepliesAreRead == Spec => []ReplyIsTheAnswer
<1>1. Init => RepliesInv
  BY DEF Init, RepliesInv
<1>2. TypeOK /\ RepliesInv /\ [Next]_vars => RepliesInv'
  <2> SUFFICES ASSUME TypeOK, RepliesInv, [Next]_vars PROVE RepliesInv'
    OBVIOUS
  <2>1. CASE Answer
    BY <2>1 DEF Answer, input, RepliesInv
  <2>2. CASE ~Answer
    <3>1. UNCHANGED <<input, reply, taken>>
      BY <2>2 DEF Next, vars, talk, Refuse, LoseClaim, Preprocess, Transcribe, Diarize, Reconcile, Skip,
                  Connect, Unanswered, Blank, Reduce, Conclude
    <3> QED
      BY <3>1 DEF input, RepliesInv, NoReply
  <2> QED
    BY <2>1, <2>2
<1>3. TypeOK /\ RepliesInv => ReplyIsTheAnswer
  <2> SUFFICES ASSUME TypeOK, RepliesInv, reply # NoReply PROVE ReplyIsTheAnswer
    BY DEF ReplyIsTheAnswer
  <2>1. reply \in [parsed : Values, content : Values]
    <3>1. reply \in model
      BY DEF TypeOK
    <3>2. model \subseteq [parsed : Values, content : Values]
      BY ProcessorAssumption DEF TypeOK, RepliesInv
    <3> QED
      BY <3>1, <3>2
  <2>2. taken = Payload(reply)
    BY DEF RepliesInv
  <2> DEFINE A(f) == AnswersIn(reply[f])
             answers(f) == {[field |-> f, place |-> Max(A(f)), fits |-> TRUE] : i \in A(f)}
  <2>3. Range(taken) = IF answers("parsed") # {} THEN answers("parsed") ELSE answers("content")
    BY <2>1, <2>2, PayloadIs
  <2>4. ASSUME NEW c \in Range(taken), reply[c.field].is = "text"
        PROVE  DraftsOnlyAfterQuoting(reply[c.field].text, c.place)
    <3>1. PICK f \in {"parsed", "content"} : A(f) # {} /\ c.field = f /\ c.place = Max(A(f))
      BY <2>3
    <3> DEFINE text == reply[f].text
    <3>2. text \in Seq(Tokens)
      BY <2>1, <2>4, <3>1 DEF Values, Texts
    <3>3. A(f) = {i \in DOMAIN text : text[i].is = "object" /\ text[i].fits /\ ~Thought(text, i)}
      BY <2>4, <3>1 DEF AnswersIn
    <3> HIDE DEF A, text
    <3>4. A(f) \in SUBSET (1 .. Len(text)) /\ Len(text) \in Nat
      BY <3>2, <3>3
    <3>5. Max(A(f)) \in A(f)
      BY <3>1, <3>4, LastExists
    <3>6. c.place \in DOMAIN text /\ ~InsideReasoning(text, c.place)
      BY <3>1, <3>2, <3>3, <3>5, InsideReasoningIsThought
    <3> QED
      BY <3>1, <3>2, <3>6, DraftsArePassedOver DEF text
  <2> QED
    BY <2>3, <2>4 DEF ReplyIsTheAnswer
<1> QED
  BY <1>1, <1>2, <1>3, TypeCorrect, PTL DEF Spec
--------------------------------------------------------------------------------
(* The transcript. *)

\* Segments as they are merged: typed, and none, nor a word of one, ends before it starts.
InTime(segments) ==
  /\ segments \in Seq(Segments)
  /\ \A n \in DOMAIN segments : WordsRun(segments[n]) /\ segments[n].start <= segments[n].end

\* _convert_segment: what is left of a valid transcription can be merged.
LEMMA ConvertedIs ==
  ASSUME NEW raw \in Seq(Segments), Valid(raw)
  PROVE  InTime(Converted(raw))
<1>1. /\ Len(raw) \in Nat /\ DOMAIN raw = 1 .. Len(raw)
      /\ \A n \in 1 .. Len(raw) : raw[n] \in Segments
  BY SequenceHas
<1>2. ASSUME NEW n \in DOMAIN raw
      PROVE  Converted(raw)[n] \in Segments /\ WordsRun(Converted(raw)[n])
             /\ Converted(raw)[n].start <= Converted(raw)[n].end
  <2> DEFINE words == raw[n].words
             P == {j \in DOMAIN words : words[j].timed}
             c == Converted(raw)[n]
  <2>1. /\ words \in Seq(WordTimings) /\ raw[n] \in Segments
        /\ raw[n].start \in Int /\ raw[n].end \in Int /\ raw[n].start < raw[n].end
    BY <1>1 DEF Segments, Valid
  <2>2. \A j \in P : words[j].start <= words[j].end
    <3>1. \A j \in DOMAIN words : words[j] \in Range(words)
      BY DEF Range
    <3> QED
      BY <3>1 DEF Valid
  <2>3. c = [raw[n] EXCEPT !.words = Kept(words, P)]
    BY DEF Converted
  <2>4. P \in SUBSET DOMAIN words
    OBVIOUS
  <2> HIDE DEF P, c, words
  <2>5. /\ Kept(words, P) \in Seq(WordTimings)
        /\ \A k \in DOMAIN Kept(words, P) :
             Kept(words, P)[k] = words[Ascending(P)[k]] /\ Ascending(P)[k] \in P
    BY <2>1, <2>4, KeptIs
  <2>6. c \in Segments /\ c.words = Kept(words, P) /\ c.start = raw[n].start /\ c.end = raw[n].end
    BY <2>1, <2>3, <2>5 DEF Segments
  <2>7. WordsRun(c)
    BY <2>2, <2>5, <2>6 DEF WordsRun
  <2>8. c.start <= c.end
    BY <2>1, <2>6
  <2> QED
    BY <2>6, <2>7, <2>8 DEF c
<1>3. DOMAIN Converted(raw) = 1 .. Len(raw) /\ Converted(raw) = [n \in 1 .. Len(raw) |-> Converted(raw)[n]]
  BY <1>1 DEF Converted
<1>4. Converted(raw) \in Seq(Segments)
  <2>1. Converted(raw) \in [1 .. Len(raw) -> Segments]
    BY <1>1, <1>2, <1>3
  <2> QED
    BY <1>1, <2>1, SequenceIs
<1> QED
  BY <1>1, <1>2, <1>3, <1>4 DEF InTime

\* The inductive invariant: what is to be merged is fit for it, from the stage that has made it to
\* the stage that merges it.
MergeInv ==
  kind = "full" =>
    /\ phase # "asking"
    /\ phase \in {"diarizing", "merging"} => InTime(heard)
    /\ phase = "merging" => TurnsGiven(turns)
    /\ outcome = "result" => Faithful(rows, heard, turns)

\* The merged transcript has every word that was heard once, in the order of its time, under the
\* speaker heard longest during it, punctuation with the word before it, and is flagged exactly
\* when two speakers talk during one of its words.
THEOREM MergeFaithful == Spec => []MergeIsFaithful
<1>1. Init => MergeInv
  BY DEF Init, MergeInv
<1>2. TypeOK /\ MergeInv /\ [Next]_vars => MergeInv'
  <2> SUFFICES ASSUME TypeOK, MergeInv, [Next]_vars PROVE MergeInv'
    OBVIOUS
  <2>0. kind' = kind
    BY DEF Next, vars, input, Refuse, LoseClaim, Preprocess, Transcribe, Diarize, Reconcile, Skip,
           Connect, Unanswered, Answer, Blank, Reduce, Conclude
  <2> SUFFICES ASSUME kind = "full" PROVE MergeInv'
    BY <2>0 DEF MergeInv
  <2>1. CASE UNCHANGED vars
    BY <2>1 DEF vars, input, audio, MergeInv
  <2>2. CASE Refuse \/ LoseClaim
    BY <2>2 DEF Refuse, LoseClaim, End, input, audio, MergeInv
  <2>3. CASE Preprocess
    BY <2>3 DEF Preprocess, End, Fails, Goes, TypeOK, input, audio, MergeInv
  <2>4. CASE Transcribe
    <3>1. CASE Fails /\ UNCHANGED heard
      BY <2>4, <3>1 DEF Transcribe, Fails, End, input, MergeInv
    <3>2. ASSUME NEW raw \in Transcriptions,
                 IF Valid(raw) THEN Goes("diarizing") /\ heard' = Converted(raw)
                 ELSE End("permanent") /\ UNCHANGED heard
          PROVE  MergeInv'
      <4>1. raw \in Seq(Segments)
        BY ProcessorAssumption
      <4>2. CASE Valid(raw)
        <5>1. InTime(heard') /\ phase' = "diarizing" /\ outcome' = "running"
          BY <2>4, <3>2, <4>1, <4>2, ConvertedIs DEF Transcribe, Goes, TypeOK
        <5> QED
          BY <5>1 DEF MergeInv
      <4>3. CASE ~Valid(raw)
        BY <3>2, <4>3 DEF End, MergeInv
      <4> QED
        BY <4>2, <4>3
    <3> QED
      BY <2>4, <3>1, <3>2 DEF Transcribe
  <2>5. CASE Diarize
    <3>1. CASE Fails /\ UNCHANGED turns
      BY <2>5, <3>1 DEF Diarize, Fails, End, input, MergeInv
    <3>2. ASSUME NEW raw \in Diarizations, Goes("merging"), turns' = raw
          PROVE  MergeInv'
      <4>1. TurnsGiven(turns')
        BY <3>2, ProcessorAssumption DEF TurnsGiven
      <4>2. InTime(heard') /\ phase' = "merging" /\ outcome' = "running"
        BY <2>5, <3>2 DEF Diarize, Goes, TypeOK, MergeInv
      <4> QED
        BY <4>1, <4>2 DEF MergeInv
    <3>3. CASE End("permanent")
      BY <3>3 DEF End, MergeInv
    <3> QED
      BY <2>5, <3>1, <3>2, <3>3 DEF Diarize
  <2>6. CASE Reconcile
    <3>1. /\ InTime(heard) /\ TurnsGiven(turns) /\ rows' = MergeTranscript(heard, turns)
          /\ heard' = heard /\ turns' = turns /\ phase' = "ended"
      BY <2>6 DEF Reconcile, End, MergeInv
    <3>2. Faithful(MergeTranscript(heard, turns), heard, turns)
      BY <3>1, MergeTranscriptIsFaithful DEF InTime
    <3> QED
      BY <3>1, <3>2 DEF MergeInv
  <2>7. CASE Skip \/ Connect \/ Unanswered \/ Answer \/ Blank \/ Reduce \/ Conclude
    BY <2>7 DEF Skip, Connect, Unanswered, Answer, Blank, Reduce, Conclude, MergeInv
  <2> QED
    BY <2>1, <2>2, <2>3, <2>4, <2>5, <2>6, <2>7 DEF Next
<1>3. MergeInv => MergeIsFaithful
  BY DEF MergeInv, MergeIsFaithful
<1> QED
  BY <1>1, <1>2, <1>3, TypeCorrect, PTL DEF Spec
================================================================================
