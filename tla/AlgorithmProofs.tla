----------------------------- MODULE AlgorithmProofs -----------------------------
(***************************************************************************)
(* What the pure operators of a processor compute, for inputs of any size:  *)
(* sets put in order, prompts, replies, the transcript and its sentences.   *)
(***************************************************************************)
EXTENDS Merge, Replies, Batches, Sentences, FiniteSetTheorems, SequenceTheorems, WellFoundedInduction, TLAPS

\* A sequence is a function of its places.
LEMMA SequenceIs ==
  ASSUME NEW X, NEW m \in Nat, NEW s \in [1 .. m -> X]
  PROVE  s \in Seq(X) /\ Len(s) = m /\ (m # 0 <=> s # <<>>)
<1>1. s \in Seq(X) /\ Len(s) = m
  OBVIOUS
<1> QED
  BY <1>1

LEMMA SequenceHas ==
  ASSUME NEW X, NEW s \in Seq(X)
  PROVE  /\ Len(s) \in Nat /\ DOMAIN s = 1 .. Len(s) /\ s \in [1 .. Len(s) -> X]
         /\ \A i \in 1 .. Len(s) : s[i] \in X
         /\ Len(s) # 0 <=> s # <<>>
         /\ \A Y : (\A i \in 1 .. Len(s) : s[i] \in Y) => s \in Seq(Y)
<1>1. Len(s) \in Nat /\ DOMAIN s = 1 .. Len(s) /\ \A i \in 1 .. Len(s) : s[i] \in X
  OBVIOUS
<1>2. s \in [1 .. Len(s) -> X]
  OBVIOUS
<1>3. ASSUME NEW Y, \A i \in 1 .. Len(s) : s[i] \in Y
      PROVE  s \in Seq(Y)
  <2>1. s \in [1 .. Len(s) -> Y]
    BY <1>1, <1>2, <1>3
  <2> QED
    BY <1>1, <2>1
<1>4. Len(s) # 0 <=> s # <<>>
  OBVIOUS
<1> QED
  BY <1>1, <1>2, <1>3, <1>4

\* Among the subsets of a finite set that have some property one contains no other: strict
\* inclusion of finite sets is well founded.
LEMMA SmallestSubset ==
  ASSUME NEW I, IsFiniteSet(I), NEW T, T \subseteq SUBSET I, T # {}
  PROVE  \E t \in T : \A u \in T : u \subseteq t => u = t
<1>1. IsWellFoundedOn(StrictSubsetOrdering(I), SUBSET I)
  BY FS_FiniteSubsetsOfFinite, FS_StrictSubsetOrderingWellFounded
<1>2. PICK t \in T : \A u \in T : ~(<<u, t>> \in StrictSubsetOrdering(I))
  BY <1>1, WFMin
<1> QED
  BY <1>2 DEF StrictSubsetOrdering

\* A finite set with a total order has a last member.
LEMMA LastMember ==
  ASSUME NEW S, IsFiniteSet(S), S # {}, NEW R,
         \A x, y \in S : <<x, y>> \in R \/ <<y, x>> \in R,
         \A x, y, z \in S : <<x, y>> \in R /\ <<y, z>> \in R => <<x, z>> \in R
  PROVE  \E m \in S : \A x \in S : <<x, m>> \in R
<1> DEFINE Bad == {T \in SUBSET S : T # {} /\ ~\E m \in T : \A x \in T : <<x, m>> \in R}
<1> SUFFICES ASSUME Bad # {} PROVE FALSE
  OBVIOUS
<1>1. PICK T \in Bad : \A U \in Bad : U \subseteq T => U = T
  <2>1. Bad \subseteq SUBSET S
    OBVIOUS
  <2> HIDE DEF Bad
  <2> QED
    BY <2>1, SmallestSubset
<1>2. PICK y \in T : TRUE
  OBVIOUS
<1>3. T \ {y} \notin Bad
  <2>1. T \ {y} \subseteq T /\ T \ {y} # T
    BY <1>2
  <2> HIDE DEF Bad
  <2> QED
    BY <2>1, <1>1
<1>4. CASE T \ {y} = {}
  BY <1>2, <1>4
<1>5. CASE T \ {y} # {}
  <2>1. PICK m \in T \ {y} : \A x \in T \ {y} : <<x, m>> \in R
    BY <1>3, <1>5
  <2>2. CASE <<y, m>> \in R
    BY <2>1, <2>2
  <2>3. CASE <<m, y>> \in R
    <3>1. \A x \in T : <<x, y>> \in R
      BY <2>1, <2>3, <1>2
    <3> QED
      BY <3>1, <1>2
  <2> QED
    BY <1>2, <2>1, <2>2, <2>3
<1> QED
  BY <1>4, <1>5

\* A finite set with a strict total order can be written down in that order.
LEMMA ArrangementExists ==
  ASSUME NEW S, IsFiniteSet(S), NEW R,
         \A x, y \in S : x # y => <<x, y>> \in R \/ <<y, x>> \in R,
         \A x, y, z \in S : <<x, y>> \in R /\ <<y, z>> \in R => <<x, z>> \in R
  PROVE  \E s \in [1 .. Cardinality(S) -> S] :
           \A i, j \in DOMAIN s : i < j => <<s[i], s[j]>> \in R
<1> DEFINE Sorted(s) == \A i, j \in DOMAIN s : i < j => <<s[i], s[j]>> \in R
           Bad == {T \in SUBSET S : ~\E s \in [1 .. Cardinality(T) -> T] : Sorted(s)}
<1> SUFFICES ASSUME Bad # {} PROVE FALSE
  OBVIOUS
<1>1. PICK T \in Bad : \A U \in Bad : U \subseteq T => U = T
  <2>1. Bad \subseteq SUBSET S
    OBVIOUS
  <2> HIDE DEF Bad
  <2> QED
    BY <2>1, SmallestSubset
<1>2. IsFiniteSet(T) /\ T \subseteq S
  BY FS_Subset
<1>3. T # {}
  <2> SUFFICES ASSUME T = {} PROVE FALSE
    OBVIOUS
  <2>1. Cardinality(T) = 0
    BY FS_EmptySet
  <2>2. [i \in 1 .. 0 |-> i] \in [1 .. Cardinality(T) -> T] /\ Sorted([i \in 1 .. 0 |-> i])
    BY <2>1
  <2> QED
    BY <2>2
<1>4. PICK m \in T : \A x \in T : x = m \/ <<x, m>> \in R
  <2> DEFINE Q == {p \in S \X S : p[1] = p[2] \/ p \in R}
  <2>1. \A x, y \in T : <<x, y>> \in Q \/ <<y, x>> \in Q
    BY <1>2
  <2>2. \A x, y, z \in T : <<x, y>> \in Q /\ <<y, z>> \in Q => <<x, z>> \in Q
    BY <1>2
  <2>3. \E m \in T : \A x \in T : <<x, m>> \in Q
    <3> HIDE DEF Q
    <3> QED
      BY <1>2, <1>3, <2>1, <2>2, LastMember
  <2> QED
    BY <2>3
<1>5. PICK n \in Nat : /\ Cardinality(T) = n + 1
                      /\ \E s \in [1 .. n -> T \ {m}] :
                           \A i, j \in 1 .. n : i < j => <<s[i], s[j]>> \in R
  <2> DEFINE U == T \ {m}
  <2>1. U \subseteq T /\ U # T /\ U \in SUBSET S
    BY <1>2
  <2>2. U \notin Bad
    <3> HIDE DEF Bad, U
    <3> QED
      BY <2>1, <1>1
  <2>3. PICK s \in [1 .. Cardinality(U) -> U] : Sorted(s)
    BY <2>1, <2>2
  <2>4. IsFiniteSet(U) /\ Cardinality(U) = Cardinality(T) - 1
    BY <1>2, FS_RemoveElement
  <2>5. Cardinality(T) \in Nat /\ Cardinality(U) \in Nat
    BY <1>2, <2>4, FS_CardinalityType
  <2>6. Cardinality(T) = Cardinality(U) + 1
    <3> HIDE DEF U
    <3> QED
      BY <2>4, <2>5
  <2> QED
    BY <2>3, <2>5, <2>6
<1>6. PICK s \in [1 .. n -> T \ {m}] : \A i, j \in 1 .. n : i < j => <<s[i], s[j]>> \in R
  BY <1>5
<1> DEFINE t == [i \in 1 .. n + 1 |-> IF i = n + 1 THEN m ELSE s[i]]
<1>7. t \in [1 .. Cardinality(T) -> T]
  BY <1>5
<1>8. Sorted(t)
  <2> SUFFICES ASSUME NEW i \in 1 .. n + 1, NEW j \in 1 .. n + 1, i < j
               PROVE  <<t[i], t[j]>> \in R
    BY <1>7
  <2>1. i \in 1 .. n /\ t[i] = s[i] /\ s[i] \in T \ {m}
    BY <1>6
  <2>2. CASE j = n + 1
    BY <2>1, <2>2, <1>4
  <2>3. CASE j # n + 1
    BY <2>1, <2>3, <1>6
  <2> QED
    BY <2>2, <2>3
<1> QED
  <2> HIDE DEF t, Sorted
  <2> QED
    BY <1>7, <1>8, <1>1
\* Such a row has every member of the set, once.
LEMMA ArrangementIsComplete ==
  ASSUME NEW S, IsFiniteSet(S), NEW R, \A x \in S : <<x, x>> \notin R,
         NEW s \in [1 .. Cardinality(S) -> S],
         \A i, j \in DOMAIN s : i < j => <<s[i], s[j]>> \in R
  PROVE  /\ s \in Seq(S) /\ Len(s) = Cardinality(S) /\ DOMAIN s = 1 .. Len(s)
         /\ \A x \in S : \E i \in DOMAIN s : s[i] = x
         /\ \A i, j \in DOMAIN s : s[i] = s[j] => i = j
<1> DEFINE n == Cardinality(S)
<1>1. n \in Nat
  BY FS_CardinalityType
<1>2. \A i, j \in 1 .. n : s[i] = s[j] => i = j
  <2> SUFFICES ASSUME NEW i \in 1 .. n, NEW j \in 1 .. n, i < j PROVE s[i] # s[j]
    <3> HIDE DEF n
    <3> QED
      BY <1>1
  <2>1. <<s[i], s[j]>> \in R /\ s[i] \in S
    OBVIOUS
  <2> QED
    BY <2>1
<1>3. IsFiniteSet(1 .. n) /\ Cardinality(1 .. n) = n
  BY <1>1, FS_Interval
<1>4. s \in Injection(1 .. n, S)
  BY <1>2 DEF Injection, IsInjective
<1>5. s \in Surjection(1 .. n, S)
  BY <1>3, <1>4, FS_Injection
<1>6. \A x \in S : \E i \in 1 .. n : s[i] = x
  BY <1>5 DEF Surjection
<1> QED
  BY <1>1, <1>2, <1>6

\* Ascending lists the members of a set of numbers once, from the least to the greatest.
LEMMA AscendingIs ==
  ASSUME NEW S \in SUBSET Int, IsFiniteSet(S)
  PROVE  /\ Ascending(S) \in Seq(S) /\ Len(Ascending(S)) = Cardinality(S)
         /\ \A x \in S : \E i \in DOMAIN Ascending(S) : Ascending(S)[i] = x
         /\ \A i, j \in DOMAIN Ascending(S) : i < j => Ascending(S)[i] < Ascending(S)[j]
<1> DEFINE R == {p \in S \X S : p[1] < p[2]}
<1>1. PICK s \in [1 .. Cardinality(S) -> S] : \A i, j \in DOMAIN s : i < j => <<s[i], s[j]>> \in R
  <2>1. /\ \A x, y \in S : x # y => <<x, y>> \in R \/ <<y, x>> \in R
        /\ \A x, y, z \in S : <<x, y>> \in R /\ <<y, z>> \in R => <<x, z>> \in R
    OBVIOUS
  <2> HIDE DEF R
  <2> QED
    BY <2>1, ArrangementExists
<1>2. \A i, j \in DOMAIN s : i < j => s[i] < s[j]
  BY <1>1
<1>3. /\ Ascending(S) \in [1 .. Cardinality(S) -> S]
      /\ \A i, j \in DOMAIN Ascending(S) : i < j => Ascending(S)[i] < Ascending(S)[j]
  BY <1>2 DEF Ascending, Arranged
<1>4. \A i, j \in DOMAIN Ascending(S) : i < j => <<Ascending(S)[i], Ascending(S)[j]>> \in R
  BY <1>3
<1>5. \A x \in S : <<x, x>> \notin R
  OBVIOUS
<1> HIDE DEF R
<1> QED
  BY <1>3, <1>4, <1>5, ArrangementIsComplete

\* Kept is a filter: the items at the places, in their order, and no other.
LEMMA KeptIs ==
  ASSUME NEW X, NEW s \in Seq(X), NEW P \in SUBSET DOMAIN s
  PROVE  /\ Kept(s, P) \in Seq(X) /\ Len(Kept(s, P)) = Len(Ascending(P))
         /\ Range(Kept(s, P)) = {s[i] : i \in P}
         /\ \A k \in DOMAIN Kept(s, P) :
              Kept(s, P)[k] = s[Ascending(P)[k]] /\ Ascending(P)[k] \in P
<1>1. P \in SUBSET Int /\ IsFiniteSet(P)
  <2>1. Len(s) \in Nat /\ DOMAIN s = 1 .. Len(s)
    OBVIOUS
  <2>2. IsFiniteSet(1 .. Len(s))
    BY <2>1, FS_Interval
  <2> QED
    BY <2>1, <2>2, FS_Subset
<1> DEFINE at == Ascending(P)
<1>2. at \in Seq(P) /\ \A x \in P : \E i \in DOMAIN at : at[i] = x
  BY <1>1, AscendingIs
<1>3. Kept(s, P) = [k \in 1 .. Len(at) |-> s[at[k]]]
  BY <1>2 DEF Kept
<1> HIDE DEF at
<1>4. \A k \in 1 .. Len(at) : at[k] \in P /\ s[at[k]] \in X
  BY <1>2
<1>5. Kept(s, P) \in Seq(X) /\ Len(Kept(s, P)) = Len(at)
  BY <1>2, <1>3, <1>4
<1>6. Range(Kept(s, P)) = {s[i] : i \in P}
  <2>1. DOMAIN Kept(s, P) = 1 .. Len(at) /\ \A k \in 1 .. Len(at) : Kept(s, P)[k] = s[at[k]]
    BY <1>3
  <2>2. Range(Kept(s, P)) = {s[at[k]] : k \in 1 .. Len(at)}
    BY <2>1 DEF Range
  <2>3. \A i \in P : \E k \in 1 .. Len(at) : at[k] = i
    BY <1>2
  <2> QED
    BY <2>2, <2>3, <1>4
<1> QED
  BY <1>3, <1>4, <1>5, <1>6 DEF at

\* A filter that keeps one of equal items keeps as many as there are different ones.
LEMMA KeptOnce ==
  ASSUME NEW X, NEW s \in Seq(X), NEW P \in SUBSET DOMAIN s, \A i, j \in P : s[i] = s[j] => i = j
  PROVE  Len(Kept(s, P)) = Cardinality(Range(Kept(s, P)))
<1> DEFINE at == Ascending(P)
           k == Kept(s, P)
           n == Len(k)
<1>1. P \in SUBSET Int /\ IsFiniteSet(P)
  <2>1. Len(s) \in Nat /\ DOMAIN s = 1 .. Len(s)
    OBVIOUS
  <2>2. IsFiniteSet(1 .. Len(s))
    BY <2>1, FS_Interval
  <2> QED
    BY <2>1, <2>2, FS_Subset
<1>2. /\ k \in Seq(X) /\ n = Len(at)
      /\ \A i \in DOMAIN k : k[i] = s[at[i]] /\ at[i] \in P
  BY KeptIs
<1>3. at \in Seq(P) /\ \A i, j \in DOMAIN at : i < j => at[i] < at[j]
  BY <1>1, AscendingIs
<1> HIDE DEF at, k
<1>4. n \in Nat /\ DOMAIN k = 1 .. n /\ DOMAIN at = 1 .. n /\ k = [i \in 1 .. n |-> k[i]]
  BY <1>2, <1>3
<1> HIDE DEF n
<1>5. \A i, j \in 1 .. n : k[i] = k[j] => i = j
  <2> SUFFICES ASSUME NEW i \in 1 .. n, NEW j \in 1 .. n, i < j, k[i] = k[j] PROVE FALSE
    BY <1>4
  <2>1. at[i] < at[j] /\ at[i] \in P /\ at[j] \in P
    BY <1>2, <1>3, <1>4
  <2>2. at[i] = at[j]
    BY <2>1, <1>2, <1>4
  <2> QED
    BY <2>1, <2>2, <1>1
<1>6. k \in Bijection(1 .. n, Range(k))
  <2>1. k \in [1 .. n -> Range(k)] /\ \A y \in Range(k) : \E i \in 1 .. n : k[i] = y
    BY <1>4 DEF Range
  <2>2. k \in Injection(1 .. n, Range(k))
    BY <2>1, <1>5 DEF Injection, IsInjective
  <2>3. k \in Surjection(1 .. n, Range(k))
    BY <2>1 DEF Surjection
  <2> QED
    BY <2>2, <2>3 DEF Bijection
<1>7. IsFiniteSet(1 .. n) /\ Cardinality(1 .. n) = n
  BY <1>4, FS_Interval
<1>8. Cardinality(Range(k)) = Cardinality(1 .. n)
  BY <1>6, <1>7, FS_Bijection DEF ExistsBijection
<1> QED
  BY <1>7, <1>8 DEF k, n

\* Places in the opposite order.
LEMMA DescendingIs ==
  ASSUME NEW S \in SUBSET Int, IsFiniteSet(S)
  PROVE  LET s == Arranged(S, >)
         IN  /\ s \in Seq(S) /\ \A x \in S : \E i \in DOMAIN s : s[i] = x
             /\ \A i, j \in DOMAIN s : i < j => s[i] > s[j]
<1> DEFINE R == {p \in S \X S : p[1] > p[2]}
           d == Arranged(S, >)
<1>1. PICK s \in [1 .. Cardinality(S) -> S] : \A i, j \in DOMAIN s : i < j => <<s[i], s[j]>> \in R
  <2>1. /\ \A x, y \in S : x # y => <<x, y>> \in R \/ <<y, x>> \in R
        /\ \A x, y, z \in S : <<x, y>> \in R /\ <<y, z>> \in R => <<x, z>> \in R
    OBVIOUS
  <2> HIDE DEF R
  <2> QED
    BY <2>1, ArrangementExists
<1>2. \A i, j \in DOMAIN s : i < j => s[i] > s[j]
  BY <1>1
<1>3. d \in [1 .. Cardinality(S) -> S] /\ \A i, j \in DOMAIN d : i < j => d[i] > d[j]
  BY <1>2 DEF Arranged
<1> HIDE DEF d
<1>4. \A i, j \in DOMAIN d : i < j => <<d[i], d[j]>> \in R
  BY <1>3
<1>5. \A x \in S : <<x, x>> \notin R
  OBVIOUS
<1> HIDE DEF R
<1>6. d \in Seq(S) /\ \A x \in S : \E i \in DOMAIN d : d[i] = x
  BY <1>3, <1>4, <1>5, ArrangementIsComplete
<1> QED
  BY <1>3, <1>6 DEF d

\* Runs cuts 1 .. n at its starts: the runs tile it, each has its start as its first place and no
\* other start in it, and there are as many as starts.
LEMMA RunsAre ==
  ASSUME NEW n \in Nat \ {0}, NEW S \in SUBSET (1 .. n), 1 \in S
  PROVE  /\ Runs(S, n) \in Seq((1 .. n) \X (1 .. n)) /\ Runs(S, n) # <<>>
         /\ Len(Runs(S, n)) = Cardinality(S) /\ Len(Runs(S, n)) \in 1 .. n
         /\ Tiles(Runs(S, n), n)
         /\ \A k \in DOMAIN Runs(S, n) :
              LET r == Runs(S, n)[k]
              IN r[1] \in S /\ \A i \in S : r[1] < i => r[2] < i
         /\ \A k, l \in DOMAIN Runs(S, n) : k < l => Runs(S, n)[k][2] < Runs(S, n)[l][1]
<1> DEFINE at == Ascending(S)
           m == Len(at)
           r == Runs(S, n)
<1>1. IsFiniteSet(S) /\ S \in SUBSET Int /\ Cardinality(S) <= n
  <2>1. IsFiniteSet(1 .. n) /\ Cardinality(1 .. n) = n
    BY FS_Interval
  <2>2. IsFiniteSet(S) /\ Cardinality(S) <= Cardinality(1 .. n)
    BY <2>1, FS_Subset
  <2>3. S \in SUBSET Int
    OBVIOUS
  <2> QED
    BY <2>1, <2>2, <2>3
<1>2. /\ m \in Nat /\ m = Cardinality(S) /\ at \in [1 .. m -> S]
      /\ \A x \in S : \E i \in 1 .. m : at[i] = x
      /\ \A i, j \in 1 .. m : i < j => at[i] < at[j]
  <2>1. /\ at \in Seq(S) /\ m = Cardinality(S)
        /\ \A x \in S : \E i \in DOMAIN at : at[i] = x
        /\ \A i, j \in DOMAIN at : i < j => at[i] < at[j]
    BY <1>1, AscendingIs
  <2> HIDE DEF at
  <2>2. m \in Nat /\ at \in [1 .. m -> S] /\ DOMAIN at = 1 .. m
    BY <2>1
  <2> QED
    BY <2>1, <2>2
<1>3. r = [k \in 1 .. m |-> <<at[k], IF k = m THEN n ELSE at[k + 1] - 1>>]
  BY <1>2 DEF Runs
<1> HIDE DEF at, r, m
<1>4. m \in Nat /\ \A k \in 1 .. m : at[k] \in S /\ at[k] \in 1 .. n
  BY <1>2
<1>5. m >= 1 /\ at[1] = 1
  <2>1. PICK i \in 1 .. m : at[i] = 1
    BY <1>2
  <2>2. i = 1
    <3> SUFFICES ASSUME 1 < i PROVE FALSE
      BY <2>1, <1>4
    <3>1. at[1] < at[i] /\ at[1] \in 1 .. n
      BY <1>2, <1>4, <2>1
    <3> QED
      BY <3>1, <2>1
  <2> QED
    BY <2>1, <2>2, <1>4
<1>6. \A k \in 1 .. m : r[k][1] = at[k] /\ r[k][2] = IF k = m THEN n ELSE at[k + 1] - 1
  BY <1>3
<1>7. ASSUME NEW k \in 1 .. m
      PROVE  /\ r[k][2] \in 1 .. n /\ r[k][1] <= r[k][2]
             /\ k < m => r[k][2] = at[k + 1] - 1
             /\ k = m => r[k][2] = n
  <2>1. CASE k = m
    BY <2>1, <1>4, <1>6
  <2>2. CASE k # m
    <3>1. k + 1 \in 1 .. m /\ at[k] < at[k + 1] /\ at[k] \in 1 .. n /\ at[k + 1] \in 1 .. n
      BY <2>2, <1>2, <1>4
    <3>2. r[k][1] = at[k] /\ r[k][2] = at[k + 1] - 1
      BY <2>2, <1>6
    <3> QED
      BY <3>1, <3>2, <2>2
  <2> QED
    BY <2>1, <2>2
<1>8. r \in Seq((1 .. n) \X (1 .. n)) /\ Len(r) = m /\ r # <<>>
  <2>1. \A k \in 1 .. m : r[k] \in (1 .. n) \X (1 .. n)
    <3> SUFFICES ASSUME NEW k \in 1 .. m
                 PROVE  <<at[k], IF k = m THEN n ELSE at[k + 1] - 1>> \in (1 .. n) \X (1 .. n)
      BY <1>3
    <3> QED
      BY <1>4, <1>6, <1>7
  <2>2. r = [k \in 1 .. m |-> r[k]]
    BY <1>3
  <2>3. r \in Seq((1 .. n) \X (1 .. n)) /\ Len(r) = m
    BY <2>1, <2>2, <1>4
  <2> QED
    BY <2>3, <1>5
<1>9. Tiles(r, n)
  <2>1. r[1][1] = 1 /\ r[m][2] = n
    BY <1>4, <1>5, <1>6, <1>7
  <2>2. ASSUME NEW k \in 1 .. m, k > 1 PROVE r[k][1] = r[k - 1][2] + 1
    <3>1. k - 1 \in 1 .. m /\ k - 1 < m /\ (k - 1) + 1 = k
      BY <2>2, <1>4
    <3>2. r[k - 1][2] = at[k] - 1 /\ r[k][1] = at[k] /\ at[k] \in 1 .. n
      BY <3>1, <1>4, <1>6, <1>7
    <3> QED
      BY <3>2
  <2>3. DOMAIN r = 1 .. m
    BY <1>8
  <2> QED
    BY <1>8, <2>1, <2>2, <2>3, <1>7 DEF Tiles
<1>10. ASSUME NEW k \in 1 .. m, NEW i \in S, r[k][1] < i
       PROVE  r[k][2] < i
  <2>1. PICK j \in 1 .. m : at[j] = i
    BY <1>2, <1>4
  <2>2. k < j
    <3> SUFFICES ASSUME j <= k PROVE FALSE
      BY <2>1, <1>4
    <3>1. at[j] <= at[k]
      BY <1>2, <1>4
    <3> QED
      BY <3>1, <2>1, <1>4, <1>6, <1>10
  <2>3. r[k][2] = at[k + 1] - 1 /\ k + 1 \in 1 .. m
    BY <2>2, <1>4, <1>7
  <2>4. at[k + 1] <= at[j]
    BY <2>2, <2>3, <1>2, <1>4, SMTT(30)
  <2> QED
    BY <2>1, <2>3, <2>4, <1>4
<1>11. ASSUME NEW k \in 1 .. m, NEW l \in 1 .. m, k < l
       PROVE  r[k][2] < r[l][1]
  <2>1. at[k] < at[l] /\ at[l] \in S
    BY <1>11, <1>2, <1>4
  <2> QED
    BY <2>1, <1>6, <1>10
<1>12. Cardinality(S) = m /\ m \in 1 .. n /\ DOMAIN r = 1 .. m
  BY <1>1, <1>2, <1>4, <1>5, <1>8
<1> QED
  BY <1>4, <1>6, <1>8, <1>9, <1>10, <1>11, <1>12 DEF r
\* The extremes of two and of three numbers.
LEMMA Extremes ==
  ASSUME NEW a \in Int, NEW b \in Int, NEW c \in Int
  PROVE  /\ Min({a, b}) = IF a <= b THEN a ELSE b
         /\ Max({a, b}) = IF a <= b THEN b ELSE a
         /\ Min({a, b, c}) \in {a, b, c} /\ Min({a, b, c}) <= a /\ Min({a, b, c}) <= b /\ Min({a, b, c}) <= c
         /\ Max({a, b, c}) \in {a, b, c} /\ Max({a, b, c}) >= a /\ Max({a, b, c}) >= b /\ Max({a, b, c}) >= c
<1>1. /\ \E x \in {a, b} : \A y \in {a, b} : x =< y
      /\ \E x \in {a, b} : \A y \in {a, b} : x >= y
  OBVIOUS
<1>2. /\ Min({a, b}) \in {a, b} /\ \A y \in {a, b} : Min({a, b}) =< y
      /\ Max({a, b}) \in {a, b} /\ \A y \in {a, b} : Max({a, b}) >= y
  BY <1>1 DEF Min, Max
<1>3. /\ \E x \in {a, b, c} : \A y \in {a, b, c} : x =< y
      /\ \E x \in {a, b, c} : \A y \in {a, b, c} : x >= y
  OBVIOUS
<1>4. /\ Min({a, b, c}) \in {a, b, c} /\ \A y \in {a, b, c} : Min({a, b, c}) =< y
      /\ Max({a, b, c}) \in {a, b, c} /\ \A y \in {a, b, c} : Max({a, b, c}) >= y
  BY <1>3 DEF Min, Max
<1> QED
  BY <1>2, <1>4

\* Induction over the places of a sequence, with the places where the claim holds as a set.
LEMMA PlaceByPlace ==
  ASSUME NEW n \in Nat, NEW S, n > 0 => 1 \in S, \A i \in 1 .. n : i > 1 /\ i - 1 \in S => i \in S
  PROVE  \A i \in 1 .. n : i \in S
<1> DEFINE Bad == (1 .. n) \ S
           R == {p \in (1 .. n) \X (1 .. n) : p[2] <= p[1]}
<1> SUFFICES ASSUME Bad # {} PROVE FALSE
  OBVIOUS
<1>1. IsFiniteSet(Bad)
  <2>1. IsFiniteSet(1 .. n) /\ Bad \in SUBSET (1 .. n)
    BY FS_Interval
  <2> HIDE DEF Bad
  <2> QED
    BY <2>1, FS_Subset
<1>2. PICK m \in Bad : \A x \in Bad : <<x, m>> \in R
  <2>1. /\ \A x, y \in Bad : <<x, y>> \in R \/ <<y, x>> \in R
        /\ \A x, y, z \in Bad : <<x, y>> \in R /\ <<y, z>> \in R => <<x, z>> \in R
    OBVIOUS
  <2> HIDE DEF R, Bad
  <2> QED
    BY <1>1, <2>1, LastMember
<1>3. m > 1 /\ m - 1 \in 1 .. n
  OBVIOUS
<1>4. m - 1 \notin Bad
  <2>1. \A x \in Bad : m <= x
    BY <1>2
  <2>2. m \in Int /\ ~(m <= m - 1)
    OBVIOUS
  <2> HIDE DEF Bad
  <2> QED
    BY <2>1, <2>2
<1> QED
  BY <1>3, <1>4

\* A function of the places 1 .. n that takes its value from the place before.
Recursive(f, n, first, step) == f = [i \in 1 .. n |-> IF i = 1 THEN first ELSE step[i][f[i - 1]]]

\* There is one, and its values stay among those that every step maps to one another.
LEMMA RecursionDefines ==
  ASSUME NEW n \in Nat, NEW V, NEW first, n > 0 => first \in V,
         NEW step, \A i \in 1 .. n : \A v \in V : i > 1 => step[i][v] \in V
  PROVE  /\ \E f : Recursive(f, n, first, step)
         /\ \A f : Recursive(f, n, first, step) => f \in [1 .. n -> V]
<1> DEFINE Upto(k, f) == f = [i \in 1 .. k |-> IF i = 1 THEN first ELSE step[i][f[i - 1]]]
           S == {k \in 1 .. n : \E f : Upto(k, f)}
<1>1. n > 0 => 1 \in S
  <2>1. Upto(1, [i \in 1 .. 1 |-> first])
    OBVIOUS
  <2>2. \E f : Upto(1, f)
    BY <2>1
  <2> HIDE DEF Upto
  <2> QED
    BY <2>2
<1>2. ASSUME NEW k \in 1 .. n, k > 1, k - 1 \in S
      PROVE  k \in S
  <2>1. PICK f : Upto(k - 1, f)
    BY <1>2
  <2> DEFINE g == [i \in 1 .. k |-> IF i = k THEN step[k][f[k - 1]] ELSE f[i]]
  <2>2. \A i \in 1 .. k - 1 : g[i] = f[i] /\ f[i] = IF i = 1 THEN first ELSE step[i][f[i - 1]]
    BY <2>1
  <2>3. g[k] = step[k][g[k - 1]]
    BY <1>2, <2>2
  <2>4. ASSUME NEW i \in 1 .. k
        PROVE  g[i] = IF i = 1 THEN first ELSE step[i][g[i - 1]]
    <3>1. CASE i = k
      BY <3>1, <2>3, <1>2
    <3>2. CASE i # k
      <4>1. i \in 1 .. k - 1 /\ (i > 1 => i - 1 \in 1 .. k - 1)
        BY <3>2
      <4>2. g[i] = f[i] /\ (i > 1 => g[i - 1] = f[i - 1])
        BY <4>1, <2>2
      <4>3. f[i] = IF i = 1 THEN first ELSE step[i][f[i - 1]]
        BY <4>1, <2>2
      <4> HIDE DEF g
      <4> QED
        BY <4>2, <4>3
    <3> QED
      BY <3>1, <3>2
  <2>5. g = [i \in 1 .. k |-> g[i]]
    OBVIOUS
  <2>6. Upto(k, g)
    <3> HIDE DEF g
    <3> QED
      BY <2>4, <2>5
  <2> QED
    BY <2>6
<1>3. n > 0 => n \in S
  <2>1. \A i \in 1 .. n : i \in S
    <3> HIDE DEF S
    <3> QED
      BY <1>1, <1>2, PlaceByPlace
  <2> QED
    BY <2>1
<1>4. \E f : Upto(n, f)
  <2>1. CASE n = 0
    <3>1. Upto(0, [i \in 1 .. 0 |-> first])
      OBVIOUS
    <3> QED
      BY <3>1, <2>1
  <2> QED
    BY <1>3, <2>1
<1>5. ASSUME NEW f, Upto(n, f)
      PROVE  f \in [1 .. n -> V]
  <2> DEFINE Q == {i \in 1 .. n : f[i] \in V}
  <2>1. \A i \in 1 .. n : f[i] = IF i = 1 THEN first ELSE step[i][f[i - 1]]
    BY <1>5
  <2>2. n > 0 => 1 \in Q
    BY <2>1
  <2>3. \A i \in 1 .. n : i > 1 /\ i - 1 \in Q => i \in Q
    BY <2>1
  <2>4. \A i \in 1 .. n : i \in Q
    <3> HIDE DEF Q
    <3> QED
      BY <2>2, <2>3, PlaceByPlace
  <2>5. \A i \in 1 .. n : f[i] \in V
    BY <2>4
  <2>6. f = [i \in 1 .. n |-> f[i]]
    BY <1>5
  <2> QED
    BY <2>5, <2>6
<1>6. \A f : Recursive(f, n, first, step) <=> Upto(n, f)
  BY DEF Recursive
<1> HIDE DEF Upto
<1> QED
  BY <1>4, <1>5, <1>6

\* Where the items of the first m sequences are in the one that they make, as places <<k, i>>: a
\* row of all of these, in their order.
Traces(at, flat, seqs, m) ==
  /\ DOMAIN at = 1 .. Len(flat)
  /\ \A p \in 1 .. Len(flat) :
       \E k \in 1 .. m : \E i \in DOMAIN seqs[k] : at[p] = <<k, i>> /\ flat[p] = seqs[k][i]
  /\ \A k \in 1 .. m : \A i \in DOMAIN seqs[k] : \E p \in 1 .. Len(flat) : at[p] = <<k, i>>
  /\ \A p, q \in 1 .. Len(flat) : p < q => Earlier(at[p], at[q])

LEMMA TracesGrow ==
  ASSUME NEW X, NEW seqs \in Seq(Seq(X)), NEW m \in 1 .. Len(seqs), NEW flat \in Seq(X), NEW at,
         m > 1 => Traces(at, flat, seqs, m - 1), m = 1 => flat = <<>>
  PROVE  \E new : Traces(new, flat \o seqs[m], seqs, m)
<1> DEFINE l == Len(flat)
           n == Len(seqs[m])
           both == flat \o seqs[m]
           new == [p \in 1 .. l + n |-> IF p <= l THEN at[p] ELSE <<m, p - l>>]
<1>1. /\ l \in Nat /\ n \in Nat /\ seqs[m] \in Seq(X) /\ both \in Seq(X) /\ Len(both) = l + n
      /\ DOMAIN seqs[m] = 1 .. n /\ m \in Nat \ {0}
      /\ \A p \in 1 .. l : both[p] = flat[p]
      /\ \A i \in 1 .. n : both[l + i] = seqs[m][i]
  OBVIOUS
<1>2. \A p \in 1 .. l : p \in 1 .. l + n /\ new[p] = at[p]
  BY <1>1
<1>3. \A p \in 1 .. l + n : p > l => p - l \in 1 .. n /\ p = l + (p - l) /\ new[p] = <<m, p - l>>
  <2> HIDE DEF l, n
  <2>1. \A p \in 1 .. l + n : p > l => ~(p <= l) /\ p - l \in 1 .. n /\ p = l + (p - l)
    BY <1>1
  <2>2. \A p \in 1 .. l + n : ~(p <= l) => new[p] = <<m, p - l>>
    OBVIOUS
  <2> HIDE DEF new
  <2> QED
    BY <2>1, <2>2
<1>4. DOMAIN new = 1 .. l + n
  OBVIOUS
<1> HIDE DEF new, l, n, both
<1>9. \A p \in 1 .. l : m > 1 /\ \E k \in 1 .. m - 1 : \E i \in DOMAIN seqs[k] :
                           at[p] = <<k, i>> /\ flat[p] = seqs[k][i]
  <2>1. 1 .. l # {} => m > 1
    BY <1>1 DEF l
  <2> QED
    BY <2>1 DEF Traces, l
<1>5. ASSUME NEW p \in 1 .. l + n
      PROVE  \E k \in 1 .. m : \E i \in DOMAIN seqs[k] : new[p] = <<k, i>> /\ both[p] = seqs[k][i]
  <2>1. CASE p <= l
    <3>1. p \in 1 .. l
      BY <2>1, <1>1
    <3>2. PICK k \in 1 .. m - 1 : \E i \in DOMAIN seqs[k] : at[p] = <<k, i>> /\ flat[p] = seqs[k][i]
      BY <3>1, <1>9
    <3>3. PICK i \in DOMAIN seqs[k] : at[p] = <<k, i>> /\ flat[p] = seqs[k][i]
      BY <3>2
    <3>4. k \in 1 .. m /\ both[p] = flat[p] /\ new[p] = at[p]
      BY <3>1, <1>1, <1>2, SMTT(30)
    <3> QED
      BY <3>3, <3>4
  <2>2. CASE p > l
    <3>1. p - l \in 1 .. n /\ p = l + (p - l) /\ new[p] = <<m, p - l>>
      BY <2>2, <1>3
    <3>2. p - l \in DOMAIN seqs[m] /\ both[p] = seqs[m][p - l]
      <4> DEFINE i == p - l
      <4>1. i \in 1 .. n /\ p = l + i
        BY <3>1
      <4> HIDE DEF i
      <4>2. i \in DOMAIN seqs[m] /\ both[p] = seqs[m][i]
        BY <4>1, <1>1
      <4> QED
        BY <4>2 DEF i
    <3>3. m \in 1 .. m
      <4>1. m \in Int /\ 1 <= m
        BY <1>1
      <4> QED
        BY <4>1
    <3> QED
      BY <3>1, <3>2, <3>3
  <2> QED
    BY <2>1, <2>2, <1>1, SMTT(30)
<1>6. ASSUME NEW k \in 1 .. m, NEW i \in DOMAIN seqs[k]
      PROVE  \E p \in 1 .. l + n : new[p] = <<k, i>>
  <2>1. CASE k = m
    <3>1. l + i \in 1 .. l + n /\ l + i > l /\ (l + i) - l = i
      BY <2>1, <1>1, SMTT(30)
    <3> QED
      BY <3>1, <2>1, <1>3
  <2>2. CASE k # m
    <3>1. k \in 1 .. m - 1 /\ m > 1
      BY <2>2, <1>1
    <3>2. PICK p \in 1 .. l : at[p] = <<k, i>>
      BY <3>1 DEF Traces, l
    <3> QED
      BY <3>2, <1>2
  <2> QED
    BY <2>1, <2>2
<1>7. ASSUME NEW p \in 1 .. l + n, NEW q \in 1 .. l + n, p < q
      PROVE  Earlier(new[p], new[q])
  <2>1. CASE q <= l
    <3>1. p \in 1 .. l /\ q \in 1 .. l
      BY <2>1, <1>1, <1>7
    <3>2. Earlier(at[p], at[q])
      BY <3>1, <1>2, <1>7 DEF Traces, l
    <3> QED
      BY <3>1, <3>2, <1>2
  <2>2. CASE q > l /\ p <= l
    <3>1. p \in 1 .. l
      BY <2>2, <1>1
    <3>3. new[q] = <<m, q - l>>
      BY <2>2, <1>3
    <3>2. PICK k \in 1 .. m - 1 : \E i \in DOMAIN seqs[k] : new[p] = <<k, i>>
      BY <3>1, <1>2, <1>9
    <3>4. k < m
      BY <1>1
    <3> QED
      BY <3>2, <3>3, <3>4 DEF Earlier
  <2>3. CASE q > l /\ p > l
    <3>1. new[p] = <<m, p - l>> /\ new[q] = <<m, q - l>> /\ p - l < q - l
      BY <2>3, <1>1, <1>3, <1>7, SMTT(30)
    <3> QED
      BY <3>1 DEF Earlier
  <2> QED
    BY <2>1, <2>2, <2>3, <1>1
<1>8. Traces(new, both, seqs, m)
  <2>1. Len(both) = l + n
    BY <1>1
  <2> QED
    BY <2>1, <1>4, <1>5, <1>6, <1>7, ZenonT(60) DEF Traces
<1> QED
  BY <1>8 DEF both

\* FlattenSeq puts the sequences one after the other.
LEMMA FlattenSeqIs ==
  ASSUME NEW X, NEW seqs \in Seq(Seq(X))
  PROVE  FlattenSeq(seqs) \in Seq(X) /\ \E at : Traces(at, FlattenSeq(seqs), seqs, Len(seqs))
<1> DEFINE n == Len(seqs)
           flatten == CHOOSE f : f = [i \in 1 .. n |-> IF i = 1 THEN seqs[i] ELSE f[i - 1] \o seqs[i]]
           step == [i \in 1 .. n |-> [v \in Seq(X) |-> v \o seqs[i]]]
           S == {m \in 1 .. n : flatten[m] \in Seq(X) /\ \E at : Traces(at, flatten[m], seqs, m)}
<1>1. n \in Nat /\ DOMAIN seqs = 1 .. n /\ \A i \in 1 .. n : seqs[i] \in Seq(X)
  OBVIOUS
<1>2. FlattenSeq(seqs) = IF n = 0 THEN seqs ELSE flatten[n]
  BY DEF FlattenSeq
<1> HIDE DEF n
<1>3. CASE n = 0
  <2>1. Traces(<<>>, <<>>, seqs, 0)
    BY DEF Traces
  <2> QED
    BY <1>2, <1>3, <2>1 DEF n
<1>4. CASE n # 0
  <2>1. \A i \in 1 .. n : flatten[i] = IF i = 1 THEN seqs[i] ELSE flatten[i - 1] \o seqs[i]
    <3>1. \A i \in 1 .. n : \A v \in Seq(X) : i > 1 => step[i][v] \in Seq(X)
      BY <1>1
    <3>2. /\ \E f : Recursive(f, n, seqs[1], step)
          /\ \A f : Recursive(f, n, seqs[1], step) => f \in [1 .. n -> Seq(X)]
      <4>1. n > 0 => seqs[1] \in Seq(X)
        BY <1>1
      <4> HIDE DEF step
      <4> QED
        BY <1>1, <3>1, <4>1, RecursionDefines
    <3>3. PICK f : Recursive(f, n, seqs[1], step)
      BY <3>2
    <3>4. f \in [1 .. n -> Seq(X)]
      BY <3>2, <3>3
    <3>5. \A i \in 1 .. n : f[i] = IF i = 1 THEN seqs[i] ELSE f[i - 1] \o seqs[i]
      <4>1. \A i \in 1 .. n : f[i] = IF i = 1 THEN seqs[1] ELSE step[i][f[i - 1]]
        BY <3>3 DEF Recursive
      <4>2. \A i \in 1 .. n, v \in Seq(X) : step[i][v] = v \o seqs[i]
        OBVIOUS
      <4>3. \A i \in 1 .. n : i # 1 => f[i - 1] \in Seq(X)
        BY <1>1, <3>4
      <4> HIDE DEF step
      <4> QED
        BY <4>1, <4>2, <4>3
    <3>6. f = [i \in 1 .. n |-> f[i]]
      BY <3>4
    <3>7. f = [i \in 1 .. n |-> IF i = 1 THEN seqs[i] ELSE f[i - 1] \o seqs[i]]
      BY <3>5, <3>6
    <3>8. flatten = [i \in 1 .. n |-> IF i = 1 THEN seqs[i] ELSE flatten[i - 1] \o seqs[i]]
      BY <3>7
    <3> HIDE DEF flatten
    <3> QED
      BY <3>8
  <2> HIDE DEF flatten
  <2>2. n > 0 => 1 \in S
    <3>1. flatten[1] = seqs[1] /\ seqs[1] \in Seq(X) /\ 1 \in 1 .. n /\ <<>> \o seqs[1] = seqs[1]
      BY <1>1, <1>4, <2>1
    <3>2. \E at : Traces(at, <<>> \o seqs[1], seqs, 1)
      <4>1. <<>> \in Seq(X) /\ 1 \in 1 .. Len(seqs) /\ ~(1 > 1)
        BY <3>1 DEF n
      <4>2. \A at : 1 > 1 => Traces(at, <<>>, seqs, 1 - 1)
        BY <4>1
      <4> HIDE DEF S
      <4> QED
        BY <4>1, <4>2, TracesGrow
    <3> QED
      BY <3>1, <3>2
  <2>3. ASSUME NEW i \in 1 .. n, i > 1, i - 1 \in S
        PROVE  i \in S
    <3>1. flatten[i - 1] \in Seq(X) /\ flatten[i] = flatten[i - 1] \o seqs[i]
      <4>1. i # 1 /\ i - 1 \in S
        BY <2>3
      <4> QED
        BY <4>1, <2>1
    <3>2. PICK at : Traces(at, flatten[i - 1], seqs, i - 1)
      BY <2>3
    <3>3. \E new : Traces(new, flatten[i - 1] \o seqs[i], seqs, i)
      <4>1. i \in 1 .. Len(seqs) /\ i # 1
        BY <2>3 DEF n
      <4> QED
        BY <3>1, <3>2, <4>1, TracesGrow
    <3>4. flatten[i] \in Seq(X)
      BY <1>1, <3>1
    <3> QED
      BY <3>1, <3>3, <3>4
  <2>4. n \in S
    <3> HIDE DEF S
    <3>1. \A i \in 1 .. n : i \in S
      BY <1>1, <2>2, <2>3, PlaceByPlace
    <3> QED
      BY <1>1, <1>4, <3>1
  <2> QED
    BY <1>2, <1>4, <2>4 DEF n
<1> QED
  BY <1>3, <1>4
--------------------------------------------------------------------------------
(* Prompts. *)

\* A cut tiles the items, and a batch of more than one item keeps to the budget and to the cap
\* (chunk_transcript, _chunk_digests, _group_drafts).
THEOREM CutIs ==
  ASSUME NEW sizes \in Seq(Nat), sizes # <<>>, NEW budget, NEW gap, NEW cap \in Nat
  PROVE  LET n == Len(sizes)
             r == Cut(sizes, budget, gap, cap)
         IN  /\ r \in Seq((1 .. n) \X (1 .. n)) /\ r # <<>> /\ Len(r) \in 1 .. n
             /\ Tiles(r, n)
             /\ \A k \in DOMAIN r :
                  \/ r[k][1] = r[k][2]
                  \/ /\ Load(sizes, gap, r[k][1], r[k][2]) <= budget
                     /\ r[k][2] - r[k][1] < cap
<1> DEFINE n == Len(sizes)
           fits(b, i) == Load(sizes, gap, b, i) <= budget /\ i - b < cap
           start == CHOOSE st : st = [i \in 1 .. n |-> IF i = 1 THEN 1
                                        ELSE IF fits(st[i - 1], i) THEN st[i - 1] ELSE i]
           S == {i \in 1 .. n : start[i] = i}
           r == Runs(S, n)
<1>1. n \in Nat \ {0} /\ DOMAIN sizes = 1 .. n
  OBVIOUS
<1>2. Cut(sizes, budget, gap, cap) = r
  BY <1>1 DEF Cut
<1> HIDE DEF n
<1>3. \A i \in 1 .. n : start[i] = IF i = 1 THEN 1
                                   ELSE IF fits(start[i - 1], i) THEN start[i - 1] ELSE i
  <2> DEFINE step == [i \in 1 .. n |-> [b \in 1 .. n |-> IF fits(b, i) THEN b ELSE i]]
  <2>1. \A i \in 1 .. n : \A b \in 1 .. n : i > 1 => step[i][b] \in 1 .. n
    OBVIOUS
  <2>2. /\ \E f : Recursive(f, n, 1, step)
        /\ \A f : Recursive(f, n, 1, step) => f \in [1 .. n -> 1 .. n]
    <3>1. n \in Nat /\ (n > 0 => 1 \in 1 .. n)
      BY <1>1
    <3> HIDE DEF step
    <3> QED
      BY <2>1, <3>1, RecursionDefines
  <2>3. PICK f : Recursive(f, n, 1, step)
    BY <2>2
  <2>4. f \in [1 .. n -> 1 .. n]
    BY <2>2, <2>3
  <2>5. \A i \in 1 .. n : i # 1 => i - 1 \in 1 .. n /\ f[i - 1] \in 1 .. n
    BY <1>1, <2>4
  <2>6. \A i \in 1 .. n : f[i] = IF i = 1 THEN 1
                                 ELSE IF fits(f[i - 1], i) THEN f[i - 1] ELSE i
    <3>1. \A i \in 1 .. n : f[i] = IF i = 1 THEN 1 ELSE step[i][f[i - 1]]
      BY <2>3 DEF Recursive
    <3>2. \A i \in 1 .. n, b \in 1 .. n : step[i][b] = IF fits(b, i) THEN b ELSE i
      OBVIOUS
    <3> HIDE DEF step, fits
    <3> QED
      BY <3>1, <3>2, <2>5
  <2>7. f = [i \in 1 .. n |-> IF i = 1 THEN 1 ELSE IF fits(f[i - 1], i) THEN f[i - 1] ELSE i]
    <3>1. f = [i \in 1 .. n |-> f[i]]
      BY <2>4
    <3> HIDE DEF step, fits
    <3> QED
      BY <2>6, <3>1
  <2> HIDE DEF fits, step
  <2>8. start = [i \in 1 .. n |-> IF i = 1 THEN 1
                                  ELSE IF fits(start[i - 1], i) THEN start[i - 1] ELSE i]
    BY <2>7
  <2> HIDE DEF start
  <2> QED
    BY <2>8
<1> HIDE DEF start, fits
<1>4. 1 \in S /\ S \in SUBSET (1 .. n)
  BY <1>1, <1>3
<1>5. /\ r \in Seq((1 .. n) \X (1 .. n)) /\ r # <<>> /\ Len(r) \in 1 .. n
      /\ Tiles(r, n)
      /\ \A k \in DOMAIN r : r[k][1] \in S /\ \A i \in S : r[k][1] < i => r[k][2] < i
  <2> HIDE DEF S
  <2> QED
    BY <1>1, <1>4, RunsAre
<1>6. ASSUME NEW k \in DOMAIN r, r[k][1] # r[k][2]
      PROVE  fits(r[k][1], r[k][2])
  <2> DEFINE a == r[k][1]
             b == r[k][2]
             Q == {i \in 1 .. n : a <= i /\ i <= b => start[i] = a}
  <2>1. a \in 1 .. n /\ b \in 1 .. n /\ a <= b /\ a < b /\ a \in S
        /\ \A i \in S : a < i => b < i
    <3>1. r[k] \in (1 .. n) \X (1 .. n) /\ r[k][1] <= r[k][2]
      <4>1. \A i \in DOMAIN r : r[i][1] <= r[i][2]
        BY <1>5 DEF Tiles
      <4> HIDE DEF r
      <4> QED
        BY <1>5, <4>1
    <3>2. r[k][1] \in S /\ \A i \in S : r[k][1] < i => r[k][2] < i
      BY <1>5
    <3> HIDE DEF r, S
    <3> QED
      BY <3>1, <3>2, <1>6
  <2> HIDE DEF a, b
  <2>2. n > 0 => 1 \in Q
    <3>1. 1 \in 1 .. n /\ (a <= 1 => a = 1)
      BY <1>1, <2>1
    <3> QED
      BY <3>1, <2>1
  <2>3. \A i \in 1 .. n : i > 1 /\ i - 1 \in Q => i \in Q
    <3> SUFFICES ASSUME NEW i \in 1 .. n, i > 1, i - 1 \in Q, a <= i, i <= b
                 PROVE  start[i] = a
      OBVIOUS
    <3>1. CASE a = i
      BY <3>1, <2>1
    <3>2. CASE a # i
      <4>1. start[i - 1] = a
        BY <3>2, <2>1
      <4>2. i \notin S
        BY <3>2, <2>1
      <4>3. start[i] # i
        BY <4>2
      <4> QED
        BY <4>1, <4>3, <1>3
    <3> QED
      BY <3>1, <3>2
  <2>4. \A i \in 1 .. n : i \in Q
    <3> HIDE DEF Q
    <3> QED
      BY <2>2, <2>3, <1>1, PlaceByPlace
  <2>5. start[b] = a /\ start[b - 1] = a /\ b \in 1 .. n /\ b # 1
    <3>1. b - 1 \in 1 .. n /\ a <= b - 1 /\ b - 1 <= b /\ b # 1
      BY <1>1, <2>1
    <3>2. b \in Q /\ b - 1 \in Q
      BY <2>1, <2>4, <3>1
    <3> QED
      BY <2>1, <3>1, <3>2
  <2>6. fits(start[b - 1], b)
    BY <2>5, <1>3, <2>1
  <2> QED
    BY <2>5, <2>6 DEF a, b
<1> QED
  BY <1>2, <1>5, <1>6 DEF fits, n
\* Items two by two tile them, and are fewer.
LEMMA PairsAre ==
  ASSUME NEW n \in Nat \ {0}
  PROVE  /\ Pairs(n) \in Seq((1 .. n) \X (1 .. n)) /\ Pairs(n) # <<>>
         /\ Tiles(Pairs(n), n)
         /\ n > 1 => Len(Pairs(n)) < n
         /\ \A k \in DOMAIN Pairs(n) : Pairs(n)[k][2] - Pairs(n)[k][1] \in {0, 1}
<1> DEFINE m == (n + 1) \div 2
           p == Pairs(n)
           last(k) == IF 2 * k <= n THEN 2 * k ELSE n
<1>1. /\ m \in Nat \ {0} /\ 2 * m \in {n, n + 1} /\ (n > 1 => m < n)
  OBVIOUS
<1>2. p = [k \in 1 .. m |-> <<2 * k - 1, last(k)>>]
  <2>1. \A k \in 1 .. m : Min({2 * k, n}) = last(k)
    <3> SUFFICES ASSUME NEW k \in 1 .. m PROVE Min({2 * k, n}) = last(k)
      OBVIOUS
    <3>1. 2 * k \in Int /\ n \in Int
      BY <1>1
    <3> QED
      BY <3>1, Extremes
  <2> HIDE DEF last, m
  <2> QED
    BY <2>1 DEF Pairs, m
<1> HIDE DEF m
<1>3. \A k \in 1 .. m : /\ p[k][1] = 2 * k - 1 /\ p[k][2] = last(k)
                        /\ p[k] = <<2 * k - 1, last(k)>>
  BY <1>2
<1>4. \A k \in 1 .. m : 2 * k - 1 \in 1 .. n /\ last(k) \in 1 .. n /\ last(k) - (2 * k - 1) \in {0, 1}
  BY <1>1
<1>5. p \in Seq((1 .. n) \X (1 .. n)) /\ Len(p) = m /\ DOMAIN p = 1 .. m
  <2>1. p \in [1 .. m -> (1 .. n) \X (1 .. n)]
    <3> HIDE DEF p, last
    <3> QED
      BY <1>2, <1>4
  <2> HIDE DEF p
  <2> QED
    BY <1>1, <2>1
<1>6. Tiles(p, n)
  <2>1. p[1][1] = 1 /\ p[m][2] = n
    BY <1>1, <1>3
  <2>2. \A i \in 1 .. m : /\ p[i][1] <= p[i][2]
                          /\ i > 1 => p[i][1] = p[i - 1][2] + 1
    <3> SUFFICES ASSUME NEW i \in 1 .. m
                 PROVE  p[i][1] <= p[i][2] /\ (i > 1 => p[i][1] = p[i - 1][2] + 1)
      OBVIOUS
    <3>1. i > 1 => i - 1 \in 1 .. m /\ last(i - 1) = 2 * i - 2
      BY <1>1
    <3> HIDE DEF p
    <3> QED
      BY <3>1, <1>1, <1>3, <1>4
  <2> HIDE DEF p
  <2> QED
    BY <2>1, <2>2, <1>5 DEF Tiles
<1>7. p # <<>>
  BY <1>1, <1>5
<1> HIDE DEF p, last
<1> QED
  BY <1>1, <1>3, <1>4, <1>5, <1>6, <1>7 DEF p

\* The groups of a pass tile the partial results, are fewer than those, and one of more than two
\* keeps to the budget (_group_drafts).
THEOREM GroupDraftsIs ==
  ASSUME NEW sizes \in Seq(Nat), sizes # <<>>, NEW budget, NEW cap \in Nat
  PROVE  LET n == Len(sizes)
             r == GroupDrafts(sizes, budget, cap)
         IN  /\ r \in Seq((1 .. n) \X (1 .. n)) /\ r # <<>>
             /\ Tiles(r, n)
             /\ n > 1 => Len(r) < n
             /\ \A k \in DOMAIN r : \/ r[k][2] - r[k][1] \in {0, 1}
                                    \/ Load(sizes, 0, r[k][1], r[k][2]) <= budget
<1> DEFINE n == Len(sizes)
           c == Cut(sizes, budget, 0, cap)
           r == GroupDrafts(sizes, budget, cap)
<1>1. n \in Nat \ {0}
  OBVIOUS
<1>2. /\ c \in Seq((1 .. n) \X (1 .. n)) /\ c # <<>> /\ Len(c) \in 1 .. n
      /\ Tiles(c, n)
      /\ \A k \in DOMAIN c : c[k][1] = c[k][2] \/ Load(sizes, 0, c[k][1], c[k][2]) <= budget
  BY CutIs
<1>3. CASE Len(c) = n
  <2>1. r = Pairs(n)
    BY <1>3 DEF GroupDrafts
  <2> HIDE DEF r, n
  <2>2. n > 1 => Len(Pairs(n)) < n
    BY <1>1, PairsAre
  <2> QED
    BY <1>1, <2>1, <2>2, PairsAre DEF r, n
<1>4. CASE Len(c) # n
  <2>1. r = c
    BY <1>4 DEF GroupDrafts
  <2>2. \A k \in DOMAIN c : c[k] \in (1 .. n) \X (1 .. n)
    BY <1>2
  <2>3. Len(c) < n
    BY <1>1, <1>2, <1>4
  <2>4. \A k \in DOMAIN c : c[k][1] = c[k][2] => c[k][2] - c[k][1] = 0
    <3> HIDE DEF c, n
    <3> QED
      BY <2>2
  <2> HIDE DEF r, n, c
  <2> QED
    BY <1>2, <2>1, <2>3, <2>4 DEF r, n
<1> QED
  BY <1>3, <1>4
\* The characters of one item are its size.
LEMMA LoadOfOne ==
  ASSUME NEW sizes \in Seq(Nat), NEW gap \in Int, NEW i \in DOMAIN sizes
  PROVE  Load(sizes, gap, i, i) = sizes[i]
<1> DEFINE f == [k \in i .. i |-> sizes[k]]
           iter == CHOOSE g : g = [s \in SUBSET {i} |-> IF s = {} THEN 0
                     ELSE f[CHOOSE x \in s : TRUE] + g[s \ {CHOOSE x \in s : TRUE}]]
<1>1. i \in Int /\ i .. i = {i} /\ f[i] = sizes[i] /\ sizes[i] \in Nat /\ i - i = 0 /\ gap * 0 = 0
  OBVIOUS
<1>2. FoldFunction(+, 0, f) = iter[{i}]
  BY <1>1 DEF FoldFunction, FoldFunctionOnSet, MapThenFoldSet
<1>3. iter[{i}] = sizes[i]
  <2> DEFINE g == [s \in SUBSET {i} |-> IF s = {} THEN 0 ELSE sizes[i]]
  <2>1. \A s \in SUBSET {i} : s # {} => /\ s = {i} /\ (CHOOSE x \in s : TRUE) = i
                                        /\ s \ {CHOOSE x \in s : TRUE} = {}
    OBVIOUS
  <2>2. {} \in SUBSET {i} /\ {i} \in SUBSET {i} /\ g[{}] = 0
    OBVIOUS
  <2>3. g = [s \in SUBSET {i} |-> IF s = {} THEN 0
                     ELSE f[CHOOSE x \in s : TRUE] + g[s \ {CHOOSE x \in s : TRUE}]]
    OBVIOUS
  <2>4. iter = [s \in SUBSET {i} |-> IF s = {} THEN 0
                     ELSE f[CHOOSE x \in s : TRUE] + iter[s \ {CHOOSE x \in s : TRUE}]]
    BY <2>3
  <2> HIDE DEF iter, f
  <2>5. iter[{}] = 0
    BY <2>4
  <2>6. iter[{i}] = f[i] + iter[{}]
    <3>1. iter[{i}] = IF {i} = {} THEN 0
                      ELSE f[CHOOSE x \in {i} : TRUE] + iter[{i} \ {CHOOSE x \in {i} : TRUE}]
      BY <2>2, <2>4
    <3>2. {i} # {} /\ (CHOOSE x \in {i} : TRUE) = i /\ {i} \ {i} = {}
      OBVIOUS
    <3> QED
      BY <3>1, <3>2
  <2> QED
    BY <1>1, <2>5, <2>6
<1>4. Load(sizes, gap, i, i) = iter[{i}] + gap * (i - i)
  BY <1>2 DEF Load
<1> HIDE DEF iter
<1> QED
  BY <1>1, <1>3, <1>4

\* The parts of a segment's text: one at least, each with as much as there is room for at most.
LEMMA PartsAre ==
  ASSUME NEW length \in Nat, NEW room \in Nat \ {0}
  PROVE  /\ Parts(length, room) \in Seq(0 .. room) /\ Parts(length, room) # <<>>
<1> DEFINE q == (length + room - 1) \div room
           n == IF 1 <= q THEN q ELSE 1
<1>1. q \in Int /\ q * room <= length + room - 1 /\ length + room - 1 < q * room + room
  OBVIOUS
<1>2. n = Max({1, q})
  <2> HIDE DEF q
  <2>1. q \in Int /\ 1 \in Int
    BY <1>1
  <2>2. Max({1, q}) = IF 1 <= q THEN q ELSE 1
    BY <2>1, Extremes
  <2> QED
    BY <2>2
<1>3. n \in Nat \ {0} /\ length - (n - 1) * room \in 0 .. room
  BY <1>1
<1> HIDE DEF q
<1>4. Parts(length, room) = [k \in 1 .. n |-> IF k < n THEN room ELSE length - (n - 1) * room]
  BY <1>2 DEF Parts, q
<1> HIDE DEF n
<1>5. Parts(length, room) \in [1 .. n -> 0 .. room]
  BY <1>3, <1>4
<1> QED
  BY <1>3, <1>5

\* The pieces of a transcript that has segments: one at least, and none is larger than a prompt.
LEMMA PieceSizesAre ==
  ASSUME NEW lengths \in Seq(Nat), NEW prefix \in Nat, NEW budget \in Nat, prefix + 1 < budget
  PROVE  /\ PieceSizes(lengths, prefix, budget) \in Seq(0 .. budget)
         /\ lengths # <<>> => PieceSizes(lengths, prefix, budget) # <<>>
<1> DEFINE room == budget - prefix - 1
           sized(length) == [k \in DOMAIN Parts(length, room) |-> prefix + Parts(length, room)[k] + 1]
           seqs == [i \in DOMAIN lengths |-> sized(lengths[i])]
<1>1. room \in Nat \ {0} /\ \A x \in 0 .. room : prefix + x + 1 \in 0 .. budget
  OBVIOUS
<1> HIDE DEF room
<1>2. ASSUME NEW length \in Nat
      PROVE  sized(length) \in Seq(0 .. budget) /\ sized(length) # <<>>
  <2> DEFINE parts == Parts(length, room)
             m == Len(parts)
  <2>1. parts \in Seq(0 .. room) /\ parts # <<>>
    BY <1>1, PartsAre
  <2> HIDE DEF parts
  <2>2. m \in Nat \ {0} /\ DOMAIN parts = 1 .. m
    BY <2>1
  <2>5. \A k \in 1 .. m : parts[k] \in 0 .. room
    BY <2>1, ElementOfSeq
  <2> HIDE DEF m
  <2>3. sized(length) = [k \in 1 .. m |-> prefix + parts[k] + 1]
    BY <2>2 DEF parts
  <2>4. sized(length) \in [1 .. m -> 0 .. budget]
    BY <1>1, <2>2, <2>3, <2>5
  <2> HIDE DEF sized
  <2> QED
    BY <2>2, <2>4
<1> HIDE DEF sized
<1>3. seqs \in Seq(Seq(0 .. budget)) /\ Len(seqs) = Len(lengths)
      /\ \A i \in DOMAIN lengths : seqs[i] = sized(lengths[i])
  <2> DEFINE m == Len(lengths)
  <2>1. m \in Nat /\ DOMAIN lengths = 1 .. m /\ \A i \in 1 .. m : lengths[i] \in Nat
    OBVIOUS
  <2> HIDE DEF m
  <2>2. seqs \in [1 .. m -> Seq(0 .. budget)]
    BY <1>2, <2>1
  <2>3. \A i \in DOMAIN lengths : seqs[i] = sized(lengths[i])
    OBVIOUS
  <2> HIDE DEF seqs
  <2>4. seqs \in Seq(Seq(0 .. budget)) /\ Len(seqs) = m
    BY <2>1, <2>2
  <2> QED
    BY <2>3, <2>4 DEF m
<1>4. PieceSizes(lengths, prefix, budget) = FlattenSeq(seqs)
  BY DEF PieceSizes, sized, room
<1> HIDE DEF seqs
<1>5. FlattenSeq(seqs) \in Seq(0 .. budget)
      /\ \E at : Traces(at, FlattenSeq(seqs), seqs, Len(seqs))
  BY <1>3, FlattenSeqIs
<1>6. ASSUME lengths # <<>>
      PROVE  FlattenSeq(seqs) # <<>>
  <2>1. 1 \in DOMAIN lengths /\ 1 \in 1 .. Len(seqs) /\ lengths[1] \in Nat
    BY <1>3, <1>6
  <2>2. seqs[1] \in Seq(0 .. budget) /\ seqs[1] # <<>>
    BY <1>2, <1>3, <2>1
  <2>3. 1 \in DOMAIN seqs[1]
    BY <2>2
  <2>4. \E p \in 1 .. Len(FlattenSeq(seqs)) : TRUE
    BY <1>5, <2>1, <2>3 DEF Traces
  <2> QED
    BY <1>5, <2>4
<1> QED
  BY <1>4, <1>5, <1>6
\* Spans that tile 1 .. n end one after the other.
LEMMA TilesAscend ==
  ASSUME NEW m \in Nat \ {0}, NEW n \in Int, NEW spans \in Seq(Int \X Int), Len(spans) = m,
         Tiles(spans, n), NEW i \in 1 .. m, NEW j \in 1 .. m, i <= j
  PROVE  spans[i][1] <= spans[j][2]
<1> DEFINE Q == {k \in 1 .. m : i <= k => spans[i][1] <= spans[k][2]}
<1>1. \A k \in 1 .. m : /\ spans[k][1] \in Int /\ spans[k][2] \in Int
                        /\ spans[k][1] <= spans[k][2]
                        /\ k > 1 => spans[k][1] = spans[k - 1][2] + 1
  <2>1. DOMAIN spans = 1 .. m /\ \A k \in 1 .. m : spans[k] \in Int \X Int
    OBVIOUS
  <2> QED
    BY <2>1 DEF Tiles
<1>2. m > 0 => 1 \in Q
  BY <1>1
<1>3. \A k \in 1 .. m : k > 1 /\ k - 1 \in Q => k \in Q
  <2> SUFFICES ASSUME NEW k \in 1 .. m, k > 1, k - 1 \in Q, i <= k
               PROVE  spans[i][1] <= spans[k][2]
    OBVIOUS
  <2>1. CASE i = k
    BY <2>1, <1>1
  <2>2. CASE i # k
    <3>1. k - 1 \in 1 .. m /\ i <= k - 1
      BY <2>2, SMTT(30)
    <3>2. spans[i][1] <= spans[k - 1][2]
      BY <3>1
    <3>3. /\ spans[i][1] \in Int /\ spans[k - 1][2] \in Int /\ spans[k][2] \in Int
          /\ spans[k - 1][2] + 1 <= spans[k][2]
      BY <3>1, <1>1
    <3> HIDE DEF Q
    <3> QED
      BY <3>2, <3>3, SMTT(30)
  <2> QED
    BY <2>1, <2>2
<1>4. \A k \in 1 .. m : k \in Q
  <2> HIDE DEF Q
  <2> QED
    BY <1>2, <1>3, PlaceByPlace
<1> QED
  BY <1>4

\* Groups that tile the spans, which tile 1 .. n, tile 1 .. n.
LEMMA TilesOfTiles ==
  ASSUME NEW m \in Nat \ {0}, NEW n \in Int, NEW spans \in Seq(Int \X Int), Len(spans) = m,
         Tiles(spans, n), NEW r \in Seq((1 .. m) \X (1 .. m)), r # <<>>, Tiles(r, m)
  PROVE  Tiles([k \in DOMAIN r |-> <<spans[r[k][1]][1], spans[r[k][2]][2]>>], n)
<1> DEFINE l == Len(r)
           g == [k \in DOMAIN r |-> <<spans[r[k][1]][1], spans[r[k][2]][2]>>]
<1>1. /\ l \in Nat \ {0} /\ DOMAIN r = 1 .. l
      /\ \A k \in 1 .. l : r[k][1] \in 1 .. m /\ r[k][2] \in 1 .. m
  OBVIOUS
<1>2. /\ r[1][1] = 1 /\ r[l][2] = m
      /\ \A k \in 1 .. l : r[k][1] <= r[k][2] /\ (k > 1 => r[k][1] = r[k - 1][2] + 1)
  BY <1>1 DEF Tiles
<1>3. /\ spans[1][1] = 1 /\ spans[m][2] = n
      /\ \A k \in 1 .. m : k > 1 => spans[k][1] = spans[k - 1][2] + 1
  <2>1. DOMAIN spans = 1 .. m
    OBVIOUS
  <2> QED
    BY <2>1 DEF Tiles
<1>4. \A k \in 1 .. l : g[k] = <<spans[r[k][1]][1], spans[r[k][2]][2]>>
  BY <1>1
<1>5. Len(g) = l /\ DOMAIN g = 1 .. l
  <2> HIDE DEF l
  <2>1. g = [k \in 1 .. l |-> <<spans[r[k][1]][1], spans[r[k][2]][2]>>]
    BY <1>1
  <2> HIDE DEF g
  <2> QED
    BY <1>1, <2>1
<1> HIDE DEF g, l
<1>6. \A k \in 1 .. l : g[k][1] <= g[k][2]
  <2> SUFFICES ASSUME NEW k \in 1 .. l PROVE g[k][1] <= g[k][2]
    OBVIOUS
  <2>1. spans[r[k][1]][1] <= spans[r[k][2]][2]
    BY <1>1, <1>2, TilesAscend
  <2> QED
    BY <2>1, <1>4, SMTT(30)
<1>7. \A k \in 1 .. l : k > 1 => g[k][1] = g[k - 1][2] + 1
  <2> SUFFICES ASSUME NEW k \in 1 .. l, k > 1 PROVE g[k][1] = g[k - 1][2] + 1
    OBVIOUS
  <2>1. k - 1 \in 1 .. l /\ r[k][1] = r[k - 1][2] + 1
    BY <1>1, <1>2
  <2> DEFINE a == r[k][1]
             b == r[k - 1][2]
  <2>4. a \in 1 .. m /\ b \in 1 .. m /\ a = b + 1
    BY <1>1, <2>1
  <2>2. b \in 1 .. m /\ a \in 1 .. m /\ a > 1 /\ a - 1 = b
    <3> HIDE DEF a, b
    <3> QED
      BY <2>4
  <2>3. spans[r[k][1]][1] = spans[r[k - 1][2]][2] + 1
    BY <1>3, <2>2
  <2>5. g[k] = <<spans[r[k][1]][1], spans[r[k][2]][2]>>
        /\ g[k - 1] = <<spans[r[k - 1][1]][1], spans[r[k - 1][2]][2]>>
    BY <2>1, <1>4
  <2> QED
    BY <2>3, <2>5
<1>8. g[1][1] = 1 /\ g[l][2] = n
  BY <1>1, <1>2, <1>3, <1>4
<1>9. Tiles(g, n)
  BY <1>5, <1>6, <1>7, <1>8 DEF Tiles
<1> QED
  BY <1>9 DEF g
--------------------------------------------------------------------------------
(* The reading of a reply. *)

\* A set of places in a text has a last one: of the intervals from a place to the end of the text
\* one holds no other, strict inclusion of finite sets being well founded.
LEMMA LastExists ==
  ASSUME NEW n \in Nat, NEW S \in SUBSET (1 .. n), S # {}
  PROVE  Max(S) \in S /\ \A y \in S : y <= Max(S)
<1> DEFINE I == 1 .. n
           T == {x .. n : x \in S}
<1>1. IsWellFoundedOn(StrictSubsetOrdering(I), SUBSET I)
  <2>1. IsFiniteSet(I)
    BY FS_Interval
  <2> QED
    BY <2>1, FS_FiniteSubsetsOfFinite, FS_StrictSubsetOrderingWellFounded
<1>2. T \subseteq SUBSET I /\ T # {}
  <2>1. \A x \in S : x .. n \in SUBSET I
    OBVIOUS
  <2> QED
    BY <2>1
<1>3. PICK t \in T : \A u \in T : ~(<<u, t>> \in StrictSubsetOrdering(I))
  <2> HIDE DEF I, T
  <2> QED
    BY <1>1, <1>2, WFMin
<1>4. PICK x \in S : t = x .. n
  BY <1>3
<1>5. ASSUME NEW y \in S PROVE y <= x
  <2> SUFFICES ASSUME x < y PROVE FALSE
    OBVIOUS
  <2>1. y .. n \subseteq x .. n /\ x \in x .. n /\ x \notin y .. n
    OBVIOUS
  <2>2. y .. n \in SUBSET I /\ x .. n \in SUBSET I /\ y .. n \in T
    BY <1>2
  <2>3. <<y .. n, x .. n>> \in StrictSubsetOrdering(I)
    BY <2>1, <2>2 DEF StrictSubsetOrdering
  <2> QED
    BY <2>2, <2>3, <1>3, <1>4
<1>6. \E m \in S : \A y \in S : m >= y
  BY <1>5
<1> QED
  BY <1>6 DEF Max

\* And a first one.
LEMMA FirstExists ==
  ASSUME NEW n \in Nat, NEW S \in SUBSET (1 .. n), S # {}
  PROVE  Min(S) \in S /\ \A y \in S : Min(S) <= y
<1> DEFINE R == {p \in S \X S : p[2] <= p[1]}
<1>1. IsFiniteSet(S)
  <2>1. IsFiniteSet(1 .. n)
    BY FS_Interval
  <2> QED
    BY <2>1, FS_Subset
<1>2. /\ \A x, y \in S : <<x, y>> \in R \/ <<y, x>> \in R
      /\ \A x, y, z \in S : <<x, y>> \in R /\ <<y, z>> \in R => <<x, z>> \in R
  OBVIOUS
<1>3. PICK m \in S : \A x \in S : <<x, m>> \in R
  <2> HIDE DEF R
  <2> QED
    BY <1>1, <1>2, LastMember
<1>4. \A x \in S : m =< x
  BY <1>3
<1> QED
  BY <1>4 DEF Min

\* LastOf is the last place, or before the first one when there is none.
LEMMA LastOfPlaces ==
  ASSUME NEW n \in Nat, NEW S \in SUBSET (1 .. n)
  PROVE  /\ LastOf(S) \in 0 .. n
         /\ LastOf(S) = 0 <=> S = {}
         /\ S # {} => LastOf(S) \in S
         /\ \A y \in S : y <= LastOf(S)
<1>1. CASE S = {}
  BY <1>1 DEF LastOf
<1>2. CASE S # {}
  <2>1. Max(S) \in S /\ \A y \in S : y <= Max(S)
    BY <1>2, LastExists
  <2>2. LastOf(S) = Max(S)
    BY <1>2 DEF LastOf
  <2>3. LastOf(S) \in S /\ LastOf(S) \in 1 .. n
    BY <2>1, <2>2
  <2>4. \A y \in S : y <= LastOf(S)
    BY <2>1, <2>2
  <2>5. LastOf(S) \in 0 .. n /\ LastOf(S) # 0
    BY <2>3
  <2> QED
    BY <1>2, <2>3, <2>4, <2>5
<1> QED
  BY <1>1, <1>2

\* _inside_reasoning passes over an object exactly when a block of reasoning was open at it: one
\* that closes after the object, or never, whatever other blocks and quoted marks are about.
THEOREM InsideReasoningIsThought ==
  ASSUME NEW text \in Seq(Tokens), NEW i \in DOMAIN text
  PROVE  InsideReasoning(text, i) <=> Thought(text, i)
<1> DEFINE n == Len(text)
           before(m) == {k \in At(text, Opens(m)) : k < i}
           closes(m) == At(text, Closes(m))
<1>1. n \in Nat /\ i \in 1 .. n
  OBVIOUS
<1>2. ASSUME NEW m \in Marks PROVE before(m) \subseteq 1 .. n /\ closes(m) \subseteq 1 .. n
  BY DEF At
<1>3. ASSUME NEW m \in Marks, NEW k \in before(m) PROVE k \notin closes(m)
  <2>1. /\ Opens(m).is = "opener" /\ Closes(m).is = "closer"
    BY DEF Opens, Closes
  <2> QED
    BY <2>1 DEF At
<1>4. ASSUME NEW m \in Marks
      PROVE  (/\ LastOf(before(m)) # 0
              /\ \/ LastOf(closes(m)) < LastOf(before(m))
                 \/ LastOf(closes(m)) >= i)
             <=> \E o \in At(text, Opens(m)) :
                   /\ o < i
                   /\ \/ \E c \in closes(m) : c >= i
                      \/ ~\E c \in closes(m) : o < c
  <2> DEFINE opened == LastOf(before(m))
             closed == LastOf(closes(m))
  <2>1. /\ opened \in 0 .. n /\ (opened = 0 <=> before(m) = {})
        /\ before(m) # {} => opened \in before(m)
        /\ \A y \in before(m) : y <= opened
    BY <1>1, <1>2, LastOfPlaces
  <2>2. /\ closed \in 0 .. n /\ (closed = 0 <=> closes(m) = {})
        /\ closes(m) # {} => closed \in closes(m)
        /\ \A y \in closes(m) : y <= closed
    BY <1>1, <1>2, LastOfPlaces
  <2>3. /\ \A o : o \in before(m) <=> o \in At(text, Opens(m)) /\ o < i
        /\ before(m) \subseteq 1 .. n /\ closes(m) \subseteq 1 .. n
        /\ \A k \in before(m) : k \notin closes(m)
    BY <1>2, <1>3
  <2> SUFFICES (opened # 0 /\ (closed < opened \/ closed >= i))
               <=> \E o \in before(m) : \/ \E c \in closes(m) : c >= i
                                        \/ ~\E c \in closes(m) : o < c
    OBVIOUS
  <2> HIDE DEF opened, closed, before, closes, n
  <2>4. CASE opened = 0
    BY <2>1, <2>3, <2>4
  <2>5. CASE opened # 0
    <3>1. opened \in before(m)
      BY <2>1, <2>5
    <3>2. ASSUME closed < opened
          PROVE  ~\E c \in closes(m) : opened < c
      BY <3>2, <2>1, <2>2, <2>3
    <3>3. ASSUME closed >= i
          PROVE  \E c \in closes(m) : c >= i
      BY <3>3, <2>2, <1>1
    <3>4. ASSUME NEW o \in before(m), ~\E c \in closes(m) : o < c
          PROVE  closed < opened \/ closed >= i
      BY <3>4, <3>1, <2>1, <2>2, <2>3, <1>1
    <3>5. ASSUME NEW c \in closes(m), c >= i
          PROVE  closed >= i
      BY <3>5, <2>2, <2>3, <1>1
    <3> QED
      BY <3>1, <3>2, <3>3, <3>4, <3>5, <2>5
  <2> QED
    BY <2>4, <2>5
<1> QED
  BY <1>4 DEF InsideReasoning, Thought

\* What _inside_reasoning does not pass over is no draft of a block that is still open, except
\* where its comment says so: after a quoted close mark, when none follows the object.
THEOREM DraftsArePassedOver ==
  ASSUME NEW text \in Seq(Tokens), NEW i \in DOMAIN text, ~InsideReasoning(text, i)
  PROVE  DraftsOnlyAfterQuoting(text, i)
<1> SUFFICES ASSUME NEW m \in Marks, NEW o \in DOMAIN text, ThinkingSince(text, i, m, o)
             PROVE  StoppedAfterQuoting(text, i, m, o)
  BY DEF DraftsOnlyAfterQuoting
<1> DEFINE closes == At(text, Closes(m))
<1>1. o \in At(text, Opens(m)) /\ o < i
  BY DEF ThinkingSince, At
<1>2. (~\E c \in closes : c >= i) /\ \E c \in closes : o < c
  BY <1>1, InsideReasoningIsThought DEF Thought
<1>3. o \in Nat /\ i \in Nat /\ DOMAIN text \subseteq Nat /\ closes \subseteq DOMAIN text
  BY DEF At
<1>4. \A c \in closes : c < i
  BY <1>2, <1>3
<1>5. PICK c \in closes : o < c
  BY <1>2
<1>6. c \in o + 1 .. i - 1
  BY <1>3, <1>4, <1>5
<1>7. text[c] # Closes(m)
  BY <1>6 DEF ThinkingSince
<1>8. text[c].is = "object" /\ text[c].quoted = Closes(m)
  BY <1>7 DEF At
<1> QED
  BY <1>4, <1>6, <1>8 DEF StoppedAfterQuoting

Candidate == [place : Nat, fits : BOOLEAN]

\* The candidates of a value are from the last one to the first, and those that fit the schema
\* are the answers in it.
LEMMA CandidatesAre ==
  ASSUME NEW v \in Values
  PROVE  LET c == Candidates(v)
         IN  /\ c \in Seq(Candidate)
             /\ \A i, j \in DOMAIN c : i < j => c[i].place > c[j].place
             /\ \A i \in DOMAIN c : c[i].fits => c[i].place \in AnswersIn(v)
             /\ \A p \in AnswersIn(v) : \E i \in DOMAIN c : c[i].fits /\ c[i].place = p
<1> DEFINE c == Candidates(v)
<1>1. CASE v.is = "none"
  <2>1. c = <<>> /\ AnswersIn(v) = {}
    BY <1>1 DEF Candidates, AnswersIn
  <2> QED
    BY <2>1
<1>2. CASE v.is = "object"
  <2>1. v.fits \in BOOLEAN
    BY <1>2 DEF Values, Texts
  <2>2. c = << [place |-> 1, fits |-> v.fits] >> /\ AnswersIn(v) = {i \in {1} : v.fits}
    BY <1>2 DEF Candidates, AnswersIn
  <2>3. c \in Seq(Candidate) /\ DOMAIN c = {1} /\ c[1].place = 1 /\ c[1].fits = v.fits
    BY <2>1, <2>2 DEF Candidate
  <2> HIDE DEF c
  <2> QED
    BY <2>2, <2>3 DEF c
<1>3. CASE v.is = "text"
  <2> DEFINE text == v.text
             n == Len(text)
             S == {i \in DOMAIN text : text[i].is = "object" /\ ~InsideReasoning(text, i)}
             places == ObjectsIn(text)
             m == Len(places)
  <2>1. text \in Seq(Tokens)
    BY <1>3 DEF Values, Texts
  <2> HIDE DEF text
  <2>2. n \in Nat /\ DOMAIN text = 1 .. n /\ \A i \in 1 .. n : text[i] \in Tokens
    BY <2>1, SequenceHas
  <2> HIDE DEF n
  <2>3. \A i \in 1 .. n : text[i].is = "object" => text[i].fits \in BOOLEAN
    BY <2>2 DEF Tokens, Opens, Closes, Object
  <2>4. S \in SUBSET (1 .. n) /\ S \in SUBSET Int /\ IsFiniteSet(S)
    <3>1. S \in SUBSET (1 .. n)
      BY <2>2
    <3>2. IsFiniteSet(1 .. n)
      BY <2>2, FS_Interval
    <3>3. S \in SUBSET Int
      BY <3>1
    <3> HIDE DEF S
    <3>4. IsFiniteSet(S)
      BY <3>1, <3>2, FS_Subset
    <3> QED
      BY <3>1, <3>3, <3>4
  <2>5. /\ places \in Seq(S) /\ \A x \in S : \E i \in DOMAIN places : places[i] = x
        /\ \A i, j \in DOMAIN places : i < j => places[i] > places[j]
    <3>1. places = Arranged(S, >)
      BY DEF ObjectsIn
    <3> HIDE DEF places, S
    <3> QED
      BY <2>4, <3>1, DescendingIs
  <2>6. c = [k \in DOMAIN places |-> [place |-> places[k], fits |-> text[places[k]].fits]]
    BY <1>3 DEF Candidates, text
  <2>7. AnswersIn(v) = {i \in 1 .. n : text[i].is = "object" /\ text[i].fits /\ ~Thought(text, i)}
    BY <1>3, <2>2 DEF AnswersIn, text
  <2>8. \A i \in 1 .. n : i \in S <=> text[i].is = "object" /\ ~Thought(text, i)
    BY <2>1, <2>2, InsideReasoningIsThought
  <2> HIDE DEF places, S, c
  <2>9. m \in Nat /\ DOMAIN places = 1 .. m /\ \A k \in 1 .. m : places[k] \in S
    BY <2>5, SequenceHas
  <2> HIDE DEF m
  <2>10. /\ DOMAIN c = 1 .. m
         /\ \A k \in 1 .. m : c[k] = [place |-> places[k], fits |-> text[places[k]].fits]
         /\ c = [k \in 1 .. m |-> c[k]]
    BY <2>6, <2>9
  <2>11. \A k \in 1 .. m : places[k] \in 1 .. n /\ text[places[k]].is = "object" /\ text[places[k]].fits \in BOOLEAN
                           /\ ~Thought(text, places[k])
    BY <2>3, <2>4, <2>8, <2>9
  <2>12. c \in Seq(Candidate)
    <3>1. c \in [1 .. m -> Candidate]
      <4>1. \A k \in 1 .. m : c[k] \in Candidate
        BY <2>10, <2>11 DEF Candidate
      <4> QED
        BY <2>10, <4>1
    <3> QED
      BY <2>9, <3>1, SequenceIs
  <2>13. \A i, j \in DOMAIN c : i < j => c[i].place > c[j].place
    BY <2>5, <2>9, <2>10
  <2>14. \A i \in DOMAIN c : c[i].fits => c[i].place \in AnswersIn(v)
    BY <2>7, <2>10, <2>11
  <2>15. ASSUME NEW p \in AnswersIn(v)
         PROVE  \E i \in DOMAIN c : c[i].fits /\ c[i].place = p
    <3>1. p \in S /\ text[p].fits
      BY <2>7, <2>8
    <3>2. PICK i \in 1 .. m : places[i] = p
      BY <2>5, <2>9, <3>1
    <3> QED
      BY <2>10, <3>1, <3>2
  <2> QED
    BY <2>12, <2>13, <2>14, <2>15 DEF c
<1> QED
  BY <1>1, <1>2, <1>3 DEF Values, Texts

\* structured_payload: the last answer of `parsed`, or else the last one of `content`.
THEOREM PayloadIs ==
  ASSUME NEW r \in [parsed : Values, content : Values]
  PROVE  LET answers(f) == {[field |-> f, place |-> Max(AnswersIn(r[f])), fits |-> TRUE] :
                              i \in AnswersIn(r[f])}
         IN Range(Payload(r)) = IF answers("parsed") # {} THEN answers("parsed") ELSE answers("content")
<1> DEFINE answers(f) == {[field |-> f, place |-> Max(AnswersIn(r[f])), fits |-> TRUE] :
                            i \in AnswersIn(r[f])}
           of(f) == Candidates(r[f])
           from(f) == [k \in DOMAIN of(f) |-> [field |-> f, place |-> of(f)[k].place, fits |-> of(f)[k].fits]]
           a == from("parsed")
           b == from("content")
           all == a \o b
           I == {i \in 1 .. Len(all) : all[i].fits}
           first == IF I # {} THEN Min(I) ELSE 0
           Fields == {"parsed", "content"}
           C == [field : Fields, place : Nat, fits : BOOLEAN]
<1> SUFFICES Range(Payload(r)) = IF answers("parsed") # {} THEN answers("parsed") ELSE answers("content")
  OBVIOUS
<1>1. Payload(r) = IF first = 0 THEN <<>> ELSE << all[first] >>
  BY DEF Payload, SelectInSeq
<1>2. ASSUME NEW f \in Fields
      PROVE  /\ from(f) \in Seq(C)
             /\ \A i \in DOMAIN from(f) : from(f)[i].fits => AnswersIn(r[f]) # {}
             /\ AnswersIn(r[f]) # {} => \E i \in DOMAIN from(f) : from(f)[i].fits
             /\ \A i \in DOMAIN from(f) :
                  /\ from(f)[i].fits
                  /\ \A j \in DOMAIN from(f) : from(f)[j].fits => i <= j
                  => answers(f) = {from(f)[i]}
  <2> DEFINE c == of(f)
             m == Len(c)
             d == from(f)
             A == AnswersIn(r[f])
  <2>1. r[f] \in Values
    OBVIOUS
  <2>2. /\ c \in Seq(Candidate)
        /\ \A i, j \in DOMAIN c : i < j => c[i].place > c[j].place
        /\ \A i \in DOMAIN c : c[i].fits => c[i].place \in A
        /\ \A p \in A : \E i \in DOMAIN c : c[i].fits /\ c[i].place = p
    BY <2>1, CandidatesAre
  <2>3. d = [k \in DOMAIN c |-> [field |-> f, place |-> c[k].place, fits |-> c[k].fits]]
    OBVIOUS
  <2>4. answers(f) = {[field |-> f, place |-> Max(A), fits |-> TRUE] : i \in A}
    OBVIOUS
  <2> HIDE DEF A, from, of, answers
  <2>5. m \in Nat /\ DOMAIN c = 1 .. m /\ \A k \in 1 .. m : c[k].place \in Nat /\ c[k].fits \in BOOLEAN
    <3>1. m \in Nat /\ DOMAIN c = 1 .. m /\ \A k \in 1 .. m : c[k] \in Candidate
      BY <2>2, SequenceHas
    <3> HIDE DEF m, c
    <3> QED
      BY <3>1 DEF Candidate
  <2> HIDE DEF m, c
  <2>6. /\ DOMAIN d = 1 .. m /\ d = [k \in 1 .. m |-> d[k]]
        /\ \A k \in 1 .. m : d[k] = [field |-> f, place |-> c[k].place, fits |-> c[k].fits]
    BY <2>3, <2>5
  <2> HIDE DEF d
  <2>7. d \in Seq(C)
    <3>1. \A k \in 1 .. m : d[k] \in C
      BY <2>5, <2>6
    <3>2. d \in [1 .. m -> C]
      BY <2>6, <3>1
    <3> HIDE DEF C
    <3> QED
      BY <2>5, <3>2, SequenceIs
  <2>8. ASSUME NEW i \in 1 .. m, d[i].fits, \A j \in 1 .. m : d[j].fits => i <= j
        PROVE  answers(f) = {d[i]}
    <3>1. c[i].fits = TRUE /\ c[i].place \in A
      BY <2>2, <2>5, <2>6, <2>8
    <3>2. \A p \in A : p \in Nat /\ c[i].place >= p
      <4> SUFFICES ASSUME NEW p \in A PROVE p \in Nat /\ c[i].place >= p
        OBVIOUS
      <4>1. PICK j \in 1 .. m : c[j].fits /\ c[j].place = p
        BY <2>2, <2>5
      <4>2. i <= j
        BY <2>6, <2>8, <4>1
      <4>3. i = j \/ i < j
        BY <2>5, <4>2
      <4>4. i < j => c[i].place > c[j].place
        BY <2>2, <2>5
      <4> QED
        BY <2>5, <4>1, <4>3, <4>4
    <3>3. Max(A) = c[i].place
      <4>1. Max(A) \in A /\ \A y \in A : Max(A) >= y
        BY <3>1, <3>2 DEF Max
      <4> QED
        BY <3>1, <3>2, <4>1
    <3>4. d[i] = [field |-> f, place |-> Max(A), fits |-> TRUE]
      BY <2>6, <3>1, <3>3
    <3> QED
      BY <2>4, <3>1, <3>4
  <2>9. \A i \in 1 .. m : d[i].fits => A # {}
    BY <2>2, <2>5, <2>6
  <2>10. A # {} => \E i \in 1 .. m : d[i].fits
    BY <2>2, <2>5, <2>6
  <2> QED
    BY <2>6, <2>7, <2>8, <2>9, <2>10 DEF A, d
<1>3. \A f \in Fields : answers(f) # {} <=> AnswersIn(r[f]) # {}
  OBVIOUS
<1> HIDE DEF answers, from, C
<1>4. a \in Seq(C) /\ b \in Seq(C)
  BY <1>2
<1> DEFINE m == Len(a)
           n == Len(b)
<1>5. m \in Nat /\ n \in Nat /\ DOMAIN a = 1 .. m /\ DOMAIN b = 1 .. n
  BY <1>4, SequenceHas
<1>6. /\ all \in Seq(C) /\ Len(all) = m + n
      /\ \A i \in 1 .. m + n : all[i] = IF i <= m THEN a[i] ELSE b[i - m]
  <2> HIDE DEF a, b
  <2> QED
    BY <1>4, ConcatProperties
<1> HIDE DEF a, b, all
<1>7. I = {i \in 1 .. m + n : all[i].fits}
  BY <1>6
<1> HIDE DEF m, n, I
<1>8. I # {} => first \in I /\ first \in 1 .. m + n /\ \A i \in I : first <= i
  <2>1. I \in SUBSET (1 .. m + n) /\ m + n \in Nat
    BY <1>5, <1>7
  <2> QED
    BY <2>1, FirstExists
<1>9. Range(Payload(r)) = IF I = {} THEN {} ELSE {all[first]}
  <2>1. CASE I = {}
    BY <1>1, <2>1 DEF Range
  <2>2. CASE I # {}
    <3>1. first # 0
      BY <1>5, <1>8, <2>2
    <3> HIDE DEF first
    <3>2. Payload(r) = << all[first] >>
      BY <1>1, <3>1
    <3> QED
      BY <2>2, <3>2 DEF Range
  <2> QED
    BY <2>1, <2>2
<1>10. /\ \A i \in 1 .. m : a[i].fits <=> i \in I
       /\ \A i \in 1 .. n : b[i].fits <=> i + m \in I
  <2>1. \A i \in 1 .. m : i \in 1 .. m + n /\ all[i] = a[i]
    BY <1>5, <1>6
  <2>2. ASSUME NEW i \in 1 .. n
        PROVE  i + m \in 1 .. m + n /\ all[i + m] = b[i]
    <3>1. i + m \in 1 .. m + n /\ ~(i + m <= m) /\ (i + m) - m = i
      BY <1>5
    <3> QED
      BY <3>1, <1>6
  <2> QED
    BY <2>1, <2>2, <1>7
<1> HIDE DEF first
<1>11. CASE answers("parsed") # {}
  <2>1. AnswersIn(r["parsed"]) # {} /\ "parsed" \in Fields
    BY <1>3, <1>11
  <2>2. PICK k \in 1 .. m : a[k].fits
    BY <1>2, <1>5, <2>1 DEF a
  <2>3. k \in I /\ first <= k /\ first \in 1 .. m /\ first \in I
    <3>1. k \in I /\ first <= k /\ first \in 1 .. m + n /\ first \in I
      BY <1>8, <1>10, <2>2
    <3> QED
      BY <3>1, <1>5
  <2>4. all[first] = a[first] /\ a[first].fits
    BY <1>5, <1>6, <1>10, <2>3
  <2>5. \A j \in 1 .. m : a[j].fits => first <= j
    BY <1>8, <1>10, <2>3
  <2>6. answers("parsed") = {a[first]}
    BY <1>2, <1>5, <2>1, <2>3, <2>4, <2>5 DEF a
  <2> QED
    BY <1>9, <1>11, <2>3, <2>4, <2>6
<1>12. CASE answers("parsed") = {}
  <2>1. AnswersIn(r["parsed"]) = {} /\ "parsed" \in Fields /\ "content" \in Fields
    BY <1>3, <1>12
  <2>2. \A i \in 1 .. m : i \notin I
    BY <1>2, <1>5, <1>10, <2>1 DEF a
  <2>3. CASE answers("content") = {}
    <3>1. \A i \in 1 .. n : i + m \notin I
      BY <1>2, <1>3, <1>5, <1>10, <2>1, <2>3 DEF b
    <3>2. I = {}
      <4> SUFFICES ASSUME NEW i \in I PROVE FALSE
        OBVIOUS
      <4>1. i \in 1 .. m \/ (i - m \in 1 .. n /\ (i - m) + m = i)
        BY <1>5, <1>7
      <4> QED
        BY <4>1, <2>2, <3>1
    <3> QED
      BY <1>9, <1>12, <2>3, <3>2
  <2>4. CASE answers("content") # {}
    <3>1. AnswersIn(r["content"]) # {}
      BY <1>3, <2>1, <2>4
    <3>2. PICK k \in 1 .. n : b[k].fits
      BY <1>2, <1>5, <2>1, <3>1 DEF b
    <3>3. k + m \in I /\ first \in I /\ first \in 1 .. m + n /\ first \notin 1 .. m
      BY <1>8, <1>10, <2>2, <3>2
    <3> DEFINE j == first - m
    <3>4. j \in 1 .. n /\ j + m = first
      BY <1>5, <3>3
    <3>5. all[first] = b[j] /\ b[j].fits
      <4>1. ~(first <= m)
        BY <1>5, <3>3
      <4> QED
        BY <4>1, <1>6, <1>10, <3>3, <3>4
    <3>6. \A i \in 1 .. n : b[i].fits => j <= i
      <4> SUFFICES ASSUME NEW i \in 1 .. n, b[i].fits PROVE j <= i
        OBVIOUS
      <4>1. first <= i + m
        BY <1>8, <1>10, <3>3
      <4> QED
        BY <4>1, <1>5, <3>3
    <3> HIDE DEF j
    <3>7. answers("content") = {b[j]}
      BY <1>2, <1>5, <2>1, <3>4, <3>5, <3>6 DEF b
    <3> QED
      BY <1>9, <1>12, <3>3, <3>5, <3>7
  <2> QED
    BY <2>3, <2>4
<1> QED
  BY <1>11, <1>12
--------------------------------------------------------------------------------
(* The transcript: who speaks during a word. *)

\* Overlap and Distance by their cases.
LEMMA OverlapIs ==
  ASSUME NEW x, x.start \in Int, x.end \in Int, NEW t \in Turns
  PROVE  /\ Overlap(x, t) \in Nat
         /\ Overlap(x, t) > 0 <=> /\ x.start < x.end /\ t.start < t.end
                                  /\ x.start < t.end /\ t.start < x.end
<1> DEFINE lo == IF x.start <= t.start THEN t.start ELSE x.start
           hi == IF x.end <= t.end THEN x.end ELSE t.end
<1>1. t.start \in Int /\ t.end \in Int
  BY DEF Turns
<1>2. Max({x.start, t.start}) = lo /\ Min({x.end, t.end}) = hi /\ lo \in Int /\ hi \in Int
  BY <1>1, Extremes
<1>3. Overlap(x, t) = Max({0, hi - lo})
  BY <1>2 DEF Overlap
<1>4. Max({0, hi - lo}) = IF 0 <= hi - lo THEN hi - lo ELSE 0
  <2> HIDE DEF hi, lo
  <2>1. 0 \in Int /\ hi - lo \in Int
    BY <1>2
  <2> HIDE <1>2
  <2> QED
    BY <2>1, Extremes
<1> QED
  BY <1>1, <1>3, <1>4

LEMMA DistanceIs ==
  ASSUME NEW x, x.start \in Int, x.end \in Int, NEW t \in Turns
  PROVE  /\ Distance(x, t) \in Nat
         /\ Distance(x, t) = 0 <=> x.start <= t.end /\ t.start <= x.end
<1>1. t.start \in Int /\ t.end \in Int
  BY DEF Turns
<1> DEFINE a == x.start - t.end
           b == t.start - x.end
<1>2. 0 \in Int /\ a \in Int /\ b \in Int /\ Distance(x, t) = Max({0, a, b})
  BY <1>1 DEF Distance
<1>3. /\ Max({0, a, b}) \in {0, a, b} /\ Max({0, a, b}) >= 0 /\ Max({0, a, b}) >= a /\ Max({0, a, b}) >= b
  <2> HIDE DEF a, b
  <2> QED
    BY <1>2, Extremes
<1> QED
  BY <1>1, <1>2, <1>3

\* Ties go to the earliest turn, and there is one.
LEMMA EarliestIs ==
  ASSUME NEW S \in SUBSET Turns, IsFiniteSet(S), S # {}
  PROVE  Earliest(S) \in S
<1> DEFINE R == {p \in S \X S : p[1] = p[2] \/ TurnBefore(p[2], p[1])}
<1>1. \A t \in S : t.start \in Int /\ t.end \in Int /\ t.speaker \in Nat
  BY DEF Turns
<1>2. \A t, u \in S : t.start = u.start /\ t.end = u.end /\ t.speaker = u.speaker => t = u
  BY DEF Turns
<1>3. \A t, u \in S : <<t, u>> \in R \/ <<u, t>> \in R
  <2> SUFFICES ASSUME NEW t \in S, NEW u \in S, t # u PROVE TurnBefore(t, u) \/ TurnBefore(u, t)
    OBVIOUS
  <2> QED
    BY <1>1, <1>2 DEF TurnBefore, Before
<1>4. \A t, u, v \in S : <<t, u>> \in R /\ <<u, v>> \in R => <<t, v>> \in R
  <2> SUFFICES ASSUME NEW t \in S, NEW u \in S, NEW v \in S, TurnBefore(u, t), TurnBefore(v, u)
               PROVE  TurnBefore(v, t)
    OBVIOUS
  <2> QED
    BY <1>1 DEF TurnBefore, Before
<1>5. PICK m \in S : \A t \in S : <<t, m>> \in R
  <2> HIDE DEF R
  <2> QED
    BY <1>3, <1>4, LastMember
<1>6. \A t \in S \ {m} : TurnBefore(m, t)
  BY <1>5
<1> QED
  BY <1>6 DEF Earliest

\* A finite set of turns has one that measures most, and one that measures least.
LEMMA TurnExtremes ==
  ASSUME NEW S \in SUBSET Turns, IsFiniteSet(S), S # {}, NEW f, \A t \in S : f[t] \in Int
  PROVE  /\ \E t \in S : \A u \in S : f[u] <= f[t]
         /\ \E t \in S : \A u \in S : f[t] <= f[u]
<1> DEFINE R == {p \in S \X S : f[p[1]] <= f[p[2]]}
           Q == {p \in S \X S : f[p[2]] <= f[p[1]]}
<1>1. /\ \A x, y \in S : <<x, y>> \in R \/ <<y, x>> \in R
      /\ \A x, y, z \in S : <<x, y>> \in R /\ <<y, z>> \in R => <<x, z>> \in R
  OBVIOUS
<1>2. /\ \A x, y \in S : <<x, y>> \in Q \/ <<y, x>> \in Q
      /\ \A x, y, z \in S : <<x, y>> \in Q /\ <<y, z>> \in Q => <<x, z>> \in Q
  OBVIOUS
<1>3. /\ \A x, y \in S : <<x, y>> \in R => f[x] <= f[y]
      /\ \A x, y \in S : <<x, y>> \in Q => f[y] <= f[x]
  OBVIOUS
<1> HIDE DEF R, Q
<1>4. \E t \in S : \A u \in S : <<u, t>> \in R
  BY <1>1, LastMember
<1>5. \E t \in S : \A u \in S : <<u, t>> \in Q
  BY <1>2, LastMember
<1> QED
  BY <1>3, <1>4, <1>5

\* _choose_speaker: nobody is heard longer than the speaker it gives, who is within the tolerance,
\* and it gives none only when nobody is.
LEMMA ChooseSpeakerIs ==
  ASSUME NEW x, x.start \in Int, x.end \in Int, x.start <= x.end,
         NEW turns \in SUBSET Turns, IsFiniteSet(turns)
  PROVE  /\ Attributed(x, ChooseSpeaker(x, turns), turns)
         /\ ChooseSpeaker(x, turns) \in Nat \cup {Unknown}
<1> DEFINE middle == {t \in turns : HasMidpoint(x, t)}
           longest == {t \in turns : \A u \in turns : Overlap(x, u) <= Overlap(x, t)}
           nearest == {t \in turns : \A u \in turns : Distance(x, t) <= Distance(x, u)}
           speaker == ChooseSpeaker(x, turns)
<1>1. \A t \in turns : /\ Overlap(x, t) \in Nat /\ Distance(x, t) \in Nat
                       /\ t.speaker \in Nat \ {Unknown} /\ t.start \in Int /\ t.end \in Int
                       /\ Overlap(x, t) > 0 => Distance(x, t) = 0
                       /\ HasMidpoint(x, t) => Distance(x, t) = 0
  <2> SUFFICES ASSUME NEW t \in turns
               PROVE  /\ Overlap(x, t) \in Nat /\ Distance(x, t) \in Nat
                      /\ t.speaker \in Nat \ {Unknown} /\ t.start \in Int /\ t.end \in Int
                      /\ Overlap(x, t) > 0 => Distance(x, t) = 0
                      /\ HasMidpoint(x, t) => Distance(x, t) = 0
    OBVIOUS
  <2>1. t \in Turns /\ t.speaker \in Nat \ {Unknown} /\ t.start \in Int /\ t.end \in Int
    BY DEF Turns
  <2>2. /\ Overlap(x, t) \in Nat
        /\ Overlap(x, t) > 0 => x.start < t.end /\ t.start < x.end
    BY <2>1, OverlapIs
  <2>3. /\ Distance(x, t) \in Nat
        /\ Distance(x, t) = 0 <=> x.start <= t.end /\ t.start <= x.end
    BY <2>1, DistanceIs
  <2>4. HasMidpoint(x, t) => x.start <= t.end /\ t.start <= x.end
    BY <2>1 DEF HasMidpoint
  <2> QED
    BY <2>1, <2>2, <2>3, <2>4
<1>2. \A S \in SUBSET turns : IsFiniteSet(S) /\ S \in SUBSET Turns /\ (S # {} => Earliest(S) \in S)
  <2> SUFFICES ASSUME NEW S \in SUBSET turns
               PROVE  IsFiniteSet(S) /\ S \in SUBSET Turns /\ (S # {} => Earliest(S) \in S)
    OBVIOUS
  <2>1. IsFiniteSet(S) /\ S \in SUBSET Turns
    BY FS_Subset
  <2> QED
    BY <2>1, EarliestIs
<1>3. turns # {} => longest # {} /\ nearest # {}
  <2> SUFFICES ASSUME turns # {} PROVE longest # {} /\ nearest # {}
    OBVIOUS
  <2> DEFINE o == [t \in turns |-> Overlap(x, t)]
             d == [t \in turns |-> Distance(x, t)]
  <2>1. /\ \A t \in turns : o[t] = Overlap(x, t) /\ o[t] \in Int
        /\ \A t \in turns : d[t] = Distance(x, t) /\ d[t] \in Int
    BY <1>1
  <2> HIDE DEF o, d
  <2>2. (\E t \in turns : \A u \in turns : o[u] <= o[t]) /\ (\E t \in turns : \A u \in turns : d[t] <= d[u])
    BY <2>1, TurnExtremes
  <2> QED
    BY <2>1, <2>2
<1>4. Tolerance \in Nat
  BY MergeAssumption
<1>5. ASSUME NEW t \in turns, speaker = t.speaker, Distance(x, t) <= Tolerance,
             \A u \in turns : Overlap(x, u) <= Overlap(x, t)
      PROVE  Attributed(x, speaker, turns) /\ speaker \in Nat \cup {Unknown}
  BY <1>1, <1>5 DEF Attributed
<1> HIDE DEF speaker
<1>6. CASE \E t \in turns : Overlap(x, t) > 0
  <2> DEFINE m == {t \in longest : HasMidpoint(x, t)}
             t == Earliest(IF m = {} THEN longest ELSE m)
  <2>1. speaker = t.speaker
    BY <1>6 DEF speaker, ChooseSpeaker, LongestHeard
  <2>2. t \in longest /\ t \in turns
    <3>1. longest \in SUBSET turns /\ m \in SUBSET turns /\ longest # {}
      BY <1>3, <1>6
    <3>2. m \in SUBSET longest
      OBVIOUS
    <3> HIDE DEF longest, m
    <3> QED
      BY <1>2, <3>1, <3>2
  <2>3. PICK v \in turns : Overlap(x, v) > 0
    BY <1>6
  <2>4. \A u \in turns : Overlap(x, u) <= Overlap(x, t)
    BY <2>2
  <2> HIDE DEF t
  <2>5. Distance(x, t) = 0
    BY <1>1, <2>2, <2>3, <2>4
  <2>6. Distance(x, t) <= Tolerance
    BY <1>4, <2>5
  <2> QED
    BY <1>5, <2>1, <2>2, <2>4, <2>6 DEF speaker
<1>7. CASE (\A t \in turns : ~(Overlap(x, t) > 0)) /\ middle # {}
  <2> DEFINE t == Earliest(middle)
  <2>1. speaker = t.speaker
    BY <1>7 DEF speaker, ChooseSpeaker
  <2>2. t \in middle
    <3>1. middle \in SUBSET turns
      OBVIOUS
    <3> HIDE DEF middle
    <3> QED
      BY <1>2, <1>7, <3>1
  <2> HIDE DEF t
  <2>3. t \in turns /\ Distance(x, t) = 0
    BY <1>1, <2>2
  <2>4. Distance(x, t) <= Tolerance
    BY <1>4, <2>3
  <2>5. \A u \in turns : Overlap(x, u) <= Overlap(x, t)
    BY <1>1, <1>7, <2>3
  <2> QED
    BY <1>5, <2>1, <2>3, <2>4, <2>5 DEF speaker
<1>8. CASE (\A t \in turns : ~(Overlap(x, t) > 0)) /\ middle = {}
  <2> DEFINE t == Nearest(x, turns)
  <2>1. turns # {} => t \in nearest
    <3>1. nearest \in SUBSET turns /\ (turns # {} => nearest # {}) /\ t = Earliest(nearest)
      BY <1>3 DEF Nearest
    <3> HIDE DEF nearest, t
    <3> QED
      BY <1>2, <3>1
  <2>2. speaker = IF turns # {} /\ Distance(x, t) <= Tolerance THEN t.speaker ELSE Unknown
    BY <1>8 DEF speaker, ChooseSpeaker
  <2> HIDE DEF t
  <2>3. CASE turns # {} /\ Distance(x, t) <= Tolerance
    <3>1. t \in turns /\ speaker = t.speaker
      BY <2>1, <2>2, <2>3
    <3>2. \A u \in turns : Overlap(x, u) <= Overlap(x, t)
      BY <1>1, <1>8, <3>1
    <3> QED
      BY <1>5, <2>3, <3>1, <3>2 DEF speaker
  <2>4. CASE ~(turns # {} /\ Distance(x, t) <= Tolerance)
    <3>1. speaker = Unknown
      BY <2>2, <2>4
    <3>2. \A u \in turns : Distance(x, u) > Tolerance
      BY <1>1, <1>4, <2>1, <2>4
    <3> QED
      BY <3>1, <3>2 DEF Attributed, speaker
  <2> QED
    BY <2>3, <2>4
<1> QED
  BY <1>6, <1>7, <1>8 DEF speaker
\* More than one member.
LEMMA MoreThanOne ==
  ASSUME NEW S, IsFiniteSet(S)
  PROVE  Cardinality(S) > 1 <=> \E a, b \in S : a # b
<1>1. ASSUME NEW a \in S, NEW b \in S, a # b
      PROVE  Cardinality(S) > 1
  <2>1. {a, b} \subseteq S /\ IsFiniteSet({a}) /\ Cardinality({a}) = 1
    BY FS_Singleton
  <2>2. Cardinality({a} \cup {b}) = 2 /\ IsFiniteSet({a} \cup {b})
    <3>1. Cardinality({a} \cup {b}) = Cardinality({a}) + 1
      BY <1>1, <2>1, FS_AddElement
    <3>2. IsFiniteSet({a} \cup {b})
      BY <2>1, FS_AddElement
    <3>3. Cardinality({a} \cup {b}) = 2
      BY <2>1, <3>1
    <3> QED
      BY <3>2, <3>3
  <2>3. Cardinality({a} \cup {b}) <= Cardinality(S) /\ Cardinality(S) \in Nat
    <3>1. {a} \cup {b} \in SUBSET S
      OBVIOUS
    <3> QED
      BY <3>1, FS_Subset, FS_CardinalityType
  <2> QED
    BY <2>2, <2>3
<1>2. ASSUME Cardinality(S) > 1, \A a, b \in S : a = b
      PROVE  FALSE
  <2>1. CASE S = {}
    BY <1>2, <2>1, FS_EmptySet
  <2>2. CASE S # {}
    <3>1. PICK a \in S : S = {a}
      BY <1>2, <2>2
    <3>2. Cardinality({a}) = 1
      BY FS_Singleton
    <3> QED
      BY <1>2, <3>1, <3>2
  <2> QED
    BY <2>1, <2>2
<1> QED
  BY <1>1, <1>2

LEMMA SpeakersAre ==
  ASSUME NEW turns, IsFiniteSet(turns), NEW t, NEW length
  PROVE  Cardinality(SpeakersAt(t, length, turns)) > 1 <=>
           \E u, v \in turns : /\ u.speaker # v.speaker
                               /\ u.start <= t /\ t + length <= u.end
                               /\ v.start <= t /\ t + length <= v.end
<1> DEFINE S == SpeakersAt(t, length, turns)
           T == {v \in turns : v.start <= t /\ t + length <= v.end}
           name == [u \in T |-> u.speaker]
<1>1. IsFiniteSet(T)
  BY FS_Subset
<1>2. S = {name[u] : u \in T}
  BY DEF SpeakersAt
<1>3. IsFiniteSet(S)
  <2>1. name \in [T -> S]
    BY <1>2
  <2>2. \A y \in S : \E u \in T : name[u] = y
    BY <1>2
  <2> HIDE DEF T, name, S
  <2>3. name \in Surjection(T, S)
    BY <2>1, <2>2 DEF Surjection
  <2> QED
    BY <1>1, <2>3, FS_Surjection
<1>4. (\E a, b \in S : a # b) <=> \E u, v \in T : u.speaker # v.speaker
  BY DEF SpeakersAt
<1>5. Cardinality(S) > 1 <=> \E a, b \in S : a # b
  BY <1>3, MoreThanOne
<1> QED
  BY <1>4, <1>5

\* _has_simultaneous_speech: two speakers talk at some moment of x.
LEMMA SimultaneousSpeechIs ==
  ASSUME NEW x, x.start \in Int, x.end \in Int, x.start <= x.end,
         NEW turns \in SUBSET Turns, IsFiniteSet(turns)
  PROVE  HasSimultaneousSpeech(x, turns) <=> TwoTalk(x, turns)
<1>1. \A t \in turns : t.start \in Int /\ t.end \in Int
  BY DEF Turns
<1>2. CASE x.start = x.end
  <2>1. Cardinality(SpeakersAt(x.start, 0, turns)) > 1 <=>
          \E u, v \in turns : /\ u.speaker # v.speaker
                              /\ u.start <= x.start /\ x.start + 0 <= u.end
                              /\ v.start <= x.start /\ x.start + 0 <= v.end
    BY SpeakersAre
  <2>2. HasSimultaneousSpeech(x, turns) <=>
          \E u, v \in turns : /\ u.speaker # v.speaker
                              /\ u.start <= x.start /\ x.start <= u.end
                              /\ v.start <= x.start /\ x.start <= v.end
    BY <1>2 DEF HasSimultaneousSpeech
  <2>3. x.start + 0 = x.start
    OBVIOUS
  <2> QED
    BY <1>2, <2>1, <2>2, <2>3 DEF TwoTalk
<1>3. CASE x.start # x.end
  <2>1. ASSUME NEW u \in turns, NEW v \in turns
        PROVE  (Overlap(x, u) > 0 /\ Overlap(x, v) > 0 /\ Shared(x, u, v)) <=>
                 \E t \in x.start .. x.end - 1 : /\ u.start <= t /\ t + 1 <= u.end
                                                 /\ v.start <= t /\ t + 1 <= v.end
    <3> DEFINE lo == Max({x.start, u.start, v.start})
               hi == Min({x.end, u.end, v.end})
    <3>1. /\ u.start \in Int /\ u.end \in Int /\ v.start \in Int /\ v.end \in Int
          /\ u \in Turns /\ v \in Turns
      BY <1>1
    <3>2. /\ lo \in {x.start, u.start, v.start} /\ lo >= x.start /\ lo >= u.start /\ lo >= v.start
          /\ hi \in {x.end, u.end, v.end} /\ hi <= x.end /\ hi <= u.end /\ hi <= v.end
      BY <3>1, Extremes
    <3>3. /\ Overlap(x, u) > 0 <=> /\ x.start < x.end /\ u.start < u.end
                                   /\ x.start < u.end /\ u.start < x.end
          /\ Overlap(x, v) > 0 <=> /\ x.start < x.end /\ v.start < v.end
                                   /\ x.start < v.end /\ v.start < x.end
      BY <3>1, OverlapIs
    <3>4. Shared(x, u, v) <=> hi > lo
      BY DEF Shared
    <3> HIDE DEF lo, hi
    <3>5. ASSUME hi > lo
          PROVE  \E t \in x.start .. x.end - 1 : /\ u.start <= t /\ t + 1 <= u.end
                                                 /\ v.start <= t /\ t + 1 <= v.end
      <4>1. lo \in x.start .. x.end - 1 /\ lo + 1 <= hi
        BY <3>1, <3>2, <3>5
      <4>2. /\ u.start <= lo /\ lo + 1 <= u.end /\ v.start <= lo /\ lo + 1 <= v.end
        BY <3>1, <3>2, <4>1
      <4> QED
        BY <4>1, <4>2
    <3>6. ASSUME NEW t \in x.start .. x.end - 1, u.start <= t, t + 1 <= u.end, v.start <= t, t + 1 <= v.end
          PROVE  hi > lo /\ Overlap(x, u) > 0 /\ Overlap(x, v) > 0
      <4>1. lo <= t /\ t < hi
        BY <3>1, <3>2, <3>6
      <4>2. hi > lo
        BY <3>1, <3>2, <4>1
      <4> QED
        BY <3>1, <3>3, <3>6, <4>2
    <3> QED
      BY <3>4, <3>5, <3>6
  <2>2. HasSimultaneousSpeech(x, turns) <=>
          \E u, v \in turns : u.speaker # v.speaker /\ Overlap(x, u) > 0 /\ Overlap(x, v) > 0 /\ Shared(x, u, v)
    BY <1>3 DEF HasSimultaneousSpeech
  <2>3. TwoTalk(x, turns) <=>
          \E t \in x.start .. x.end - 1 : \E u, v \in turns :
            /\ u.speaker # v.speaker
            /\ u.start <= t /\ t + 1 <= u.end /\ v.start <= t /\ t + 1 <= v.end
    <3>1. TwoTalk(x, turns) <=>
            \E t \in x.start .. x.end - 1 : Cardinality(SpeakersAt(t, 1, turns)) > 1
      BY <1>3 DEF TwoTalk
    <3> QED
      BY <3>1, SpeakersAre
  <2> QED
    BY <2>1, <2>2, <2>3
<1> QED
  BY <1>2, <1>3

\* The order of a sequence of intervals: a rearrangement of its places in which none is before an
\* earlier one.
LEMMA OrderIs ==
  ASSUME NEW n \in Nat, NEW s, DOMAIN s = 1 .. n, \A i \in 1 .. n : s[i].start \in Int /\ s[i].end \in Int
  PROVE  /\ Order(s) \in [1 .. n -> 1 .. n] /\ Order(s) \in Seq(1 .. n) /\ Len(Order(s)) = n
         /\ \A i \in 1 .. n : \E k \in 1 .. n : Order(s)[k] = i
         /\ \A k, l \in 1 .. n : Order(s)[k] = Order(s)[l] => k = l
         /\ \A k, l \in 1 .. n : k <= l => ~Before(s[Order(s)[l]], s[Order(s)[k]])
<1> DEFINE R == {p \in (1 .. n) \X (1 .. n) :
                   Before(s[p[1]], s[p[2]]) \/ (~Before(s[p[2]], s[p[1]]) /\ p[1] < p[2])}
           o == Order(s)
<1>1. IsFiniteSet(1 .. n) /\ Cardinality(1 .. n) = n
  BY FS_Interval
<1>2. /\ \A i, j \in 1 .. n : i # j => <<i, j>> \in R \/ <<j, i>> \in R
      /\ \A i, j, k \in 1 .. n : <<i, j>> \in R /\ <<j, k>> \in R => <<i, k>> \in R
      /\ \A i \in 1 .. n : <<i, i>> \notin R
  <2>1. \A i, j \in 1 .. n : i # j => <<i, j>> \in R \/ <<j, i>> \in R
    OBVIOUS
  <2>2. \A i \in 1 .. n : <<i, i>> \notin R
    BY DEF Before
  <2>3. ASSUME NEW i \in 1 .. n, NEW j \in 1 .. n, NEW k \in 1 .. n, <<i, j>> \in R, <<j, k>> \in R
        PROVE  <<i, k>> \in R
    <3>1. /\ s[i].start \in Int /\ s[i].end \in Int /\ s[j].start \in Int /\ s[j].end \in Int
          /\ s[k].start \in Int /\ s[k].end \in Int /\ i \in Int /\ j \in Int /\ k \in Int
      OBVIOUS
    <3>2. /\ Before(s[i], s[j]) \/ (~Before(s[j], s[i]) /\ i < j)
          /\ Before(s[j], s[k]) \/ (~Before(s[k], s[j]) /\ j < k)
      BY <2>3
    <3>3. Before(s[i], s[k]) \/ (~Before(s[k], s[i]) /\ i < k)
      BY <3>1, <3>2, SMTT(30) DEF Before
    <3> QED
      BY <3>3
  <2> QED
    BY <2>1, <2>2, <2>3
<1>3. \A i, j \in 1 .. n : <<i, j>> \in R <=> Before(s[i], s[j]) \/ (~Before(s[j], s[i]) /\ i < j)
  OBVIOUS
<1>4. \A i, j \in 1 .. n : <<i, j>> \in R => ~Before(s[j], s[i])
  BY DEF Before
<1> HIDE DEF R
<1>5. PICK q \in [1 .. n -> 1 .. n] : \A i, j \in DOMAIN q : i < j => <<q[i], q[j]>> \in R
  <2>1. \E r \in [1 .. Cardinality(1 .. n) -> 1 .. n] :
           \A i, j \in DOMAIN r : i < j => <<r[i], r[j]>> \in R
    BY <1>1, <1>2, ArrangementExists
  <2> QED
    BY <1>1, <2>1
<1>6. o = CHOOSE r \in [1 .. n -> 1 .. n] : \A i, j \in DOMAIN r : i < j =>
            Before(s[r[i]], s[r[j]]) \/ (~Before(s[r[j]], s[r[i]]) /\ r[i] < r[j])
  BY <1>1 DEF Order, Arranged
<1> HIDE DEF o
<1>7. /\ o \in [1 .. n -> 1 .. n]
      /\ \A i, j \in 1 .. n : i < j => <<o[i], o[j]>> \in R
  <2>1. \A i, j \in DOMAIN q : i < j =>
            Before(s[q[i]], s[q[j]]) \/ (~Before(s[q[j]], s[q[i]]) /\ q[i] < q[j])
    BY <1>3, <1>5
  <2>2. o \in [1 .. n -> 1 .. n] /\ \A i, j \in DOMAIN o : i < j =>
            Before(s[o[i]], s[o[j]]) \/ (~Before(s[o[j]], s[o[i]]) /\ o[i] < o[j])
    BY <1>6, <2>1
  <2> QED
    BY <1>3, <2>2
<1>8. /\ o \in Seq(1 .. n) /\ Len(o) = n
      /\ \A x \in 1 .. n : \E i \in DOMAIN o : o[i] = x
      /\ \A i, j \in DOMAIN o : o[i] = o[j] => i = j
  <2>1. o \in [1 .. Cardinality(1 .. n) -> 1 .. n] /\ \A i, j \in DOMAIN o : i < j => <<o[i], o[j]>> \in R
    BY <1>1, <1>7
  <2>2. /\ Len(o) = Cardinality(1 .. n) /\ o \in Seq(1 .. n)
        /\ \A x \in 1 .. n : \E i \in DOMAIN o : o[i] = x
        /\ \A i, j \in DOMAIN o : o[i] = o[j] => i = j
    BY <1>1, <1>2, <2>1, ArrangementIsComplete, ZenonT(60)
  <2> QED
    BY <1>1, <2>2
<1>9. \A k, l \in 1 .. n : k <= l => ~Before(s[o[l]], s[o[k]])
  <2> SUFFICES ASSUME NEW k \in 1 .. n, NEW l \in 1 .. n, k <= l PROVE ~Before(s[o[l]], s[o[k]])
    OBVIOUS
  <2>1. CASE k = l
    <3>1. o[k] \in 1 .. n
      BY <1>7
    <3> QED
      BY <2>1, <3>1 DEF Before
  <2>2. CASE k # l
    <3>1. k < l /\ o[k] \in 1 .. n /\ o[l] \in 1 .. n
      BY <2>2, <1>7
    <3> QED
      BY <3>1, <1>4, <1>7
  <2> QED
    BY <2>1, <2>2
<1>10. DOMAIN o = 1 .. n
  BY <1>7
<1> QED
  BY <1>7, <1>8, <1>9, <1>10 DEF o
--------------------------------------------------------------------------------
(* The transcript: the rows of a segment. *)

\* _assign_words: the words in the order of their times, each with a speaker and a flag of its own
\* but for the marks behind another word, which have those of that word.
LEMMA AssignWordsIs ==
  ASSUME NEW words \in Seq(WordTimings), NEW primary, NEW regular
  PROVE  LET n == Len(words)
             o == Order(words)
             a == AssignWords(words, primary, regular)
         IN  /\ n \in Nat /\ DOMAIN a = 1 .. n
             /\ Len(a) = n /\ \E V : a \in Seq(V)
             /\ \A i \in 1 .. n : o[i] \in 1 .. n /\ a[i].word = o[i]
             /\ \A i \in 1 .. n :
                  i = 1 \/ words[o[i]].text # "mark"
                       => /\ a[i].speaker = ChooseSpeaker(words[o[i]], primary)
                          /\ a[i].overlap = HasSimultaneousSpeech(words[o[i]], regular)
             /\ \A i \in 1 .. n :
                  i > 1 /\ words[o[i]].text = "mark"
                       => a[i].speaker = a[i - 1].speaker /\ a[i].overlap = a[i - 1].overlap
<1> DEFINE n == Len(words)
           o == Order(words)
           own(i) == [word |-> o[i], speaker |-> ChooseSpeaker(words[o[i]], primary),
                      overlap |-> HasSimultaneousSpeech(words[o[i]], regular)]
           asg == CHOOSE f : f = [i \in DOMAIN o |->
                    IF words[o[i]].text = "mark" /\ i > 1 THEN [f[i - 1] EXCEPT !.word = o[i]] ELSE own(i)]
           a == AssignWords(words, primary, regular)
           V == [word : 1 .. n, speaker : {ChooseSpeaker(words[j], primary) : j \in 1 .. n},
                 overlap : {HasSimultaneousSpeech(words[j], regular) : j \in 1 .. n}]
           step == [i \in 1 .. n |-> [v \in V |->
                     IF words[o[i]].text = "mark" THEN [v EXCEPT !.word = o[i]] ELSE own(i)]]
<1>1. n \in Nat /\ DOMAIN words = 1 .. n /\ \A i \in 1 .. n : words[i] \in WordTimings
  BY SequenceHas
<1>2. \A i \in 1 .. n : words[i].start \in Int /\ words[i].end \in Int
  <2> HIDE DEF n
  <2> QED
    BY <1>1 DEF WordTimings
<1>3. o \in [1 .. n -> 1 .. n]
  <2> HIDE DEF n
  <2> QED
    BY <1>1, <1>2, OrderIs
<1>4. a = [i \in DOMAIN o |-> asg[i]]
  BY DEF AssignWords
<1> HIDE DEF n, o
<1>5. \A i \in 1 .. n : own(i) \in V
  BY <1>3
<1>6. \A v \in V, i \in 1 .. n : /\ [v EXCEPT !.word = o[i]] \in V
                                 /\ [v EXCEPT !.word = o[i]].word = o[i]
                                 /\ [v EXCEPT !.word = o[i]].speaker = v.speaker
                                 /\ [v EXCEPT !.word = o[i]].overlap = v.overlap
  BY <1>3
<1>7. \A i \in 1 .. n : /\ own(i).word = o[i] /\ own(i).speaker = ChooseSpeaker(words[o[i]], primary)
                        /\ own(i).overlap = HasSimultaneousSpeech(words[o[i]], regular)
  OBVIOUS
<1> HIDE DEF V, own
<1>8. asg \in [1 .. n -> V] /\ \A i \in 1 .. n :
        asg[i] = IF words[o[i]].text = "mark" /\ i > 1 THEN [asg[i - 1] EXCEPT !.word = o[i]] ELSE own(i)
  <2>1. \A i \in 1 .. n : \A v \in V : i > 1 => step[i][v] \in V
    BY <1>5, <1>6
  <2>2. \A i \in 1 .. n, v \in V :
          step[i][v] = IF words[o[i]].text = "mark" THEN [v EXCEPT !.word = o[i]] ELSE own(i)
    OBVIOUS
  <2> HIDE DEF step
  <2>3. /\ \E f : Recursive(f, n, own(1), step)
        /\ \A f : Recursive(f, n, own(1), step) => f \in [1 .. n -> V]
    <3>1. n > 0 => own(1) \in V
      BY <1>1, <1>5
    <3> QED
      BY <1>1, <2>1, <3>1, RecursionDefines
  <2>4. PICK f : Recursive(f, n, own(1), step)
    BY <2>3
  <2>5. f \in [1 .. n -> V]
    BY <2>3, <2>4
  <2>6. \A i \in 1 .. n : f[i] =
          IF words[o[i]].text = "mark" /\ i > 1 THEN [f[i - 1] EXCEPT !.word = o[i]] ELSE own(i)
    <3>1. \A i \in 1 .. n : f[i] = IF i = 1 THEN own(1) ELSE step[i][f[i - 1]]
      BY <2>4 DEF Recursive
    <3>2. \A i \in 1 .. n : i # 1 => i > 1 /\ f[i - 1] \in V
      BY <1>1, <2>5
    <3> SUFFICES ASSUME NEW i \in 1 .. n
                 PROVE  f[i] = IF words[o[i]].text = "mark" /\ i > 1
                               THEN [f[i - 1] EXCEPT !.word = o[i]] ELSE own(i)
      OBVIOUS
    <3>3. CASE i = 1
      BY <3>1, <3>3
    <3>4. CASE i # 1
      BY <2>2, <3>1, <3>2, <3>4
    <3> QED
      BY <3>3, <3>4
  <2>7. DOMAIN o = 1 .. n
    BY <1>3
  <2>8. f = [i \in DOMAIN o |->
               IF words[o[i]].text = "mark" /\ i > 1 THEN [f[i - 1] EXCEPT !.word = o[i]] ELSE own(i)]
    <3>1. f = [i \in 1 .. n |-> f[i]]
      BY <2>5
    <3> QED
      BY <2>6, <2>7, <3>1
  <2>9. asg = [i \in DOMAIN o |->
               IF words[o[i]].text = "mark" /\ i > 1 THEN [asg[i - 1] EXCEPT !.word = o[i]] ELSE own(i)]
    BY <2>8
  <2> HIDE DEF asg
  <2>10. DOMAIN asg = 1 .. n /\ \A i \in 1 .. n :
        asg[i] = IF words[o[i]].text = "mark" /\ i > 1 THEN [asg[i - 1] EXCEPT !.word = o[i]] ELSE own(i)
    BY <2>7, <2>9
  <2>11. \A i \in 1 .. n : asg[i] \in V
    <3> DEFINE Q == {i \in 1 .. n : asg[i] \in V}
    <3>1. n > 0 => 1 \in Q
      BY <1>1, <1>5, <2>10
    <3>2. \A i \in 1 .. n : i > 1 /\ i - 1 \in Q => i \in Q
      BY <1>5, <1>6, <2>10
    <3>3. \A i \in 1 .. n : i \in Q
      <4> HIDE DEF Q
      <4> QED
        BY <1>1, <3>1, <3>2, PlaceByPlace
    <3> QED
      BY <3>3
  <2>12. asg = [i \in 1 .. n |-> asg[i]]
    BY <2>7, <2>9
  <2> QED
    BY <2>10, <2>11, <2>12
<1> HIDE DEF asg
<1>9. a = asg
  <2>1. DOMAIN o = 1 .. n /\ asg = [i \in 1 .. n |-> asg[i]]
    BY <1>3, <1>8
  <2> QED
    BY <1>4, <2>1
<1> HIDE DEF a
<1>10. a \in Seq(V) /\ Len(a) = n /\ DOMAIN a = 1 .. n
  <2>1. a \in [1 .. n -> V]
    BY <1>8, <1>9
  <2>2. a \in Seq(V) /\ Len(a) = n
    BY <1>1, <2>1, SequenceIs
  <2> QED
    BY <2>1, <2>2
<1>11. ASSUME NEW i \in 1 .. n
       PROVE  /\ o[i] \in 1 .. n /\ a[i].word = o[i]
              /\ i = 1 \/ words[o[i]].text # "mark"
                   => /\ a[i].speaker = ChooseSpeaker(words[o[i]], primary)
                      /\ a[i].overlap = HasSimultaneousSpeech(words[o[i]], regular)
              /\ i > 1 /\ words[o[i]].text = "mark"
                   => a[i].speaker = a[i - 1].speaker /\ a[i].overlap = a[i - 1].overlap
  <2>1. o[i] \in 1 .. n /\ i \in Int
    BY <1>3
  <2>2. CASE i > 1 /\ words[o[i]].text = "mark"
    <3>1. i - 1 \in 1 .. n
      BY <1>1, <2>2
    <3>2. asg[i] = [asg[i - 1] EXCEPT !.word = o[i]] /\ asg[i - 1] \in V
      BY <1>8, <2>2, <3>1
    <3> QED
      BY <1>6, <1>9, <2>1, <2>2, <3>2
  <2>3. CASE ~(i > 1 /\ words[o[i]].text = "mark")
    <3>1. asg[i] = own(i)
      BY <1>8, <2>3
    <3> QED
      BY <1>7, <1>9, <2>1, <2>3, <3>1
  <2> QED
    BY <2>2, <2>3
<1> QED
  BY <1>1, <1>10, <1>11 DEF a, n, o
\* Runs of n words with their speakers: they take all of them in turn, a run is of one speaker and
\* the one before it is of another.
Grouped(n, a, runs) ==
  /\ DOMAIN runs = 1 .. Len(runs) /\ Len(runs) \in Nat \ {0}
  /\ \A k \in DOMAIN runs :
       runs[k][1] \in 1 .. n /\ runs[k][2] \in 1 .. n /\ runs[k][1] <= runs[k][2]
  /\ \A k, l \in DOMAIN runs : k < l => runs[k][2] < runs[l][1]
  /\ \A p \in 1 .. n : \E k \in DOMAIN runs : runs[k][1] <= p /\ p <= runs[k][2]
  /\ \A k \in DOMAIN runs :
       runs[k][1] > 1 => a[runs[k][1]].speaker # a[runs[k][1] - 1].speaker
  /\ \A k \in DOMAIN runs : \A p \in 1 .. n :
       runs[k][1] <= p /\ p <= runs[k][2] => a[p].speaker = a[runs[k][1]].speaker

\* _group_by_speaker
LEMMA GroupBySpeakerIs ==
  ASSUME NEW n \in Nat \ {0}, NEW a, DOMAIN a = 1 .. n, Len(a) = n
  PROVE  Grouped(n, a, GroupBySpeaker(a))
<1> DEFINE S == {i \in 1 .. n : i > 1 => a[i].speaker # a[i - 1].speaker}
           runs == Runs(S, n)
           m == Len(runs)
<1>1. S \in SUBSET (1 .. n) /\ 1 \in S
  OBVIOUS
<1>2. GroupBySpeaker(a) = runs
  BY DEF GroupBySpeaker
<1>3. \A i \in 1 .. n : i \in S <=> (i > 1 => a[i].speaker # a[i - 1].speaker)
  OBVIOUS
<1> HIDE DEF S
<1>4. /\ runs \in Seq((1 .. n) \X (1 .. n)) /\ runs # <<>> /\ Tiles(runs, n)
      /\ \A k \in DOMAIN runs : runs[k][1] \in S /\ \A i \in S : runs[k][1] < i => runs[k][2] < i
      /\ \A k, l \in DOMAIN runs : k < l => runs[k][2] < runs[l][1]
  BY <1>1, RunsAre
<1> HIDE DEF runs
<1>5. /\ m \in Nat \ {0} /\ DOMAIN runs = 1 .. m
      /\ \A k \in 1 .. m : runs[k][1] \in 1 .. n /\ runs[k][2] \in 1 .. n
  <2>1. m \in Nat /\ DOMAIN runs = 1 .. m /\ m # 0 /\ \A k \in 1 .. m : runs[k] \in (1 .. n) \X (1 .. n)
    BY <1>4, SequenceHas
  <2> QED
    BY <2>1
<1>6. /\ runs[1][1] = 1 /\ runs[m][2] = n
      /\ \A k \in 1 .. m : runs[k][1] <= runs[k][2] /\ (k > 1 => runs[k][1] = runs[k - 1][2] + 1)
  BY <1>4, <1>5 DEF Tiles
<1> HIDE DEF m
<1>7. ASSUME NEW k \in 1 .. m
      PROVE  \A p \in 1 .. n : runs[k][1] <= p /\ p <= runs[k][2] => a[p].speaker = a[runs[k][1]].speaker
  <2> DEFINE Q == {p \in 1 .. n : runs[k][1] <= p /\ p <= runs[k][2]
                                    => a[p].speaker = a[runs[k][1]].speaker}
  <2>1. runs[k][1] \in 1 .. n /\ runs[k][2] \in 1 .. n
    BY <1>5
  <2>2. n > 0 => 1 \in Q
    BY <2>1
  <2>3. ASSUME NEW p \in 1 .. n, p > 1, p - 1 \in Q
        PROVE  p \in Q
    <3>1. CASE p <= runs[k][1]
      BY <2>1, <3>1
    <3>2. CASE p > runs[k][1] /\ p <= runs[k][2]
      <4>1. p \notin S
        <5>1. k \in DOMAIN runs
          BY <1>5
        <5>2. \A i \in S : runs[k][1] < i => runs[k][2] < i
          BY <1>4, <5>1
        <5>3. p \in S => runs[k][2] < p
          BY <3>2, <5>2
        <5> QED
          BY <2>1, <3>2, <5>3
      <4>2. a[p].speaker = a[p - 1].speaker
        BY <1>3, <4>1
      <4>3. p - 1 \in 1 .. n /\ runs[k][1] <= p - 1 /\ p - 1 <= runs[k][2]
        BY <2>1, <2>3, <3>2
      <4> QED
        BY <2>3, <4>2, <4>3
    <3>3. CASE p > runs[k][2]
      BY <2>1, <3>3
    <3> QED
      BY <2>1, <3>1, <3>2, <3>3
  <2>4. \A p \in 1 .. n : p \in Q
    <3> HIDE DEF Q
    <3> QED
      BY <2>2, <2>3, PlaceByPlace
  <2> QED
    BY <2>4
<1>8. \A p \in 1 .. n : \E k \in 1 .. m : runs[k][1] <= p /\ p <= runs[k][2]
  <2> DEFINE Q == {p \in 1 .. n : \E k \in 1 .. m : runs[k][1] <= p /\ p <= runs[k][2]}
  <2>1. n > 0 => 1 \in Q
    <3>1. 1 \in 1 .. m /\ 1 \in 1 .. n
      BY <1>5
    <3>2. runs[1][1] <= 1 /\ 1 <= runs[1][2]
      BY <1>5, <1>6, <3>1
    <3> QED
      BY <3>1, <3>2
  <2>2. ASSUME NEW p \in 1 .. n, p > 1, p - 1 \in Q
        PROVE  p \in Q
    <3>1. PICK k \in 1 .. m : runs[k][1] <= p - 1 /\ p - 1 <= runs[k][2]
      BY <2>2
    <3>2. runs[k][1] \in 1 .. n /\ runs[k][2] \in 1 .. n
      BY <1>5
    <3>3. CASE p <= runs[k][2]
      BY <3>1, <3>2, <3>3
    <3>4. CASE p > runs[k][2]
      <4>1. p = runs[k][2] + 1 /\ k # m
        BY <1>6, <3>1, <3>2, <3>4
      <4>2. k + 1 \in 1 .. m /\ k + 1 > 1 /\ (k + 1) - 1 = k
        BY <1>5, <4>1
      <4>3. runs[k + 1][1] = p /\ runs[k + 1][1] <= runs[k + 1][2]
        BY <1>6, <4>1, <4>2
      <4>4. runs[k + 1][1] <= p /\ p <= runs[k + 1][2]
        BY <4>3
      <4> QED
        BY <4>2, <4>4
    <3> QED
      BY <3>2, <3>3, <3>4
  <2>3. \A p \in 1 .. n : p \in Q
    <3> HIDE DEF Q
    <3> QED
      BY <2>1, <2>2, PlaceByPlace
  <2> QED
    BY <2>3
<1>9. \A k \in 1 .. m : runs[k][1] > 1 => a[runs[k][1]].speaker # a[runs[k][1] - 1].speaker
  BY <1>3, <1>4, <1>5
<1>10. DOMAIN runs = 1 .. Len(runs) /\ Len(runs) \in Nat \ {0}
  BY <1>5 DEF m
<1>11. Grouped(n, a, runs)
  BY <1>4, <1>5, <1>6, <1>7, <1>8, <1>9, <1>10 DEF Grouped
<1> QED
  BY <1>2, <1>11
\* The words of a segment that have a text, in the order given; and, as indices of all its words, in
\* the order of their times.
SaidWords(segment) ==
  LET said == Ascending(Heard(segment)) IN [i \in DOMAIN said |-> segment.words[said[i]]]
WordAt(segment, p) == Ascending(Heard(segment))[Order(SaidWords(segment))[p]]

LEMMA WordsInTime ==
  ASSUME NEW segment \in Segments
  PROVE  LET m == Len(SaidWords(segment))
             word(p) == segment.words[WordAt(segment, p)]
         IN /\ m \in Nat /\ (m = 0 <=> Heard(segment) = {}) /\ SaidWords(segment) \in Seq(WordTimings)
            /\ Len(Ascending(Heard(segment))) = m
            /\ Ascending(Heard(segment)) \in [1 .. m -> Heard(segment)]
            /\ \A p \in 1 .. m :
                 /\ WordAt(segment, p) \in Heard(segment)
                 /\ word(p) \in WordTimings /\ word(p).text # "blank"
                 /\ word(p) = SaidWords(segment)[Order(SaidWords(segment))[p]]
            /\ \A v \in Heard(segment) : \E p \in 1 .. m : WordAt(segment, p) = v
            /\ \A p, q \in 1 .. m : WordAt(segment, p) = WordAt(segment, q) => p = q
            /\ \A p, q \in 1 .. m : p <= q => ~Before(word(q), word(p))
<1> DEFINE S == Heard(segment)
           said == Ascending(S)
           w == SaidWords(segment)
           m == Len(said)
           o == Order(w)
<1>1. /\ segment.words \in Seq(WordTimings) /\ S \in SUBSET DOMAIN segment.words
      /\ \A v \in S : segment.words[v].text # "blank"
  BY DEF Segments, Heard
<1>2. S \in SUBSET Int /\ IsFiniteSet(S) /\ \A v \in S : segment.words[v] \in WordTimings
  <2>1. /\ Len(segment.words) \in Nat /\ DOMAIN segment.words = 1 .. Len(segment.words)
        /\ \A i \in 1 .. Len(segment.words) : segment.words[i] \in WordTimings
    BY <1>1, SequenceHas
  <2>2. IsFiniteSet(1 .. Len(segment.words))
    BY <2>1, FS_Interval
  <2> HIDE DEF S
  <2>3. IsFiniteSet(S)
    BY <1>1, <2>1, <2>2, FS_Subset
  <2> QED
    BY <1>1, <2>1, <2>3
<1> HIDE DEF S
<1>3. /\ said \in Seq(S) /\ \A x \in S : \E i \in DOMAIN said : said[i] = x
      /\ \A i, j \in DOMAIN said : i < j => said[i] < said[j]
  BY <1>2, AscendingIs
<1> HIDE DEF said
<1>4. m \in Nat /\ DOMAIN said = 1 .. m /\ said \in [1 .. m -> S] /\ \A i \in 1 .. m : said[i] \in S
  BY <1>3, SequenceHas
<1> HIDE DEF m
<1>5. \A i, j \in 1 .. m : said[i] = said[j] => i = j
  <2> SUFFICES ASSUME NEW i \in 1 .. m, NEW j \in 1 .. m, i # j PROVE said[i] # said[j]
    OBVIOUS
  <2>1. said[i] \in Int /\ said[j] \in Int /\ (i < j \/ j < i)
    <3>1. said[i] \in Int /\ said[j] \in Int
      BY <1>2, <1>4
    <3> QED
      BY <1>4, <3>1
  <2>2. i < j => said[i] < said[j]
    BY <1>3, <1>4
  <2>3. j < i => said[j] < said[i]
    BY <1>3, <1>4
  <2> QED
    BY <2>1, <2>2, <2>3
<1>6. /\ w \in Seq(WordTimings) /\ Len(w) = m /\ DOMAIN w = 1 .. m
      /\ \A i \in 1 .. m : w[i] = segment.words[said[i]] /\ w[i] \in WordTimings
  <2>1. w = [i \in 1 .. m |-> segment.words[said[i]]]
    BY <1>4 DEF SaidWords, said, S
  <2>2. w \in [1 .. m -> WordTimings]
    BY <1>2, <1>4, <2>1
  <2>3. w \in Seq(WordTimings) /\ Len(w) = m
    BY <1>4, <2>2, SequenceIs
  <2> QED
    BY <2>1, <2>2, <2>3
<1> HIDE DEF w
<1>7. /\ o \in [1 .. m -> 1 .. m]
      /\ \A i \in 1 .. m : \E k \in 1 .. m : o[k] = i
      /\ \A k, l \in 1 .. m : o[k] = o[l] => k = l
      /\ \A k, l \in 1 .. m : k <= l => ~Before(w[o[l]], w[o[k]])
  <2>1. \A i \in 1 .. m : w[i].start \in Int /\ w[i].end \in Int
    BY <1>6 DEF WordTimings
  <2>2. m \in Nat /\ DOMAIN w = 1 .. m
    BY <1>4, <1>6
  <2> QED
    BY <2>1, <2>2, OrderIs
<1>8. \A p \in 1 .. m : o[p] \in 1 .. m
  BY <1>7
<1> HIDE DEF o
<1>9. \A p \in 1 .. m : WordAt(segment, p) = said[o[p]]
  BY DEF WordAt, said, S, o, w
<1>10. ASSUME NEW p \in 1 .. m
       PROVE  /\ WordAt(segment, p) \in S
              /\ segment.words[WordAt(segment, p)] \in WordTimings
              /\ segment.words[WordAt(segment, p)].text # "blank"
              /\ segment.words[WordAt(segment, p)] = w[o[p]]
  BY <1>1, <1>2, <1>4, <1>6, <1>8, <1>9
<1>11. m = 0 <=> S = {}
  BY <1>3, <1>4
<1>12. \A v \in S : \E p \in 1 .. m : WordAt(segment, p) = v
  <2> SUFFICES ASSUME NEW v \in S PROVE \E p \in 1 .. m : WordAt(segment, p) = v
    OBVIOUS
  <2>1. PICK i \in 1 .. m : said[i] = v
    BY <1>3, <1>4
  <2>2. PICK p \in 1 .. m : o[p] = i
    BY <1>7
  <2> QED
    BY <1>9, <2>1, <2>2
<1>13. \A p, q \in 1 .. m : WordAt(segment, p) = WordAt(segment, q) => p = q
  <2> SUFFICES ASSUME NEW p \in 1 .. m, NEW q \in 1 .. m, WordAt(segment, p) = WordAt(segment, q)
               PROVE  p = q
    OBVIOUS
  <2>1. o[p] = o[q]
    BY <1>5, <1>8, <1>9
  <2> QED
    BY <1>7, <2>1
<1>14. \A p, q \in 1 .. m : p <= q =>
          ~Before(segment.words[WordAt(segment, q)], segment.words[WordAt(segment, p)])
  BY <1>7, <1>10, SMTT(30)
<1>15. Len(said) = m
  BY DEF m
<1> SUFFICES /\ m \in Nat /\ (m = 0 <=> S = {}) /\ w \in Seq(WordTimings)
             /\ said \in [1 .. m -> S]
             /\ \A p \in 1 .. m :
                 /\ WordAt(segment, p) \in S
                 /\ segment.words[WordAt(segment, p)] \in WordTimings
                 /\ segment.words[WordAt(segment, p)].text # "blank"
                 /\ segment.words[WordAt(segment, p)] = w[o[p]]
             /\ \A v \in S : \E p \in 1 .. m : WordAt(segment, p) = v
             /\ \A p, q \in 1 .. m : WordAt(segment, p) = WordAt(segment, q) => p = q
             /\ \A p, q \in 1 .. m : p <= q =>
                  ~Before(segment.words[WordAt(segment, q)], segment.words[WordAt(segment, p)])
  BY <1>6, <1>15 DEF w, o, said, S
<1> QED
  BY <1>4, <1>6, <1>10, <1>11, <1>12, <1>13, <1>14
\* The rows of the segment n with the words: one per run, with its words in the order of their
\* times.
RowsOfRuns(rows, n, segment, assigned, runs) ==
  LET len(k) == runs[k][2] - runs[k][1] + 1
  IN /\ DOMAIN rows = DOMAIN runs /\ \E V : rows \in Seq(V)
     /\ \A k \in DOMAIN runs : len(k) \in Nat \ {0} /\ runs[k][1] \in Nat \ {0}
     /\ \A k \in DOMAIN runs : rows[k].segment = n /\ rows[k].speaker = assigned[runs[k][1]].speaker
     /\ \A k \in DOMAIN runs :
          rows[k].words = [i \in 1 .. len(k) |-> WordAt(segment, runs[k][1] + i - 1)]
     /\ \A k \in DOMAIN runs :
          /\ rows[k].overlap \in BOOLEAN
          /\ rows[k].overlap <=> \E i \in 1 .. len(k) : assigned[runs[k][1] + i - 1].overlap

LEMMA RowsOfWords ==
  ASSUME NEW segments, NEW n, segments[n] \in Segments, Heard(segments[n]) # {},
         NEW primary, NEW regular, NEW assigned,
         assigned = AssignWords(SaidWords(segments[n]), primary, regular)
  PROVE  RowsOfRuns(SegmentRows(segments, n, primary, regular), n, segments[n], assigned,
                    GroupBySpeaker(assigned))
<1> DEFINE segment == segments[n]
           said == Ascending(Heard(segment))
           w == SaidWords(segment)
           m == Len(w)
           a == AssignWords(w, primary, regular)
           runs == GroupBySpeaker(a)
           rows == SegmentRows(segments, n, primary, regular)
           of(k) == SubSeq(a, runs[k][1], runs[k][2])
           overlap(k) == \E i \in DOMAIN of(k) : of(k)[i].overlap
<1>1. /\ m \in Nat \ {0} /\ w \in Seq(WordTimings) /\ w # <<>>
      /\ \A p \in 1 .. m : WordAt(segment, p) = said[Order(w)[p]]
  <2> HIDE DEF segment
  <2>0. segment \in Segments /\ Heard(segment) # {}
    BY DEF segment
  <2>1. m \in Nat /\ (m = 0 <=> Heard(segment) = {}) /\ w \in Seq(WordTimings)
    BY <2>0, WordsInTime
  <2>2. m # 0 => w # <<>>
    BY <2>1, SequenceHas
  <2> QED
    BY <2>0, <2>1, <2>2 DEF WordAt
<1>2. /\ DOMAIN a = 1 .. m /\ Len(a) = m /\ \A p \in 1 .. m : a[p].word = Order(w)[p]
      /\ \E V : a \in Seq(V)
  <2> HIDE DEF w
  <2>0. w \in Seq(WordTimings)
    BY <1>1
  <2>1. DOMAIN a = 1 .. m
    BY <2>0, AssignWordsIs
  <2>2. Len(a) = m
    BY <2>0, AssignWordsIs
  <2>3. \E V : a \in Seq(V)
    BY <2>0, AssignWordsIs
  <2>4. ASSUME NEW p \in 1 .. m
        PROVE  a[p].word = Order(w)[p]
    BY <2>0, AssignWordsIs, SMTT(30)
  <2> QED
    BY <2>1, <2>2, <2>3, <2>4
<1>3. rows = [k \in DOMAIN runs |->
               [segment |-> n, speaker |-> of(k)[1].speaker,
                words |-> [i \in DOMAIN of(k) |-> said[of(k)[i].word]],
                start |-> Min({w[of(k)[i].word].start : i \in DOMAIN of(k)}),
                end |-> Max({w[of(k)[i].word].end : i \in DOMAIN of(k)}),
                overlap |-> overlap(k)]]
  <2> QED
    BY <1>1 DEF SegmentRows, SaidWords
<1> HIDE DEF segment, said, w, m, a
<1>4. Grouped(m, a, runs)
  BY <1>1, <1>2, GroupBySpeakerIs
<1> HIDE DEF runs
<1>5. /\ Len(runs) \in Nat /\ DOMAIN runs = 1 .. Len(runs)
      /\ \A k \in DOMAIN runs :
           runs[k][1] \in 1 .. m /\ runs[k][2] \in 1 .. m /\ runs[k][1] <= runs[k][2]
  BY <1>4 DEF Grouped
<1> DEFINE first(k) == runs[k][1]
           len(k) == runs[k][2] - runs[k][1] + 1
<1>6. ASSUME NEW k \in DOMAIN runs
      PROVE  /\ len(k) \in Nat \ {0} /\ first(k) \in 1 .. m /\ DOMAIN of(k) = 1 .. len(k)
             /\ \A i \in 1 .. len(k) : of(k)[i] = a[first(k) + i - 1] /\ first(k) + i - 1 \in 1 .. m
  <2>1. runs[k][1] \in 1 .. m /\ runs[k][2] \in 1 .. m /\ runs[k][1] <= runs[k][2] /\ m \in Nat
    BY <1>1, <1>5
  <2>2. PICK V : a \in Seq(V)
    BY <1>2
  <2>3. of(k) = [i \in 1 .. (runs[k][2] - runs[k][1] + 1) |-> a[i + runs[k][1] - 1]]
    BY <1>2, <2>1, <2>2, SMTT(30)
  <2>4. /\ len(k) \in Nat \ {0}
        /\ \A i \in 1 .. len(k) : /\ i + first(k) - 1 = first(k) + i - 1
                                  /\ first(k) + i - 1 \in 1 .. m
    BY <2>1
  <2>5. DOMAIN of(k) = 1 .. len(k) /\ \A i \in 1 .. len(k) : of(k)[i] = a[i + first(k) - 1]
    BY <2>3
  <2>6. first(k) \in 1 .. m
    BY <2>1
  <2> HIDE DEF of, first, len
  <2> QED
    BY <2>4, <2>5, <2>6
<1> HIDE DEF of, first, len
<1>7. ASSUME NEW k \in DOMAIN runs
      PROVE  /\ len(k) \in Nat \ {0} /\ first(k) \in Nat \ {0}
             /\ rows[k].segment = n /\ rows[k].speaker = a[first(k)].speaker
             /\ rows[k].words = [i \in 1 .. len(k) |-> WordAt(segment, first(k) + i - 1)]
             /\ rows[k].overlap \in BOOLEAN
             /\ rows[k].overlap <=> \E i \in 1 .. len(k) : a[first(k) + i - 1].overlap
  <2>2. /\ rows[k].segment = n /\ rows[k].speaker = of(k)[1].speaker
        /\ rows[k].words = [i \in DOMAIN of(k) |-> said[of(k)[i].word]]
        /\ rows[k].overlap \in BOOLEAN /\ (rows[k].overlap <=> overlap(k))
    <3>1. overlap(k) \in BOOLEAN
      OBVIOUS
    <3> HIDE DEF overlap
    <3> QED
      BY <1>3, <3>1
  <2>3. 1 \in 1 .. len(k) /\ first(k) + 1 - 1 = first(k)
    BY <1>6
  <2>4. ASSUME NEW i \in 1 .. len(k)
        PROVE  said[of(k)[i].word] = WordAt(segment, first(k) + i - 1)
    <3> DEFINE p == first(k) + i - 1
    <3>1. p \in 1 .. m /\ of(k)[i] = a[p]
      BY <1>6
    <3> HIDE DEF p
    <3>2. said[of(k)[i].word] = WordAt(segment, p)
      BY <1>1, <1>2, <3>1
    <3> QED
      BY <3>2 DEF p
  <2>5. overlap(k) <=> \E i \in 1 .. len(k) : a[first(k) + i - 1].overlap
    BY <1>6
  <2> HIDE DEF rows, overlap
  <2>6. /\ DOMAIN of(k) = 1 .. len(k) /\ of(k)[1] = a[first(k)]
        /\ len(k) \in Nat \ {0} /\ first(k) \in Nat \ {0}
    <3>1. \A i \in 1 .. len(k) : of(k)[i] = a[first(k) + i - 1]
      BY <1>6
    <3>2. of(k)[1] = a[first(k)]
      BY <2>3, <3>1
    <3> QED
      BY <1>1, <1>6, <3>2
  <2>7. rows[k].segment = n /\ rows[k].speaker = a[first(k)].speaker
    BY <2>2, <2>6
  <2>8. rows[k].words = [i \in 1 .. len(k) |-> WordAt(segment, first(k) + i - 1)]
    BY <2>2, <2>4, <2>6
  <2>9. /\ rows[k].overlap \in BOOLEAN
        /\ rows[k].overlap <=> \E i \in 1 .. len(k) : a[first(k) + i - 1].overlap
    BY <2>2, <2>5
  <2> QED
    BY <2>6, <2>7, <2>8, <2>9
<1>8. DOMAIN rows = DOMAIN runs
  BY <1>3
<1> HIDE DEF rows
<1>9. rows \in Seq({rows[k] : k \in DOMAIN rows})
  <2>1. rows \in [1 .. Len(runs) -> {rows[k] : k \in DOMAIN rows}]
    <3>1. rows = [k \in DOMAIN runs |-> rows[k]]
      BY <1>3 DEF rows
    <3> QED
      BY <1>5, <1>8, <3>1
  <2> QED
    BY <1>5, <2>1, SequenceIs
<1>10. RowsOfRuns(rows, n, segment, a, runs)
  BY <1>7, <1>8, <1>9 DEF RowsOfRuns, first, len
<1> QED
  BY <1>10 DEF segment, w, a, runs, rows

\* No word ends before it starts.
WordsRun(segment) == \A i \in DOMAIN segment.words : segment.words[i].start <= segment.words[i].end

\* Each of these rows is under the right speaker and flagged as it has to be: a word that leads has
\* a speaker and a flag of its own, and the flag of a mark is that of the last word before it in the
\* row that leads.
LEMMA RowsArePlaced ==
  ASSUME NEW segments, NEW n, segments[n] \in Segments, Heard(segments[n]) # {}, NEW diarization,
         Primary(diarization) \in SUBSET Turns, IsFiniteSet(Primary(diarization)),
         diarization.regular \in SUBSET Turns, IsFiniteSet(diarization.regular),
         WordsRun(segments[n]),
         NEW k \in DOMAIN SegmentRows(segments, n, Primary(diarization), diarization.regular)
  PROVE  Placed(SegmentRows(segments, n, Primary(diarization), diarization.regular)[k],
                segments[n], diarization)
<1> DEFINE segment == segments[n]
           primary == Primary(diarization)
           regular == diarization.regular
           w == SaidWords(segment)
           m == Len(w)
           at(p) == WordAt(segment, p)
           a == AssignWords(w, primary, regular)
           runs == GroupBySpeaker(a)
           r == SegmentRows(segments, n, primary, regular)[k]
           first == runs[k][1]
           len == runs[k][2] - runs[k][1] + 1
           word(i) == segment.words[r.words[i]]
           leads(i) == \/ word(i).text = "word"
                       \/ i = 1 /\ \A v \in Heard(segment) :
                                      v # r.words[1] => ~Before(segment.words[v], word(1))
<1>1. /\ segment \in Segments /\ Heard(segment) # {}
      /\ primary \in SUBSET Turns /\ IsFiniteSet(primary)
      /\ regular \in SUBSET Turns /\ IsFiniteSet(regular)
      /\ \A v \in Heard(segment) : segment.words[v].start <= segment.words[v].end
  BY DEF Heard, WordsRun
<1>2. /\ k \in DOMAIN runs
      /\ len \in Nat \ {0} /\ first \in Nat \ {0} /\ r.speaker = a[first].speaker
      /\ r.words = [i \in 1 .. len |-> at(first + i - 1)]
      /\ r.overlap \in BOOLEAN /\ (r.overlap <=> \E i \in 1 .. len : a[first + i - 1].overlap)
  <2>1. RowsOfRuns(SegmentRows(segments, n, primary, regular), n, segment, a, runs)
    BY RowsOfWords
  <2> HIDE DEF runs, at, a, segment
  <2> QED
    BY <2>1 DEF RowsOfRuns, at
<1> HIDE DEF segment, primary, regular, r
<1>3. /\ m \in Nat \ {0} /\ w \in Seq(WordTimings)
      /\ \A p \in 1 .. m : /\ at(p) \in Heard(segment) /\ segment.words[at(p)] \in WordTimings
                           /\ segment.words[at(p)].text # "blank"
                           /\ segment.words[at(p)] = w[Order(w)[p]]
      /\ \A v \in Heard(segment) : \E p \in 1 .. m : at(p) = v
      /\ \A p, q \in 1 .. m : p <= q => ~Before(segment.words[at(q)], segment.words[at(p)])
  BY <1>1, WordsInTime
<1> HIDE DEF w, at
<1>4. /\ DOMAIN a = 1 .. m /\ Len(a) = m
      /\ \A p \in 1 .. m :
           p = 1 \/ w[Order(w)[p]].text # "mark"
             => /\ a[p].speaker = ChooseSpeaker(w[Order(w)[p]], primary)
                /\ a[p].overlap = HasSimultaneousSpeech(w[Order(w)[p]], regular)
      /\ \A p \in 1 .. m : p > 1 /\ w[Order(w)[p]].text = "mark"
             => a[p].speaker = a[p - 1].speaker /\ a[p].overlap = a[p - 1].overlap
  BY <1>3, AssignWordsIs
<1> HIDE DEF m, a
<1>5. /\ runs[k][1] \in 1 .. m /\ runs[k][2] \in 1 .. m /\ runs[k][1] <= runs[k][2]
      /\ runs[k][1] > 1 => a[runs[k][1]].speaker # a[runs[k][1] - 1].speaker
      /\ \A p \in 1 .. m : runs[k][1] <= p /\ p <= runs[k][2] => a[p].speaker = a[runs[k][1]].speaker
  <2>1. Grouped(m, a, runs)
    BY <1>3, <1>4, GroupBySpeakerIs
  <2> HIDE DEF runs
  <2> QED
    BY <1>2, <2>1 DEF Grouped
<1>6. \A i \in 1 .. len : /\ first + i - 1 \in 1 .. m /\ runs[k][1] <= first + i - 1 /\ first + i - 1 <= runs[k][2]
                          /\ i > 1 => i - 1 \in 1 .. len /\ first + (i - 1) - 1 = (first + i - 1) - 1 /\ first + i - 1 > 1
  <2>1. /\ first \in 1 .. m /\ runs[k][2] \in 1 .. m /\ first = runs[k][1]
        /\ len = runs[k][2] - first + 1 /\ m \in Nat
    BY <1>3, <1>5
  <2> HIDE DEF first, len, runs
  <2> QED
    BY <2>1
<1>7. /\ first \in 1 .. m /\ len \in Nat \ {0}
      /\ first > 1 => a[first].speaker # a[first - 1].speaker
      /\ \A i \in 1 .. len : a[first + i - 1].speaker = a[first].speaker
  BY <1>2, <1>5, <1>6
<1> HIDE DEF runs, first, len
<1>8. ASSUME NEW p \in 1 .. m, p = 1 \/ segment.words[at(p)].text = "word"
      PROVE  /\ Attributed(segment.words[at(p)], a[p].speaker, primary)
             /\ a[p].overlap <=> TwoTalk(segment.words[at(p)], regular)
  <2> DEFINE x == segment.words[at(p)]
  <2>1. x \in WordTimings /\ x = w[Order(w)[p]] /\ x.start <= x.end
    BY <1>1, <1>3
  <2>2. p = 1 \/ x.text = "word"
    BY <1>8
  <2> HIDE DEF x
  <2>3. x.start \in Int /\ x.end \in Int
    BY <2>1 DEF WordTimings
  <2>4. a[p].speaker = ChooseSpeaker(x, primary) /\ a[p].overlap = HasSimultaneousSpeech(x, regular)
    <3>1. p = 1 \/ w[Order(w)[p]].text # "mark"
      BY <2>1, <2>2
    <3> QED
      BY <1>4, <2>1, <3>1
  <2>5. Attributed(x, ChooseSpeaker(x, primary), primary)
    BY <1>1, <2>1, <2>3, ChooseSpeakerIs
  <2>6. HasSimultaneousSpeech(x, regular) <=> TwoTalk(x, regular)
    BY <1>1, <2>1, <2>3, SimultaneousSpeechIs
  <2>7. Attributed(x, a[p].speaker, primary) /\ (a[p].overlap <=> TwoTalk(x, regular))
    BY <2>4, <2>5, <2>6
  <2> QED
    BY <2>7 DEF x
<1>9. /\ DOMAIN r.words = 1 .. len /\ r.words # <<>>
      /\ \A i \in 1 .. len : r.words[i] = at(first + i - 1) /\ word(i) = segment.words[at(first + i - 1)]
  <2>1. DOMAIN r.words = 1 .. len /\ 1 \in 1 .. len
    BY <1>2, <1>7
  <2> QED
    BY <1>2, <2>1
<1>10. ASSUME NEW i \in 1 .. len, leads(i)
       PROVE  first + i - 1 = 1 \/ word(i).text = "word"
  <2>1. CASE i = 1 /\ first > 1 /\ word(i).text # "word"
    <3>1. first + i - 1 = first
      BY <1>7, <2>1
    <3>2. w[Order(w)[first]] = word(1) /\ word(1) \in WordTimings /\ word(1).text # "blank"
      BY <1>3, <1>7, <1>9, <2>1, <3>1
    <3> HIDE DEF word, leads
    <3>3. w[Order(w)[first]].text = "mark"
      BY <2>1, <3>2 DEF WordTimings
    <3> QED
      BY <1>4, <1>7, <2>1, <3>3
  <2>2. CASE i = 1 /\ first = 1
    BY <2>2
  <2> HIDE DEF word
  <2> QED
    BY <1>7, <1>10, <2>1, <2>2
<1> HIDE DEF leads, word
<1>11. ASSUME NEW i \in 1 .. len, leads(i)
       PROVE  /\ Attributed(word(i), r.speaker, primary)
              /\ a[first + i - 1].overlap <=> TwoTalk(word(i), regular)
  <2> DEFINE p == first + i - 1
  <2>1. /\ p \in 1 .. m /\ a[p].speaker = r.speaker /\ word(i) = segment.words[at(p)]
        /\ p = 1 \/ word(i).text = "word"
    BY <1>2, <1>6, <1>7, <1>9, <1>10, <1>11
  <2> HIDE DEF p
  <2>2. Attributed(word(i), r.speaker, primary) /\ (a[p].overlap <=> TwoTalk(word(i), regular))
    BY <1>8, <2>1
  <2> QED
    BY <2>2 DEF p
<1>12. ASSUME NEW i \in 1 .. len, ~leads(i)
       PROVE  i > 1 /\ a[first + i - 1].overlap = a[first + (i - 1) - 1].overlap
  <2> DEFINE p == first + i - 1
  <2>1. p \in 1 .. m /\ r.words[i] = at(p) /\ word(i) = segment.words[at(p)]
    BY <1>6, <1>9
  <2>2. word(i).text # "word" /\ (i = 1 => \E v \in Heard(segment) :
                                     v # r.words[1] /\ Before(segment.words[v], word(1)))
    BY <1>12 DEF leads
  <2>3. i > 1 => i - 1 \in 1 .. len /\ first + (i - 1) - 1 = p - 1 /\ p > 1
    BY <1>6
  <2>4. i = 1 => p = first
    BY <1>7
  <2> HIDE DEF p
  <2>5. w[Order(w)[p]].text = "mark"
    <3>1. word(i) \in WordTimings /\ word(i).text # "blank" /\ word(i) = w[Order(w)[p]]
      BY <1>3, <2>1
    <3> QED
      BY <2>2, <3>1 DEF WordTimings
  <2>6. i # 1
    <3> SUFFICES ASSUME i = 1 PROVE FALSE
      OBVIOUS
    <3>1. first = 1
      BY <1>4, <1>7, <2>4, <2>5
    <3>2. PICK v \in Heard(segment) : Before(segment.words[v], word(1))
      BY <2>2
    <3>3. PICK q \in 1 .. m : at(q) = v
      BY <1>3
    <3>4. 1 \in 1 .. m /\ 1 <= q /\ word(1) = segment.words[at(1)]
      BY <1>3, <2>1, <2>4, <3>1
    <3> QED
      BY <1>3, <3>2, <3>3, <3>4
  <2>7. a[p].overlap = a[p - 1].overlap
    BY <1>4, <2>1, <2>3, <2>5, <2>6
  <2>8. i > 1 /\ a[p].overlap = a[first + (i - 1) - 1].overlap
    BY <2>3, <2>6, <2>7
  <2> QED
    BY <2>8 DEF p
<1>13. (\E i \in 1 .. len : a[first + i - 1].overlap) <=>
         \E i \in 1 .. len : leads(i) /\ TwoTalk(word(i), regular)
  <2>1. ASSUME NEW i \in 1 .. len, leads(i), TwoTalk(word(i), regular)
        PROVE  \E j \in 1 .. len : a[first + j - 1].overlap
    BY <1>11, <2>1
  <2> DEFINE Q == {i \in 1 .. len : a[first + i - 1].overlap =>
                                      \E j \in 1 .. len : leads(j) /\ TwoTalk(word(j), regular)}
  <2>2. ASSUME NEW i \in 1 .. len, i > 1 => i - 1 \in Q
        PROVE  i \in Q
    <3>1. CASE leads(i)
      BY <1>11, <3>1
    <3>2. CASE ~leads(i)
      <4>1. i > 1 /\ a[first + i - 1].overlap = a[first + (i - 1) - 1].overlap
        BY <1>12, <3>2
      <4>2. i - 1 \in Q
        BY <2>2, <4>1
      <4> QED
        BY <4>1, <4>2
    <3> QED
      BY <3>1, <3>2
  <2>3. \A i \in 1 .. len : i \in Q
    <3>1. 1 \in 1 .. len /\ len \in Nat
      BY <1>7
    <3> HIDE DEF Q
    <3>2. len > 0 => 1 \in Q
      BY <2>2, <3>1
    <3>3. \A i \in 1 .. len : i > 1 /\ i - 1 \in Q => i \in Q
      BY <2>2
    <3> QED
      BY <3>1, <3>2, <3>3, PlaceByPlace
  <2> QED
    BY <2>1, <2>3
<1>14. /\ \A i \in DOMAIN r.words : leads(i) => Attributed(word(i), r.speaker, primary)
       /\ r.overlap = \E i \in DOMAIN r.words : leads(i) /\ TwoTalk(word(i), regular)
  <2>1. \A i \in DOMAIN r.words : leads(i) => Attributed(word(i), r.speaker, primary)
    BY <1>9, <1>11
  <2>2. r.overlap <=> \E i \in DOMAIN r.words : leads(i) /\ TwoTalk(word(i), regular)
    BY <1>2, <1>9, <1>13
  <2> QED
    BY <1>2, <2>1, <2>2
<1>15. Placed(r, segment, diarization)
  BY <1>9, <1>14 DEF Placed, leads, word, primary, regular
<1> QED
  BY <1>15 DEF r, segment, primary, regular
\* The rows of the segment n: each is as it has to be, and they have its words in the order of
\* their times, each once.
RowsOfSegment(rows, n, segment, diarization) ==
  /\ \E V : rows \in Seq(V)
  /\ \A k \in DOMAIN rows : rows[k].segment = n
  /\ \A k \in DOMAIN rows : Placed(rows[k], segment, diarization)
  /\ \A k \in DOMAIN rows : rows[k].words = <<>> => Heard(segment) = {}
  /\ \A k \in DOMAIN rows : \A i \in DOMAIN rows[k].words :
       i \in Nat /\ rows[k].words[i] \in Heard(segment)
  /\ \A v \in Heard(segment) : \E k \in DOMAIN rows : \E i \in DOMAIN rows[k].words : rows[k].words[i] = v
  /\ \A k, l \in DOMAIN rows : \A i \in DOMAIN rows[k].words, j \in DOMAIN rows[l].words :
       rows[k].words[i] = rows[l].words[j] => k = l /\ i = j
  /\ \A k, l \in DOMAIN rows : \A i \in DOMAIN rows[k].words, j \in DOMAIN rows[l].words :
       k < l \/ (k = l /\ i < j)
         => ~Before(segment.words[rows[l].words[j]], segment.words[rows[k].words[i]])
  /\ Heard(segment) = {} => DOMAIN rows = IF segment.spoken THEN {1} ELSE {}

\* The turns of a diarization.
TurnsGiven(diarization) ==
  /\ diarization.exclusive \in SUBSET Turns /\ IsFiniteSet(diarization.exclusive)
  /\ diarization.regular \in SUBSET Turns /\ IsFiniteSet(diarization.regular)

LEMMA SegmentRowsAre ==
  ASSUME NEW segments, NEW n, segments[n] \in Segments, WordsRun(segments[n]),
         segments[n].start <= segments[n].end, NEW diarization, TurnsGiven(diarization)
  PROVE  RowsOfSegment(SegmentRows(segments, n, Primary(diarization), diarization.regular),
                       n, segments[n], diarization)
<1> DEFINE segment == segments[n]
           primary == Primary(diarization)
           regular == diarization.regular
           rows == SegmentRows(segments, n, primary, regular)
<1>1. /\ primary \in SUBSET Turns /\ IsFiniteSet(primary)
      /\ regular \in SUBSET Turns /\ IsFiniteSet(regular)
  BY DEF TurnsGiven, Primary
<1>2. CASE Heard(segment) # {}
  <2> DEFINE w == SaidWords(segment)
             m == Len(w)
             a == AssignWords(w, primary, regular)
             runs == GroupBySpeaker(a)
             at(p) == WordAt(segment, p)
             len(k) == runs[k][2] - runs[k][1] + 1
             pos(k, i) == runs[k][1] + i - 1
  <2>1. \A k \in DOMAIN rows : Placed(rows[k], segment, diarization)
    BY <1>1, <1>2, RowsArePlaced
  <2>2. RowsOfRuns(rows, n, segment, a, runs)
    BY <1>2, RowsOfWords
  <2>3. /\ m \in Nat \ {0} /\ w \in Seq(WordTimings)
        /\ \A p \in 1 .. m : at(p) \in Heard(segment)
        /\ \A v \in Heard(segment) : \E p \in 1 .. m : at(p) = v
        /\ \A p, q \in 1 .. m : at(p) = at(q) => p = q
        /\ \A p, q \in 1 .. m : p <= q => ~Before(segment.words[at(q)], segment.words[at(p)])
    <3> HIDE DEF segment
    <3>1. segment \in Segments
      BY DEF segment
    <3> QED
      BY <1>2, <3>1, WordsInTime
  <2> HIDE DEF segment, primary, regular, rows, w, at
  <2>4. DOMAIN a = 1 .. m /\ Len(a) = m
    BY <2>3, AssignWordsIs
  <2> HIDE DEF m, a
  <2>5. Grouped(m, a, runs)
    BY <2>3, <2>4, GroupBySpeakerIs
  <2> HIDE DEF runs
  <2>6. /\ DOMAIN runs = 1 .. Len(runs) /\ Len(runs) \in Nat
        /\ \A k \in DOMAIN runs :
             runs[k][1] \in 1 .. m /\ runs[k][2] \in 1 .. m /\ runs[k][1] <= runs[k][2]
        /\ \A k, l \in DOMAIN runs : k < l => runs[k][2] < runs[l][1]
        /\ \A p \in 1 .. m : \E k \in DOMAIN runs : runs[k][1] <= p /\ p <= runs[k][2]
    BY <2>5 DEF Grouped
  <2>7. /\ DOMAIN rows = DOMAIN runs /\ \E V : rows \in Seq(V)
        /\ \A k \in DOMAIN runs : len(k) \in Nat \ {0} /\ rows[k].segment = n
        /\ \A k \in DOMAIN runs : rows[k].words = [i \in 1 .. len(k) |-> at(pos(k, i))]
    BY <2>2 DEF RowsOfRuns, at
  <2>8. \A k \in DOMAIN rows : /\ DOMAIN rows[k].words = 1 .. len(k) /\ rows[k].words # <<>>
                               /\ \A i \in 1 .. len(k) : rows[k].words[i] = at(pos(k, i))
    <3> SUFFICES ASSUME NEW k \in DOMAIN rows
                 PROVE  /\ DOMAIN rows[k].words = 1 .. len(k) /\ rows[k].words # <<>>
                        /\ \A i \in 1 .. len(k) : rows[k].words[i] = at(pos(k, i))
      OBVIOUS
    <3>1. rows[k].words = [i \in 1 .. len(k) |-> at(pos(k, i))] /\ len(k) \in Nat \ {0}
      BY <2>7
    <3> HIDE DEF len, pos
    <3>2. 1 \in 1 .. len(k)
      BY <3>1
    <3> QED
      BY <3>1, <3>2
  <2>9. ASSUME NEW k \in DOMAIN rows, NEW i \in 1 .. len(k)
        PROVE  pos(k, i) \in 1 .. m /\ runs[k][1] <= pos(k, i) /\ pos(k, i) <= runs[k][2]
    <3>1. runs[k][1] \in 1 .. m /\ runs[k][2] \in 1 .. m /\ runs[k][1] <= runs[k][2] /\ m \in Nat
      BY <2>3, <2>6, <2>7
    <3> QED
      BY <3>1
  <2>10. ASSUME NEW k \in DOMAIN rows, NEW l \in DOMAIN rows, NEW i \in 1 .. len(k), NEW j \in 1 .. len(l),
                k < l \/ (k = l /\ i < j)
         PROVE  pos(k, i) < pos(l, j)
    <3>1. CASE k < l
      <4>1. /\ pos(k, i) \in 1 .. m /\ pos(k, i) <= runs[k][2] /\ pos(l, j) \in 1 .. m
            /\ runs[l][1] <= pos(l, j) /\ runs[k][2] < runs[l][1]
            /\ runs[k][2] \in 1 .. m /\ runs[l][1] \in 1 .. m
        BY <2>6, <2>7, <2>9, <3>1
      <4> HIDE DEF pos
      <4> QED
        BY <4>1
    <3>2. CASE k = l /\ i < j
      <4>1. runs[k][1] \in 1 .. m
        BY <2>6, <2>7
      <4> QED
        BY <3>2, <4>1
    <3> QED
      BY <2>10, <3>1, <3>2
  <2>11. \A v \in Heard(segment) : \E k \in DOMAIN rows : \E i \in 1 .. len(k) : at(pos(k, i)) = v
    <3> SUFFICES ASSUME NEW v \in Heard(segment)
                 PROVE  \E k \in DOMAIN rows : \E i \in 1 .. len(k) : at(pos(k, i)) = v
      OBVIOUS
    <3>1. PICK p \in 1 .. m : at(p) = v
      BY <2>3
    <3>2. PICK k \in DOMAIN rows : runs[k][1] <= p /\ p <= runs[k][2]
      BY <2>6, <2>7
    <3>3. runs[k][1] \in 1 .. m /\ runs[k][2] \in 1 .. m /\ m \in Nat
      BY <2>3, <2>6, <2>7
    <3>4. p - runs[k][1] + 1 \in 1 .. len(k) /\ pos(k, p - runs[k][1] + 1) = p
      BY <3>2, <3>3
    <3> HIDE DEF pos, len
    <3> QED
      BY <3>1, <3>4
  <2> HIDE DEF pos, len
  <2>12. ASSUME NEW k \in DOMAIN rows, NEW l \in DOMAIN rows, NEW i \in 1 .. len(k), NEW j \in 1 .. len(l),
                at(pos(k, i)) = at(pos(l, j))
         PROVE  k = l /\ i = j
    <3>1. pos(k, i) = pos(l, j) /\ pos(k, i) \in Int
      BY <2>3, <2>9, <2>12
    <3>2. k \in Int /\ l \in Int /\ i \in Int /\ j \in Int
      BY <2>6, <2>7
    <3>3. ~(k < l \/ (k = l /\ i < j)) /\ ~(l < k \/ (l = k /\ j < i))
      BY <2>10, <3>1
    <3> QED
      BY <3>2, <3>3
  <2>13. ASSUME NEW k \in DOMAIN rows, NEW l \in DOMAIN rows, NEW i \in 1 .. len(k), NEW j \in 1 .. len(l),
                k < l \/ (k = l /\ i < j)
         PROVE  ~Before(segment.words[at(pos(l, j))], segment.words[at(pos(k, i))])
    <3>1. pos(k, i) \in 1 .. m /\ pos(l, j) \in 1 .. m /\ pos(k, i) <= pos(l, j)
      BY <2>9, <2>10, <2>13
    <3> QED
      BY <2>3, <3>1
  <2>14. \A k \in DOMAIN rows : \A i \in 1 .. len(k) : i \in Nat /\ at(pos(k, i)) \in Heard(segment)
    BY <2>3, <2>9
  <2>15. /\ \A v \in Heard(segment) : \E k \in DOMAIN rows : \E i \in DOMAIN rows[k].words : rows[k].words[i] = v
         /\ \A k \in DOMAIN rows : \A i \in DOMAIN rows[k].words :
              i \in Nat /\ rows[k].words[i] \in Heard(segment)
    <3>1. ASSUME NEW v \in Heard(segment)
          PROVE  \E k \in DOMAIN rows : \E i \in DOMAIN rows[k].words : rows[k].words[i] = v
      <4>1. PICK k \in DOMAIN rows : \E i \in 1 .. len(k) : at(pos(k, i)) = v
        BY <2>11
      <4>2. PICK i \in 1 .. len(k) : at(pos(k, i)) = v
        BY <4>1
      <4>3. i \in DOMAIN rows[k].words /\ rows[k].words[i] = v
        BY <2>8, <4>2
      <4> QED
        BY <4>3
    <3>2. ASSUME NEW k \in DOMAIN rows, NEW i \in DOMAIN rows[k].words
          PROVE  i \in Nat /\ rows[k].words[i] \in Heard(segment)
      <4>1. i \in 1 .. len(k) /\ rows[k].words[i] = at(pos(k, i))
        BY <2>8
      <4> QED
        BY <2>14, <4>1
    <3> QED
      BY <3>1, <3>2
  <2>16. \A k, l \in DOMAIN rows : \A i \in DOMAIN rows[k].words, j \in DOMAIN rows[l].words :
           rows[k].words[i] = rows[l].words[j] => k = l /\ i = j
    <3> SUFFICES ASSUME NEW k \in DOMAIN rows, NEW l \in DOMAIN rows, NEW i \in DOMAIN rows[k].words,
                        NEW j \in DOMAIN rows[l].words, rows[k].words[i] = rows[l].words[j]
                 PROVE  k = l /\ i = j
      OBVIOUS
    <3>1. i \in 1 .. len(k) /\ rows[k].words[i] = at(pos(k, i))
      BY <2>8
    <3>2. j \in 1 .. len(l) /\ rows[l].words[j] = at(pos(l, j))
      BY <2>8
    <3>3. at(pos(k, i)) = at(pos(l, j))
      BY <3>1, <3>2
    <3> QED
      BY <2>12, <3>1, <3>2, <3>3
  <2>17. \A k, l \in DOMAIN rows : \A i \in DOMAIN rows[k].words, j \in DOMAIN rows[l].words :
           k < l \/ (k = l /\ i < j)
             => ~Before(segment.words[rows[l].words[j]], segment.words[rows[k].words[i]])
    <3> SUFFICES ASSUME NEW k \in DOMAIN rows, NEW l \in DOMAIN rows, NEW i \in DOMAIN rows[k].words,
                        NEW j \in DOMAIN rows[l].words, k < l \/ (k = l /\ i < j)
                 PROVE  ~Before(segment.words[rows[l].words[j]], segment.words[rows[k].words[i]])
      OBVIOUS
    <3>1. i \in 1 .. len(k) /\ rows[k].words[i] = at(pos(k, i))
      BY <2>8
    <3>2. j \in 1 .. len(l) /\ rows[l].words[j] = at(pos(l, j))
      BY <2>8
    <3> QED
      BY <2>13, <3>1, <3>2
  <2>18. RowsOfSegment(rows, n, segment, diarization)
    BY <1>2, <2>1, <2>7, <2>8, <2>15, <2>16, <2>17 DEF RowsOfSegment
  <2> QED
    BY <2>18 DEF rows, segment, primary, regular
<1>3. CASE Heard(segment) = {}
  <2> DEFINE r == [segment |-> n, speaker |-> ChooseSpeaker(segment, primary), words |-> <<>>,
                   start |-> segment.start, end |-> segment.end,
                   overlap |-> HasSimultaneousSpeech(segment, regular)]
  <2>1. rows = IF segment.spoken THEN <<r>> ELSE <<>>
    <3>1. SaidWords(segment) = <<>>
      <4> HIDE DEF segment
      <4>1. segment \in Segments
        BY DEF segment
      <4>2. Len(SaidWords(segment)) = 0 /\ SaidWords(segment) \in Seq(WordTimings)
        BY <1>3, <4>1, WordsInTime
      <4> QED
        BY <4>2, SequenceHas
    <3> QED
      BY <3>1 DEF SegmentRows, SaidWords
  <2>2. Placed(r, segment, diarization) /\ r.segment = n /\ r.words = <<>>
    <3>1. segment.start \in Int /\ segment.end \in Int
      BY DEF Segments
    <3>2. Attributed(segment, ChooseSpeaker(segment, primary), primary)
      BY <1>1, <3>1, ChooseSpeakerIs
    <3>3. HasSimultaneousSpeech(segment, regular) <=> TwoTalk(segment, regular)
      BY <1>1, <3>1, SimultaneousSpeechIs
    <3>4. HasSimultaneousSpeech(segment, regular) \in BOOLEAN
      BY DEF HasSimultaneousSpeech
    <3>5. TwoTalk(segment, regular) \in BOOLEAN
      <4>1. CASE segment.start = segment.end
        <5>1. TwoTalk(segment, regular) = (Cardinality(SpeakersAt(segment.start, 0, regular)) > 1)
          BY <4>1 DEF TwoTalk
        <5> QED
          BY <5>1
      <4>2. CASE segment.start # segment.end
        <5>1. TwoTalk(segment, regular) =
                \E t \in segment.start .. segment.end - 1 : Cardinality(SpeakersAt(t, 1, regular)) > 1
          BY <4>2 DEF TwoTalk
        <5> QED
          BY <5>1
      <4> QED
        BY <4>1, <4>2
    <3>6. HasSimultaneousSpeech(segment, regular) = TwoTalk(segment, regular)
      BY <3>3, <3>4, <3>5
    <3>7. /\ r.segment = n /\ r.words = <<>> /\ r.speaker = ChooseSpeaker(segment, primary)
          /\ r.overlap = HasSimultaneousSpeech(segment, regular)
      OBVIOUS
    <3> HIDE DEF r, segment
    <3> QED
      BY <3>2, <3>6, <3>7 DEF Placed
  <2> HIDE DEF rows, r, segment
  <2>3. CASE segment.spoken
    <3>1. rows = <<r>>
      BY <2>1, <2>3
    <3>2. rows \in Seq({r}) /\ DOMAIN rows = {1} /\ rows[1] = r
      BY <3>1
    <3>3. RowsOfSegment(rows, n, segment, diarization)
      BY <1>3, <2>2, <2>3, <3>2 DEF RowsOfSegment
    <3> QED
      BY <3>3 DEF rows, segment
  <2>4. CASE ~segment.spoken
    <3>1. rows = <<>>
      BY <2>1, <2>4
    <3>2. rows \in Seq({r}) /\ DOMAIN rows = {}
      BY <3>1
    <3>3. RowsOfSegment(rows, n, segment, diarization)
      BY <1>3, <2>4, <3>2 DEF RowsOfSegment
    <3> QED
      BY <3>3 DEF rows, segment
  <2> QED
    BY <2>3, <2>4, SMTT(30)
<1> QED
  BY <1>2, <1>3
--------------------------------------------------------------------------------
(* The transcript: the segments together. *)

\* TimestampTranscriptMerger.merge: whatever the segments and the turns are, the transcript has
\* every word once, in the order of the times, under a speaker nobody is heard longer than, and the
\* rows flagged where two speakers talk at once.
THEOREM MergeTranscriptIsFaithful ==
  ASSUME NEW segments \in Seq(Segments), NEW diarization, TurnsGiven(diarization),
         \A n \in DOMAIN segments : WordsRun(segments[n]) /\ segments[n].start <= segments[n].end
  PROVE  Faithful(MergeTranscript(segments, diarization), segments, diarization)
<1> DEFINE N == Len(segments)
           order == Order(segments)
           seqs == [k \in DOMAIN order |->
                      SegmentRows(segments, order[k], Primary(diarization), diarization.regular)]
           flat == MergeTranscript(segments, diarization)
           X == UNION {{seqs[k][i] : i \in DOMAIN seqs[k]} : k \in 1 .. N}
<1>1. N \in Nat /\ DOMAIN segments = 1 .. N /\ \A n \in 1 .. N : segments[n] \in Segments
  BY SequenceHas
<1> HIDE DEF N
<1>2. /\ order \in [1 .. N -> 1 .. N]
      /\ \A i \in 1 .. N : \E k \in 1 .. N : order[k] = i
      /\ \A k, l \in 1 .. N : order[k] = order[l] => k = l
      /\ \A k, l \in 1 .. N : k <= l => ~Before(segments[order[l]], segments[order[k]])
  <2>1. \A n \in 1 .. N : segments[n].start \in Int /\ segments[n].end \in Int
    BY <1>1 DEF Segments
  <2> QED
    BY <1>1, <2>1, OrderIs
<1>3. flat = FlattenSeq(seqs)
  BY DEF MergeTranscript
<1> HIDE DEF order, flat
<1>4. /\ \A k \in 1 .. N : order[k] \in 1 .. N
      /\ \A k \in 1 .. N : seqs[k] = SegmentRows(segments, order[k], Primary(diarization), diarization.regular)
      /\ seqs = [k \in 1 .. N |-> seqs[k]]
  BY <1>2
<1> HIDE DEF seqs
<1>5. ASSUME NEW k \in 1 .. N
      PROVE  RowsOfSegment(seqs[k], order[k], segments[order[k]], diarization)
  <2>1. order[k] \in DOMAIN segments /\ segments[order[k]] \in Segments
    BY <1>1, <1>4
  <2> QED
    BY <1>4, <2>1, SegmentRowsAre
<1>6. seqs \in Seq(Seq(X)) /\ Len(seqs) = N
  <2>1. ASSUME NEW k \in 1 .. N
        PROVE  seqs[k] \in Seq(X)
    <3>1. PICK V : seqs[k] \in Seq(V)
      BY <1>5 DEF RowsOfSegment
    <3>2. DOMAIN seqs[k] = 1 .. Len(seqs[k]) /\ \A i \in 1 .. Len(seqs[k]) : seqs[k][i] \in X
      BY <3>1, SequenceHas
    <3> HIDE DEF X
    <3> QED
      BY <3>1, <3>2, SequenceHas
  <2> HIDE DEF X
  <2>2. seqs \in [1 .. N -> Seq(X)]
    BY <1>4, <2>1
  <2> QED
    BY <1>1, <2>2, SequenceIs
<1> HIDE DEF X
<1>7. PICK at : flat \in Seq(X) /\ Traces(at, flat, seqs, N)
  BY <1>3, <1>6, FlattenSeqIs
<1> DEFINE M == Len(flat)
           b(p) == at[p][1]
           c(p) == at[p][2]
<1>8. M \in Nat /\ DOMAIN flat = 1 .. M
  BY <1>7, SequenceHas
<1> HIDE DEF M
<1>9. ASSUME NEW p \in 1 .. M
      PROVE  /\ b(p) \in 1 .. N /\ c(p) \in DOMAIN seqs[b(p)] /\ at[p] = <<b(p), c(p)>>
             /\ flat[p] = seqs[b(p)][c(p)] /\ flat[p].segment = order[b(p)] /\ c(p) \in Nat
  <2>1. PICK k \in 1 .. N : \E i \in DOMAIN seqs[k] : at[p] = <<k, i>> /\ flat[p] = seqs[k][i]
    BY <1>7 DEF Traces, M
  <2>2. PICK i \in DOMAIN seqs[k] : at[p] = <<k, i>> /\ flat[p] = seqs[k][i]
    BY <2>1
  <2>3. PICK V : seqs[k] \in Seq(V)
    BY <1>5 DEF RowsOfSegment
  <2>4. seqs[k][i].segment = order[k]
    BY <1>5 DEF RowsOfSegment
  <2>5. i \in Nat
    BY <2>3, SequenceHas
  <2> QED
    BY <2>2, <2>4, <2>5
<1>10. \A k \in 1 .. N : \A i \in DOMAIN seqs[k] : \E p \in 1 .. M : b(p) = k /\ c(p) = i
  <2> SUFFICES ASSUME NEW k \in 1 .. N, NEW i \in DOMAIN seqs[k]
               PROVE  \E p \in 1 .. M : b(p) = k /\ c(p) = i
    OBVIOUS
  <2>1. PICK p \in 1 .. M : at[p] = <<k, i>>
    BY <1>7 DEF Traces, M
  <2> QED
    BY <2>1
<1>11. \A p, q \in 1 .. M : p < q => b(p) < b(q) \/ (b(p) = b(q) /\ c(p) < c(q))
  <2>1. \A p, q \in 1 .. M : p < q => Earlier(at[p], at[q])
    BY <1>7 DEF Traces, M
  <2> QED
    BY <2>1 DEF Earlier
<1> HIDE DEF b, c
<1>12. ASSUME NEW p \in 1 .. M, NEW q \in 1 .. M, b(p) = b(q), c(p) = c(q)
       PROVE  p = q
  <2>1. b(p) \in Int /\ c(p) \in Int /\ p \in Int /\ q \in Int
    BY <1>9
  <2>2. ~(p < q) /\ ~(q < p)
    BY <1>11, <1>12, <2>1
  <2> QED
    BY <2>1, <2>2
<1>13. \A p, q \in 1 .. M : flat[p].segment = flat[q].segment => b(p) = b(q)
  BY <1>2, <1>9
\* A place is a row and a word of it, and its word is one of the segment of the row.
<1>14. \A z : z \in Places(flat) <=> \E p \in 1 .. M : \E i \in DOMAIN flat[p].words : z = <<p, i>>
  BY <1>8 DEF Places
<1>15. ASSUME NEW p \in 1 .. M, NEW i \in DOMAIN flat[p].words
       PROVE  /\ flat[p].segment \in 1 .. N /\ i \in Nat
              /\ flat[p].words[i] \in Heard(segments[flat[p].segment])
  <2>1. /\ b(p) \in 1 .. N /\ c(p) \in DOMAIN seqs[b(p)]
        /\ flat[p] = seqs[b(p)][c(p)] /\ flat[p].segment = order[b(p)]
    BY <1>9
  <2>2. i \in Nat /\ seqs[b(p)][c(p)].words[i] \in Heard(segments[order[b(p)]])
    BY <1>5, <2>1 DEF RowsOfSegment
  <2> QED
    BY <1>4, <2>1, <2>2
<1>16. {Source(flat, z) : z \in Places(flat)} = UNION {{n} \X Heard(segments[n]) : n \in DOMAIN segments}
  <2>1. ASSUME NEW z \in Places(flat)
        PROVE  Source(flat, z) \in UNION {{n} \X Heard(segments[n]) : n \in DOMAIN segments}
    <3>0. PICK p \in 1 .. M : \E i \in DOMAIN flat[p].words : z = <<p, i>>
      BY <1>14
    <3>1. PICK i \in DOMAIN flat[p].words : z = <<p, i>>
      BY <3>0
    <3>2. Source(flat, z) = <<flat[p].segment, flat[p].words[i]>>
      BY <3>1 DEF Source
    <3> QED
      BY <1>1, <1>15, <3>2
  <2>2. ASSUME NEW n \in DOMAIN segments, NEW v \in Heard(segments[n])
        PROVE  \E z \in Places(flat) : Source(flat, z) = <<n, v>>
    <3>1. PICK k \in 1 .. N : order[k] = n
      BY <1>1, <1>2
    <3>2. PICK i \in DOMAIN seqs[k] : \E j \in DOMAIN seqs[k][i].words : seqs[k][i].words[j] = v
      BY <1>5, <3>1 DEF RowsOfSegment
    <3>3. PICK j \in DOMAIN seqs[k][i].words : seqs[k][i].words[j] = v
      BY <3>2
    <3>4. PICK p \in 1 .. M : b(p) = k /\ c(p) = i
      BY <1>10
    <3>5. flat[p] = seqs[k][i] /\ flat[p].segment = n
      BY <1>9, <3>1, <3>4
    <3>6. <<p, j>> \in Places(flat) /\ Source(flat, <<p, j>>) = <<n, v>>
      BY <1>14, <3>3, <3>5 DEF Source
    <3> QED
      BY <3>6
  <2> QED
    BY <2>1, <2>2
<1>17. \A y, z \in Places(flat) : Source(flat, y) = Source(flat, z) => y = z
  <2> SUFFICES ASSUME NEW y \in Places(flat), NEW z \in Places(flat), Source(flat, y) = Source(flat, z)
               PROVE  y = z
    OBVIOUS
  <2> PICK p \in 1 .. M : \E i \in DOMAIN flat[p].words : y = <<p, i>>
    BY <1>14
  <2>1. PICK i \in DOMAIN flat[p].words : y = <<p, i>>
    OBVIOUS
  <2> PICK q \in 1 .. M : \E j \in DOMAIN flat[q].words : z = <<q, j>>
    BY <1>14
  <2>2. PICK j \in DOMAIN flat[q].words : z = <<q, j>>
    OBVIOUS
  <2>3. flat[p].segment = flat[q].segment /\ flat[p].words[i] = flat[q].words[j]
    BY <2>1, <2>2 DEF Source
  <2>4. /\ b(p) = b(q) /\ b(p) \in 1 .. N /\ c(p) \in DOMAIN seqs[b(p)] /\ c(q) \in DOMAIN seqs[b(p)]
        /\ flat[p] = seqs[b(p)][c(p)] /\ flat[q] = seqs[b(p)][c(q)]
    BY <1>9, <1>13, <2>3, SMTT(30)
  <2>5. c(p) = c(q) /\ i = j
    BY <1>5, <2>3, <2>4, SMTT(30) DEF RowsOfSegment
  <2> QED
    BY <1>12, <2>1, <2>2, <2>4, <2>5
<1>18. ASSUME NEW n \in DOMAIN segments, Heard(segments[n]) = {}
       PROVE  LET of == {k \in DOMAIN flat : flat[k].segment = n}
              IN IF segments[n].spoken THEN \E k \in of : of = {k} ELSE of = {}
  <2> DEFINE of == {k \in DOMAIN flat : flat[k].segment = n}
  <2>1. PICK k \in 1 .. N : order[k] = n
    BY <1>1, <1>2
  <2>2. DOMAIN seqs[k] = IF segments[n].spoken THEN {1} ELSE {}
    BY <1>5, <1>18, <2>1 DEF RowsOfSegment
  <2>3. \A p \in of : p \in 1 .. M /\ b(p) = k /\ c(p) \in DOMAIN seqs[k]
    <3> SUFFICES ASSUME NEW p \in of PROVE p \in 1 .. M /\ b(p) = k /\ c(p) \in DOMAIN seqs[k]
      OBVIOUS
    <3>1. p \in 1 .. M /\ flat[p].segment = n
      BY <1>8
    <3>2. b(p) \in 1 .. N /\ c(p) \in DOMAIN seqs[b(p)] /\ order[b(p)] = order[k]
      BY <1>9, <2>1, <3>1
    <3>3. b(p) = k
      BY <1>2, <3>2
    <3> QED
      BY <3>1, <3>2, <3>3
  <2>4. \A p \in 1 .. M : b(p) = k => p \in of
    BY <1>8, <1>9, <2>1
  <2> HIDE DEF of
  <2>5. CASE segments[n].spoken
    <3>1. 1 \in DOMAIN seqs[k]
      BY <2>2, <2>5
    <3>2. PICK p \in 1 .. M : b(p) = k /\ c(p) = 1
      BY <1>10, <3>1
    <3>3. p \in of /\ \A q \in of : q = p
      BY <1>12, <2>2, <2>3, <2>4, <2>5, <3>2
    <3>4. of = {p}
      BY <3>3
    <3> QED
      BY <2>5, <3>3, <3>4 DEF of
  <2>6. CASE ~segments[n].spoken
    <3>1. of = {}
      BY <2>2, <2>3, <2>6
    <3> QED
      BY <2>6, <3>1 DEF of
  <2> QED
    BY <2>5, <2>6
<1>19. \A p \in DOMAIN flat : flat[p].words = <<>> => Heard(segments[flat[p].segment]) = {}
  <2> SUFFICES ASSUME NEW p \in 1 .. M, flat[p].words = <<>>
               PROVE  Heard(segments[flat[p].segment]) = {}
    BY <1>8
  <2>1. /\ b(p) \in 1 .. N /\ c(p) \in DOMAIN seqs[b(p)]
        /\ flat[p] = seqs[b(p)][c(p)] /\ flat[p].segment = order[b(p)]
    BY <1>9
  <2>2. Heard(segments[order[b(p)]]) = {}
    <3>1. seqs[b(p)][c(p)].words = <<>>
      BY <2>1
    <3>2. RowsOfSegment(seqs[b(p)], order[b(p)], segments[order[b(p)]], diarization)
      BY <1>5, <2>1
    <3> QED
      BY <2>1, <3>1, <3>2 DEF RowsOfSegment
  <2> QED
    BY <2>1, <2>2
<1>20. ASSUME NEW y \in Places(flat), NEW z \in Places(flat), Earlier(y, z),
              flat[z[1]].segment = flat[y[1]].segment
       PROVE  ~Before(segments[flat[y[1]].segment].words[Source(flat, z)[2]],
                      segments[flat[y[1]].segment].words[Source(flat, y)[2]])
  <2> PICK p \in 1 .. M : \E i \in DOMAIN flat[p].words : y = <<p, i>>
    BY <1>14
  <2>1. PICK i \in DOMAIN flat[p].words : y = <<p, i>>
    OBVIOUS
  <2> PICK q \in 1 .. M : \E j \in DOMAIN flat[q].words : z = <<q, j>>
    BY <1>14
  <2>2. PICK j \in DOMAIN flat[q].words : z = <<q, j>>
    OBVIOUS
  <2>3. /\ flat[p].segment = flat[q].segment /\ (p < q \/ (p = q /\ i < j))
        /\ Source(flat, y)[2] = flat[p].words[i] /\ Source(flat, z)[2] = flat[q].words[j]
    BY <1>20, <2>1, <2>2 DEF Source, Earlier
  <2>4. /\ b(p) = b(q) /\ b(p) \in 1 .. N /\ c(p) \in DOMAIN seqs[b(p)] /\ c(q) \in DOMAIN seqs[b(p)]
        /\ flat[p] = seqs[b(p)][c(p)] /\ flat[q] = seqs[b(p)][c(q)]
        /\ flat[p].segment = order[b(p)] /\ b(p) \in Int /\ b(q) \in Int
    BY <1>9, <1>13, <2>3
  <2>5. c(p) < c(q) \/ (c(p) = c(q) /\ i < j)
    BY <1>11, <2>3, <2>4, SMTT(30)
  <2>6. ~Before(segments[order[b(p)]].words[seqs[b(p)][c(q)].words[j]],
                segments[order[b(p)]].words[seqs[b(p)][c(p)].words[i]])
    <3>1. i \in DOMAIN seqs[b(p)][c(p)].words /\ j \in DOMAIN seqs[b(p)][c(q)].words
      BY <2>1, <2>2, <2>4
    <3> QED
      BY <1>5, <2>4, <2>5, <3>1 DEF RowsOfSegment
  <2> QED
    BY <2>1, <2>3, <2>4, <2>6
<1>21. ASSUME NEW p \in DOMAIN flat, NEW q \in DOMAIN flat, p < q
       PROVE  ~Before(segments[flat[q].segment], segments[flat[p].segment])
  <2>1. /\ b(p) \in 1 .. N /\ b(q) \in 1 .. N /\ flat[p].segment = order[b(p)]
        /\ flat[q].segment = order[b(q)]
    BY <1>8, <1>9
  <2>2. b(p) <= b(q)
    BY <1>8, <1>11, <1>21, <2>1
  <2> QED
    BY <1>2, <2>1, <2>2
<1>22. ASSUME NEW p \in DOMAIN flat
       PROVE  Placed(flat[p], segments[flat[p].segment], diarization)
  <2>1. /\ b(p) \in 1 .. N /\ c(p) \in DOMAIN seqs[b(p)]
        /\ flat[p] = seqs[b(p)][c(p)] /\ flat[p].segment = order[b(p)]
    BY <1>8, <1>9
  <2>2. Placed(seqs[b(p)][c(p)], segments[order[b(p)]], diarization)
    BY <1>5, <2>1 DEF RowsOfSegment
  <2> QED
    BY <2>1, <2>2
<1>23. Complete(flat, segments)
  BY <1>16, <1>17, <1>18, <1>19 DEF Complete
<1>24. InOrder(flat, segments)
  BY <1>20, <1>21 DEF InOrder
<1>25. Faithful(flat, segments, diarization)
  BY <1>22, <1>23, <1>24 DEF Faithful
<1> QED
  BY <1>25 DEF flat
--------------------------------------------------------------------------------
(* The sentences of a transcript. *)

\* Where a sentence starts, segment by segment: it goes on with the one before or is new, and all
\* segments from its start on have that start.
LEMMA StartsAre ==
  ASSUME NEW n \in Nat, NEW s, DOMAIN s = 1 .. n
  PROVE  /\ DOMAIN Starts(s) = 1 .. n
         /\ \A i \in 1 .. n :
              /\ Starts(s)[i] \in 1 .. i
              /\ \A k \in Starts(s)[i] .. i : Starts(s)[k] = Starts(s)[i]
              /\ i > 1 /\ Starts(s)[i] = Starts(s)[i - 1] => GoesOn(s, Starts(s)[i], i)
              /\ i > 1 /\ Starts(s)[i] # Starts(s)[i - 1] => /\ Starts(s)[i] = i
                                                             /\ ~GoesOn(s, Starts(s)[i - 1], i)
<1> DEFINE V == 1 .. n
           step == [i \in V |-> [b \in V |-> IF GoesOn(s, b, i) THEN b ELSE i]]
           Is(f) == f = [i \in DOMAIN s |-> IF i > 1 /\ GoesOn(s, f[i - 1], i) THEN f[i - 1] ELSE i]
           st == Starts(s)
<1>1. \E f : Is(f)
  <2>1. \A i \in V : \A b \in V : step[i][b] = IF GoesOn(s, b, i) THEN b ELSE i
    OBVIOUS
  <2>2. \A i \in V : \A b \in V : step[i][b] \in V
    BY <2>1
  <2>3. n > 0 => 1 \in V
    OBVIOUS
  <2> HIDE DEF step
  <2>4. PICK f : Recursive(f, n, 1, step) /\ f \in [1 .. n -> V]
    <3> HIDE DEF V
    <3> QED
      BY <2>2, <2>3, RecursionDefines DEF V
  <2>5. f = [i \in 1 .. n |-> IF i = 1 THEN 1 ELSE step[i][f[i - 1]]]
    BY <2>4 DEF Recursive
  <2>6. ASSUME NEW i \in 1 .. n
        PROVE  f[i] = IF i > 1 /\ GoesOn(s, f[i - 1], i) THEN f[i - 1] ELSE i
    <3>1. f[i] = IF i = 1 THEN 1 ELSE step[i][f[i - 1]]
      BY <2>5
    <3>2. CASE i = 1
      BY <3>1, <3>2
    <3>3. CASE i # 1
      <4>1. i - 1 \in 1 .. n /\ i > 1
        BY <3>3
      <4>2. f[i - 1] \in V
        BY <4>1, <2>4
      <4> QED
        BY <3>1, <3>3, <4>1, <4>2, <2>1
    <3> QED
      BY <3>2, <3>3
  <2>7. f = [i \in 1 .. n |-> f[i]]
    BY <2>4
  <2>8. Is(f)
    BY <2>6, <2>7
  <2> HIDE DEF Is
  <2> QED
    BY <2>8
<1>2. Is(st)
  <2>1. st = CHOOSE f : Is(f)
    BY DEF Starts
  <2> HIDE DEF Is, st
  <2> QED
    BY <1>1, <2>1
<1>3. /\ DOMAIN st = 1 .. n
      /\ \A i \in 1 .. n : st[i] = IF i > 1 /\ GoesOn(s, st[i - 1], i) THEN st[i - 1] ELSE i
  <2> HIDE DEF st
  <2> QED
    BY <1>2
<1> HIDE DEF Is, st, step, V
<1> DEFINE Q == {i \in 1 .. n : st[i] \in 1 .. i /\ \A k \in st[i] .. i : st[k] = st[i]}
<1>4. n > 0 => 1 \in Q
  <2> SUFFICES ASSUME n > 0 PROVE 1 \in Q
    OBVIOUS
  <2>1. st[1] = 1
    BY <1>3
  <2>2. \A k \in 1 .. 1 : k = 1
    OBVIOUS
  <2> QED
    BY <2>1, <2>2
<1>5. ASSUME NEW i \in 1 .. n, i > 1, i - 1 \in Q
      PROVE  i \in Q
  <2>1. /\ st[i - 1] \in 1 .. i - 1 /\ \A k \in st[i - 1] .. i - 1 : st[k] = st[i - 1]
        /\ (st[i] = st[i - 1] \/ st[i] = i)
    BY <1>3, <1>5
  <2>2. CASE st[i] = i
    <3>1. \A k \in i .. i : k = i
      OBVIOUS
    <3>2. i \in 1 .. i
      OBVIOUS
    <3> QED
      BY <2>2, <3>1, <3>2
  <2>3. CASE st[i] = st[i - 1]
    <3>1. \A k \in st[i] .. i : k = i \/ k \in st[i - 1] .. i - 1
      BY <2>1, <2>3
    <3>2. \A k \in st[i] .. i : st[k] = st[i]
      BY <3>1, <2>1, <2>3
    <3>3. st[i] \in 1 .. i
      BY <2>1, <2>3
    <3> QED
      BY <3>2, <3>3
  <2> QED
    BY <2>1, <2>2, <2>3
<1>6. \A i \in 1 .. n : i \in Q
  <2> HIDE DEF Q
  <2> QED
    BY <1>4, <1>5, PlaceByPlace
<1>7. ASSUME NEW i \in 1 .. n, i > 1
      PROVE  /\ st[i] = st[i - 1] => GoesOn(s, st[i], i)
             /\ st[i] # st[i - 1] => st[i] = i /\ ~GoesOn(s, st[i - 1], i)
  <2>1. i - 1 \in 1 .. n /\ st[i - 1] \in 1 .. i - 1
    BY <1>6, <1>7
  <2>2. st[i - 1] # i
    BY <2>1
  <2> QED
    BY <2>2, <1>3, <1>7
<1> QED
  BY <1>3, <1>6, <1>7 DEF st

\* group_sentences: every segment is in exactly one sentence; a sentence has one speaker, nothing
\* in it but its last segment ends with a terminator, and it has no more than MaxChars words unless
\* it is one segment; and it goes on for as long as these allow.
THEOREM SentencesTile ==
  ASSUME NEW n \in Nat, NEW s, DOMAIN s = 1 .. n
  PROVE  /\ \A k \in 1 .. n : \E p \in Sentences(s) :
              \A q \in Sentences(s) : q[1] <= k /\ k <= q[2] <=> q = p
         /\ \A p \in Sentences(s) :
              /\ \A k \in p[1] .. p[2] : /\ s[k].speaker = s[p[1]].speaker
                                         /\ k < p[2] => ~EndsSentence(s[k].text)
              /\ p[1] < p[2] => Len(TextOf(s, p)) <= MaxChars
              /\ p[2] < n => ~GoesOn(s, p[1], p[2] + 1)
<1> DEFINE st == Starts(s)
<1>1. \A i \in 1 .. n :
         /\ st[i] \in 1 .. i
         /\ \A k \in st[i] .. i : st[k] = st[i]
         /\ i > 1 /\ st[i] = st[i - 1] => GoesOn(s, st[i], i)
         /\ i > 1 /\ st[i] # st[i - 1] => st[i] = i /\ ~GoesOn(s, st[i - 1], i)
  BY StartsAre
<1>2. \A p : p \in Sentences(s) <=>
         /\ p \in (1 .. n) \X (1 .. n) /\ p[1] <= p[2]
         /\ \A k \in p[1] .. p[2] : st[k] = p[1]
         /\ p[2] + 1 \in 1 .. n => st[p[2] + 1] # p[1]
  BY DEF Sentences
<1> HIDE DEF st
<1>3. ASSUME NEW k \in 1 .. n
      PROVE  \E p \in Sentences(s) : \A q \in Sentences(s) : q[1] <= k /\ k <= q[2] <=> q = p
  <2> DEFINE S == {l \in 1 .. n : k <= l /\ \A m \in k .. l : st[m] = st[k]}
             e == Max(S)
             p == <<st[k], e>>
  <2>1. k \in S
    <3>1. \A m \in k .. k : m = k
      OBVIOUS
    <3> QED
      BY <3>1
  <2>2. e \in S /\ \A l \in S : l <= e
    <3>1. S \in SUBSET (1 .. n) /\ S # {}
      BY <2>1
    <3> HIDE DEF S
    <3> QED
      BY <3>1, LastExists
  <2>3. e \in 1 .. n /\ k <= e /\ \A m \in k .. e : st[m] = st[k]
    BY <2>2
  <2>4. e + 1 \in 1 .. n => st[e + 1] # st[k]
    <3> SUFFICES ASSUME e + 1 \in 1 .. n, st[e + 1] = st[k] PROVE FALSE
      OBVIOUS
    <3>1. \A m \in k .. e + 1 : m \in k .. e \/ m = e + 1
      BY <2>3
    <3>2. \A m \in k .. e + 1 : st[m] = st[k]
      BY <3>1, <2>3
    <3>3. k <= e + 1
      BY <2>3
    <3>4. e + 1 \in S
      BY <3>2, <3>3
    <3>5. e + 1 <= e
      BY <3>4, <2>2
    <3> QED
      BY <3>5, <2>3
  <2> HIDE DEF S, e
  <2>5. st[k] \in 1 .. k /\ \A m \in st[k] .. k : st[m] = st[k]
    BY <1>1
  <2>6. p[1] = st[k] /\ p[2] = e
    OBVIOUS
  <2>7. p \in Sentences(s)
    <3>1. \A m \in st[k] .. e : m \in st[k] .. k \/ m \in k .. e
      BY <2>3, <2>5
    <3>2. \A m \in st[k] .. e : st[m] = st[k]
      BY <3>1, <2>3, <2>5
    <3>3. p \in (1 .. n) \X (1 .. n) /\ st[k] <= e
      BY <2>3, <2>5
    <3> QED
      BY <3>2, <3>3, <2>4, <2>6, <1>2
  <2>8. ASSUME NEW q \in Sentences(s), q[1] <= k, k <= q[2]
        PROVE  q = p
    <3>1. /\ q \in (1 .. n) \X (1 .. n) /\ q[1] <= q[2]
          /\ \A m \in q[1] .. q[2] : st[m] = q[1]
          /\ q[2] + 1 \in 1 .. n => st[q[2] + 1] # q[1]
      BY <1>2
    <3>2. q[1] \in 1 .. n /\ q[2] \in 1 .. n /\ q = <<q[1], q[2]>>
      BY <3>1
    <3>3. k \in q[1] .. q[2]
      BY <2>8, <3>2
    <3>4. q[1] = st[k]
      BY <3>1, <3>3
    <3>5. ~(q[2] < e)
      <4> SUFFICES ASSUME q[2] < e PROVE FALSE
        OBVIOUS
      <4>1. q[2] + 1 \in 1 .. n /\ q[2] + 1 \in k .. e
        BY <2>3, <2>8, <3>2
      <4> QED
        BY <4>1, <2>3, <3>1, <3>4
    <3>6. ~(e < q[2])
      <4> SUFFICES ASSUME e < q[2] PROVE FALSE
        OBVIOUS
      <4>1. e + 1 \in 1 .. n /\ e + 1 \in q[1] .. q[2]
        BY <2>3, <2>8, <3>2
      <4> QED
        BY <4>1, <2>4, <3>1, <3>4
    <3>7. q[2] = e
      BY <3>2, <3>5, <3>6, <2>3
    <3> QED
      BY <3>2, <3>4, <3>7
  <2>9. p[1] <= k /\ k <= p[2]
    BY <2>3, <2>5
  <2> HIDE DEF p
  <2> QED
    BY <2>7, <2>8, <2>9
<1>4. ASSUME NEW p \in Sentences(s)
      PROVE  /\ \A k \in p[1] .. p[2] : /\ s[k].speaker = s[p[1]].speaker
                                        /\ k < p[2] => ~EndsSentence(s[k].text)
             /\ p[1] < p[2] => Len(TextOf(s, p)) <= MaxChars
             /\ p[2] < n => ~GoesOn(s, p[1], p[2] + 1)
  <2>1. /\ p[1] \in 1 .. n /\ p[2] \in 1 .. n /\ p[1] <= p[2]
        /\ \A k \in p[1] .. p[2] : st[k] = p[1]
        /\ p[2] + 1 \in 1 .. n => st[p[2] + 1] # p[1]
    BY <1>2
  <2>2. ASSUME NEW k \in p[1] .. p[2], p[1] < k
        PROVE  GoesOn(s, p[1], k)
    <3>1. k \in 1 .. n /\ k > 1 /\ k - 1 \in p[1] .. p[2]
      BY <2>1, <2>2
    <3>2. st[k] = p[1] /\ st[k - 1] = p[1]
      BY <2>1, <3>1
    <3> QED
      BY <1>1, <3>1, <3>2
  <2>3. \A k \in p[1] .. p[2] : s[k].speaker = s[p[1]].speaker
    <3>1. \A k \in p[1] .. p[2] : k = p[1] \/ p[1] < k
      BY <2>1
    <3> QED
      BY <3>1, <2>2 DEF GoesOn
  <2>4. ASSUME NEW k \in p[1] .. p[2], k < p[2]
        PROVE  ~EndsSentence(s[k].text)
    <3>1. k + 1 \in p[1] .. p[2] /\ p[1] < k + 1 /\ (k + 1) - 1 = k
      BY <2>1, <2>4
    <3> QED
      BY <3>1, <2>2 DEF GoesOn
  <2>5. p[1] < p[2] => Len(TextOf(s, p)) <= MaxChars
    <3>1. p[2] \in p[1] .. p[2]
      BY <2>1
    <3> QED
      BY <3>1, <2>2 DEF GoesOn, TextOf
  <2>6. p[2] < n => ~GoesOn(s, p[1], p[2] + 1)
    <3> SUFFICES ASSUME p[2] < n PROVE ~GoesOn(s, p[1], p[2] + 1)
      OBVIOUS
    <3> DEFINE j == p[2] + 1
    <3>1. j \in 1 .. n /\ j > 1 /\ j - 1 = p[2] /\ p[2] \in p[1] .. p[2]
      BY <2>1
    <3>2. st[p[2]] = p[1] /\ st[j] # p[1]
      BY <2>1, <3>1
    <3> HIDE DEF j
    <3>3. ~GoesOn(s, st[j - 1], j)
      BY <1>1, <3>1, <3>2
    <3>4. ~GoesOn(s, p[1], j)
      BY <3>1, <3>2, <3>3
    <3> QED
      BY <3>4 DEF j
  <2> QED
    BY <2>3, <2>4, <2>5, <2>6
<1> QED
  BY <1>3, <1>4
================================================================================
