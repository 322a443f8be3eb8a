----------------------------- MODULE RenderingsProofs -----------------------------
(***************************************************************************)
(* Theorems about Renderings for every set of segments, every bound and     *)
(* every window, proved with TLAPS.                                         *)
(***************************************************************************)
EXTENDS Renderings, TLAPS

\* A translation job has read the transcript that is still there: the edits are refused
\* while it is active, and it is the only job.
ReadIsCurrent == job.kind = "translation" => job.read = transcript

\* The inductive invariant.
IInv == TypeOK /\ OneRowPerStart /\ FreshCoversItsWords /\ ReadIsCurrent
--------------------------------------------------------------------------------
(* Sentences and places. *)

LEMMA SentenceSpan ==
  ASSUME NEW s, NEW p \in Sentences(s)
  PROVE  /\ p[1] \in DOMAIN s /\ p[2] \in DOMAIN s /\ p[1] <= p[2]
         /\ p = <<p[1], p[2]>>
BY DEF Sentences

\* Two sentences do not start at the same segment.
LEMMA OneSentencePerStart ==
  ASSUME NEW n \in Nat, NEW s, DOMAIN s = 1 .. n,
         NEW p \in Sentences(s), NEW q \in Sentences(s), p[1] = q[1]
  PROVE  p = q
<1> DEFINE start == Starts(s)
<1>1. /\ p[1] \in 1 .. n /\ p[2] \in 1 .. n /\ q[2] \in 1 .. n
      /\ p = <<p[1], p[2]>> /\ q = <<q[1], q[2]>>
  BY SentenceSpan
<1>2. /\ \A k \in p[1] .. p[2] : start[k] = p[1]
      /\ p[2] + 1 \in DOMAIN s => start[p[2] + 1] # p[1]
  BY DEF Sentences
<1>3. /\ \A k \in q[1] .. q[2] : start[k] = q[1]
      /\ q[2] + 1 \in DOMAIN s => start[q[2] + 1] # q[1]
  BY DEF Sentences
<1>4. p[1] <= p[2] /\ q[1] <= q[2]
  BY SentenceSpan
<1> HIDE DEF start
<1>5. ~(p[2] < q[2])
  BY <1>1, <1>2, <1>3, <1>4
<1>6. ~(q[2] < p[2])
  BY <1>1, <1>2, <1>3, <1>4
<1>7. p[2] = q[2]
  BY <1>1, <1>5, <1>6
<1> QED BY <1>1, <1>7

LEMMA NearSymmetric == ASSUME NEW t, NEW u PROVE Near(t, u) <=> Near(u, t)
BY DEF Near

\* What a transcript is.
LEMMA TranscriptShape ==
  ASSUME NEW s \in Transcripts
  PROVE  \E n \in 0 .. MaxSegments : DOMAIN s = 1 .. n /\ s \in [1 .. n -> Segments]
BY DEF Transcripts

\* The id at a place is found there.
LEMMA PlaceOfId ==
  ASSUME \A k, l \in DOMAIN ids : ids[k] = ids[l] => k = l, NEW k \in DOMAIN ids
  PROVE  PlaceOf(ids[k]) = k
BY DEF PlaceOf

LEMMA SentenceText ==
  ASSUME NEW s \in Transcripts, NEW p \in Sentences(s)
  PROVE  TextOf(s, p) \in Texts
BY SentenceSpan DEF Texts, TextOf

LEMMA IdsAreNotNone == ASSUME NEW id \in SegmentIds PROVE id # None
BY RenderingsAssumption
--------------------------------------------------------------------------------
LEMMA Initially == Init => IInv
<1> SUFFICES ASSUME Init PROVE IInv
  OBVIOUS
<1>1. 0 \in 0 .. MaxSegments /\ <<>> \in [1 .. 0 -> Segments]
  BY RenderingsAssumption
<1>2. <<>> \in Transcripts
  BY <1>1 DEF Transcripts
<1>3. TypeOK
  BY <1>2 DEF TypeOK, Init, NoJob
<1> QED BY <1>3 DEF IInv, OneRowPerStart, FreshCoversItsWords, ReadIsCurrent, Init, NoJob

LEMMA NothingMoves ==
  ASSUME IInv, UNCHANGED <<transcript, ids, rows>>
  PROVE  OneRowPerStart' /\ FreshCoversItsWords'
BY DEF IInv, OneRowPerStart, FreshCoversItsWords, HasSpan, SpanText, PlaceOf, Ids, Attached

LEMMA StartKeeps ==
  ASSUME IInv, NEW kind \in {"full", "translation"}, Start(kind) PROVE IInv'
<1>1. <<>> \in Transcripts
  <2>1. 0 \in 0 .. MaxSegments /\ <<>> \in [1 .. 0 -> Segments]
    BY RenderingsAssumption
  <2> QED BY <2>1 DEF Transcripts
<1>2. TypeOK'
  BY <1>1 DEF IInv, TypeOK, Start
<1>3. ReadIsCurrent'
  BY DEF Start, ReadIsCurrent
<1> QED BY <1>2, <1>3, NothingMoves DEF IInv, Start

LEMMA FailKeeps ==
  ASSUME IInv, Fail PROVE IInv'
<1>1. <<>> \in Transcripts
  <2>1. 0 \in 0 .. MaxSegments /\ <<>> \in [1 .. 0 -> Segments]
    BY RenderingsAssumption
  <2> QED BY <2>1 DEF Transcripts
<1>2. TypeOK'
  BY <1>1 DEF IInv, TypeOK, Fail, NoJob
<1>3. ReadIsCurrent'
  BY DEF Fail, NoJob, ReadIsCurrent
<1> QED BY <1>2, <1>3, NothingMoves DEF IInv, Fail
--------------------------------------------------------------------------------
(* The carry. *)

\* A carried rendering is the same writing, on a sentence of its words or detached.
LEMMA CarriedRow ==
  ASSUME IInv, NEW new \in Transcripts, NEW i \in Manual
  PROVE  /\ Carried(new, i) \in Rows
         /\ Carried(new, i).text = rows[i].text /\ Carried(new, i).manual
         /\ Carried(new, i).source_ja = rows[i].source_ja
         /\ \/ /\ Carried(new, i).first = None /\ Carried(new, i).stale
            \/ \E p \in Sentences(new) :
                 /\ Matches(new, i, p)
                 /\ Carried(new, i).first = p[1] /\ Carried(new, i).last = p[2]
<1>1. rows[i] \in Rows /\ rows[i].manual
  BY DEF IInv, TypeOK, Manual
<1>2. CASE \E p \in Sentences(new) : Matches(new, i, p)
  <2> DEFINE p == CHOOSE q \in Sentences(new) : Matches(new, i, q)
  <2>1. p \in Sentences(new) /\ Matches(new, i, p)
    BY <1>2
  <2>2. Carried(new, i) = [rows[i] EXCEPT !.first = p[1], !.last = p[2], !.stale = FALSE]
    BY <1>2 DEF Carried
  <2> HIDE DEF p
  <2>3. p[1] \in Places /\ p[2] \in Places
    BY <2>1, SentenceSpan, TranscriptShape, RenderingsAssumption DEF Places, SegmentIds
  <2>4. /\ Carried(new, i).first = p[1] /\ Carried(new, i).last = p[2]
        /\ Carried(new, i).text = rows[i].text /\ Carried(new, i).manual
        /\ Carried(new, i).source_ja = rows[i].source_ja
    BY <1>1, <2>2 DEF Rows
  <2>5. Carried(new, i) \in Rows
    BY <1>1, <2>2, <2>3 DEF Rows
  <2> QED BY <2>1, <2>4, <2>5
<1>3. CASE ~\E p \in Sentences(new) : Matches(new, i, p)
  <2>1. Carried(new, i) = [rows[i] EXCEPT !.first = None, !.last = None, !.stale = TRUE]
    BY <1>3 DEF Carried
  <2> QED BY <1>1, <2>1 DEF Rows, Places
<1> QED BY <1>2, <1>3

\* A sentence is claimed by one rendering.
LEMMA OneClaim ==
  ASSUME NEW new, NEW i \in Manual, NEW j \in Manual, NEW p \in Sentences(new),
         Matches(new, i, p), Matches(new, j, p)
  PROVE  i = j
<1>1. p \in Candidates(new, i) /\ p \in Candidates(new, j) /\ HasMoment(j)
  BY DEF Matches
<1>2. rows[j].source_ja = rows[i].source_ja /\ Near(TimeOf(new, p), MomentOf(j))
  BY <1>1 DEF Candidates
<1>3. j \in Claims(new, p, i)
  BY <1>1, <1>2, NearSymmetric DEF Claims
<1> QED BY <1>3 DEF Matches

LEMMA PersistTranscriptKeeps ==
  ASSUME IInv, NEW new \in Transcripts, PersistTranscript(new) PROVE IInv'
<1>1. PICK n \in Nat : DOMAIN new = 1 .. n /\ n <= MaxSegments
  BY TranscriptShape, RenderingsAssumption
<1>2. transcript' = new /\ ids' = [k \in 1 .. n |-> k] /\ DOMAIN ids' = 1 .. n
  BY <1>1 DEF PersistTranscript
<1>3. DOMAIN rows' = Manual /\ \A i \in Manual : rows'[i] = Carried(new, i)
  BY DEF PersistTranscript
<1>4. \A p \in Sentences(new) :
        /\ p[1] \in 1 .. n /\ p[2] \in 1 .. n /\ p[1] <= p[2]
        /\ PlaceOf(p[1])' = p[1] /\ PlaceOf(p[2])' = p[2]
  <2> SUFFICES ASSUME NEW p \in Sentences(new)
               PROVE  /\ p[1] \in 1 .. n /\ p[2] \in 1 .. n /\ p[1] <= p[2]
                      /\ PlaceOf(p[1])' = p[1] /\ PlaceOf(p[2])' = p[2]
    OBVIOUS
  <2>1. p[1] \in 1 .. n /\ p[2] \in 1 .. n /\ p[1] <= p[2]
    BY <1>1, SentenceSpan
  <2>2. \A k \in 1 .. n : (CHOOSE l \in DOMAIN ids' : ids'[l] = k) = k
    BY <1>2
  <2> QED BY <2>1, <2>2 DEF PlaceOf
<1>5. TypeOK'
  <2>1. ids' \in [DOMAIN transcript' -> SegmentIds]
    BY <1>1, <1>2, RenderingsAssumption DEF SegmentIds
  <2>2. \A k, l \in DOMAIN ids' : ids'[k] = ids'[l] => k = l
    BY <1>2
  <2>3. DOMAIN rows' \subseteq RowIds /\ \A i \in DOMAIN rows' : rows'[i] \in Rows
    BY <1>3, CarriedRow DEF IInv, TypeOK, Manual
  <2>4. job' \in [kind : {"none", "full", "translation"}, read : Transcripts]
    <3>1. 0 \in 0 .. MaxSegments /\ <<>> \in [1 .. 0 -> Segments]
      BY RenderingsAssumption
    <3>2. <<>> \in Transcripts
      BY <3>1 DEF Transcripts
    <3> QED BY <3>2 DEF PersistTranscript, NoJob
  <2> QED BY <1>2, <2>1, <2>2, <2>3, <2>4 DEF TypeOK
<1>6. OneRowPerStart'
  <2>1. ASSUME NEW i \in Manual, Attached(rows'[i])
        PROVE  \E p \in Sentences(new) :
                 Matches(new, i, p) /\ rows'[i].first = p[1] /\ rows'[i].last = p[2]
    BY <2>1, <1>3, CarriedRow DEF Attached
  <2>2. ASSUME NEW i \in Manual, NEW j \in Manual, Attached(rows'[i]),
               rows'[i].first = rows'[j].first
        PROVE  i = j
    <3>1. PICK p \in Sentences(new) : Matches(new, i, p) /\ rows'[i].first = p[1]
      BY <2>1, <2>2
    <3>2. Attached(rows'[j])
      BY <2>2 DEF Attached
    <3>3. PICK q \in Sentences(new) : Matches(new, j, q) /\ rows'[j].first = q[1]
      BY <2>1, <3>2
    <3>4. p = q
      BY <1>1, <2>2, <3>1, <3>3, OneSentencePerStart
    <3> QED BY <3>1, <3>3, <3>4, OneClaim
  <2>3. ASSUME NEW i \in Manual, Attached(rows'[i])
        PROVE  rows'[i].first \in Ids' /\ rows'[i].last \in Ids'
    <3>1. PICK p \in Sentences(new) : rows'[i].first = p[1] /\ rows'[i].last = p[2]
      BY <2>1, <2>3
    <3>2. Ids' = 1 .. n
      BY <1>2 DEF Ids
    <3> QED BY <3>1, <3>2, <1>4
  <2>4. \A i, j \in DOMAIN rows' :
          (Attached(rows'[i]) /\ rows'[i].first = rows'[j].first) => i = j
    BY <1>3, <2>2
  <2>5. \A i \in DOMAIN rows' : Attached(rows'[i]) =>
          (rows'[i].first \in Ids' /\ rows'[i].last \in Ids')
    BY <1>3, <2>3
  <2> QED BY <2>4, <2>5 DEF OneRowPerStart, Attached
<1>7. FreshCoversItsWords'
  <2> SUFFICES ASSUME NEW i \in Manual, ~rows'[i].stale
               PROVE  HasSpan(rows[i])' /\ SpanText(rows[i])' = rows'[i].source_ja
    BY <1>3 DEF FreshCoversItsWords
  <2>1. PICK p \in Sentences(new) :
          Matches(new, i, p) /\ rows'[i].first = p[1] /\ rows'[i].last = p[2]
    BY <1>3, CarriedRow
  <2>2. rows'[i].source_ja = rows[i].source_ja /\ rows[i].source_ja = TextOf(new, p)
    BY <2>1, <1>3, CarriedRow DEF Matches, Candidates
  <2>3. p[1] \in SegmentIds
    BY <1>1, <1>4, RenderingsAssumption DEF SegmentIds
  <2>4. rows'[i].first # None
    BY <2>1, <2>3, IdsAreNotNone
  <2>5. PlaceOf(rows[i].first)' = p[1] /\ PlaceOf(rows[i].last)' = p[2] /\ p[1] <= p[2]
    BY <2>1, <1>4 DEF PlaceOf
  <2>6. HasSpan(rows[i])'
    BY <2>4, <2>5 DEF HasSpan, Attached
  <2>7. SpanText(rows[i])' = TextOf(new, p)
    BY <1>2, <2>5 DEF SpanText, TextOf
  <2> QED BY <2>2, <2>6, <2>7
<1>8. ReadIsCurrent'
  BY DEF PersistTranscript, NoJob, ReadIsCurrent
<1> QED BY <1>5, <1>6, <1>7, <1>8 DEF IInv
--------------------------------------------------------------------------------
(* The translation. *)

\* What a translation makes of each row.
LEMMA TranslatedRow ==
  ASSUME IInv, PersistTranslation, NEW i \in DOMAIN rows'
  PROVE  \/ /\ i \in DOMAIN rows /\ rows'[i] = rows[i]
         \/ \E p \in Sentences(transcript) :
              /\ rows'[i] = Rendered(p)
              /\ i \in DOMAIN rows => (~rows[i].manual /\ RowAt(i, p))
              /\ i \notin DOMAIN rows =>
                   ~\E j \in DOMAIN rows : RowAt(j, p)
<1>1. Results \subseteq Sentences(transcript)
  BY DEF Results, PersistTranslation, IInv, ReadIsCurrent
<1>2. PICK key \in [Unrendered -> RowIds \ DOMAIN rows] :
        rows' = [k \in DOMAIN rows \cup {key[p] : p \in Unrendered} |->
            IF k \notin DOMAIN rows THEN Rendered(CHOOSE p \in Unrendered : key[p] = k)
            ELSE IF ~rows[k].manual /\ \E p \in Results : RowAt(k, p)
            THEN Rendered(CHOOSE p \in Results : RowAt(k, p))
            ELSE rows[k]]
  BY DEF PersistTranslation
<1>3. CASE i \notin DOMAIN rows
  <2> DEFINE p == CHOOSE q \in Unrendered : key[q] = i
  <2>1. p \in Unrendered
    BY <1>2, <1>3
  <2>2. rows'[i] = Rendered(p)
    BY <1>2, <1>3
  <2> HIDE DEF p
  <2> QED BY <1>1, <1>3, <2>1, <2>2 DEF Unrendered
<1>4. CASE i \in DOMAIN rows /\ ~rows[i].manual /\ \E p \in Results : RowAt(i, p)
  <2> DEFINE p == CHOOSE q \in Results : RowAt(i, q)
  <2>1. p \in Results /\ RowAt(i, p)
    BY <1>4
  <2>2. rows'[i] = Rendered(p)
    BY <1>2, <1>4
  <2> HIDE DEF p
  <2> QED BY <1>1, <1>4, <2>1, <2>2
<1>5. CASE i \in DOMAIN rows /\ ~(~rows[i].manual /\ \E p \in Results : RowAt(i, p))
  BY <1>2, <1>5
<1> QED BY <1>3, <1>4, <1>5

\* No two new rows are of one sentence.
LEMMA NewRowsDiffer ==
  ASSUME IInv, PersistTranslation, NEW i \in DOMAIN rows' \ DOMAIN rows,
         NEW j \in DOMAIN rows' \ DOMAIN rows, rows'[i].first = rows'[j].first
  PROVE  i = j
<1>1. PICK key \in [Unrendered -> RowIds \ DOMAIN rows] :
        rows' = [k \in DOMAIN rows \cup {key[p] : p \in Unrendered} |->
            IF k \notin DOMAIN rows THEN Rendered(CHOOSE p \in Unrendered : key[p] = k)
            ELSE IF ~rows[k].manual /\ \E p \in Results : RowAt(k, p)
            THEN Rendered(CHOOSE p \in Results : RowAt(k, p))
            ELSE rows[k]]
  BY DEF PersistTranslation
<1> DEFINE p == CHOOSE r \in Unrendered : key[r] = i
           q == CHOOSE r \in Unrendered : key[r] = j
<1>2. p \in Unrendered /\ key[p] = i /\ q \in Unrendered /\ key[q] = j
  BY <1>1
<1>3. rows'[i] = Rendered(p) /\ rows'[j] = Rendered(q)
  BY <1>1
<1> HIDE DEF p, q
<1>4. p \in Sentences(transcript) /\ q \in Sentences(transcript)
  BY <1>2 DEF Unrendered, Results, PersistTranslation, IInv, ReadIsCurrent
<1>5. PICK n \in Nat : DOMAIN transcript = 1 .. n
  BY TranscriptShape, RenderingsAssumption DEF IInv, TypeOK
<1>6. ids[p[1]] = ids[q[1]]
  BY <1>3 DEF Rendered
<1>7. p[1] = q[1]
  BY <1>4, <1>6, SentenceSpan DEF IInv, TypeOK
<1>8. p = q
  BY <1>4, <1>5, <1>7, OneSentencePerStart
<1> QED BY <1>2, <1>8

LEMMA RenderedRow ==
  ASSUME IInv, PersistTranslation, NEW p \in Sentences(transcript)
  PROVE  /\ Rendered(p) \in Rows
         /\ Rendered(p).first = ids[p[1]] /\ Rendered(p).last = ids[p[2]]
         /\ Rendered(p).source_ja = TextOf(transcript, p)
         /\ ids[p[1]] \in Ids /\ ids[p[2]] \in Ids /\ ids[p[1]] # None
         /\ PlaceOf(ids[p[1]]) = p[1] /\ PlaceOf(ids[p[2]]) = p[2] /\ p[1] <= p[2]
<1>1. job.read = transcript /\ transcript \in Transcripts
  BY DEF PersistTranslation, IInv, ReadIsCurrent, TypeOK
<1>2. p[1] \in DOMAIN ids /\ p[2] \in DOMAIN ids /\ p[1] <= p[2]
  BY SentenceSpan DEF IInv, TypeOK
<1>3. ids[p[1]] \in SegmentIds /\ ids[p[2]] \in SegmentIds
  BY <1>2 DEF IInv, TypeOK
<1>4. ids[p[1]] # None
  BY <1>3, IdsAreNotNone
<1>5. PlaceOf(ids[p[1]]) = p[1] /\ PlaceOf(ids[p[2]]) = p[2]
  BY <1>2, PlaceOfId DEF IInv, TypeOK
<1>6. TextOf(transcript, p) \in Texts
  BY <1>1, SentenceText
<1>7. Rendered(p) \in Rows
  BY <1>1, <1>3, <1>6 DEF Rendered, Rows, Places
<1> QED BY <1>1, <1>2, <1>4, <1>5, <1>7 DEF Rendered, Ids

LEMMA PersistTranslationKeeps ==
  ASSUME IInv, PersistTranslation PROVE IInv'
<1>1. transcript' = transcript /\ ids' = ids /\ job' = NoJob
  BY DEF PersistTranslation
<1>2. \A i \in DOMAIN rows : i \in DOMAIN rows'
  BY DEF PersistTranslation
<1>3. TypeOK'
  <2>1. DOMAIN rows' \subseteq RowIds
    <3>1. PICK key \in [Unrendered -> RowIds \ DOMAIN rows] :
            DOMAIN rows' = DOMAIN rows \cup {key[p] : p \in Unrendered}
      BY DEF PersistTranslation
    <3> QED BY <3>1 DEF IInv, TypeOK
  <2>2. \A i \in DOMAIN rows' : rows'[i] \in Rows
    BY TranslatedRow, RenderedRow DEF IInv, TypeOK
  <2>3. job' \in [kind : {"none", "full", "translation"}, read : Transcripts]
    <3>1. 0 \in 0 .. MaxSegments /\ <<>> \in [1 .. 0 -> Segments]
      BY RenderingsAssumption
    <3>2. <<>> \in Transcripts
      BY <3>1 DEF Transcripts
    <3> QED BY <3>2, <1>1 DEF NoJob
  <2> QED BY <1>1, <2>1, <2>2, <2>3 DEF IInv, TypeOK
<1>4. ASSUME NEW i \in DOMAIN rows', Attached(rows'[i])
      PROVE  rows'[i].first \in Ids /\ rows'[i].last \in Ids
  BY <1>4, TranslatedRow, RenderedRow DEF IInv, OneRowPerStart
<1>5. ASSUME NEW i \in DOMAIN rows
      PROVE  rows'[i].first = rows[i].first
  <2>1. CASE rows'[i] = rows[i]
    BY <2>1
  <2>2. CASE \E p \in Sentences(transcript) : rows'[i] = Rendered(p) /\ RowAt(i, p)
    BY <2>2, RenderedRow DEF RowAt
  <2> QED BY <1>2, <2>1, <2>2, TranslatedRow
<1>6. ASSUME NEW i \in DOMAIN rows' \ DOMAIN rows, NEW j \in DOMAIN rows
      PROVE  rows'[i].first # rows'[j].first
  <2>1. PICK p \in Sentences(transcript) :
          rows'[i] = Rendered(p) /\ ~\E k \in DOMAIN rows : RowAt(k, p)
    BY <1>6, TranslatedRow
  <2>2. rows'[i].first = ids[p[1]] /\ ids[p[1]] # None
    BY <2>1, RenderedRow
  <2>3. rows'[j].first = rows[j].first
    BY <1>5
  <2> QED BY <2>1, <2>2, <2>3 DEF RowAt, Attached
<1>7. OneRowPerStart'
  <2>1. ASSUME NEW i \in DOMAIN rows', NEW j \in DOMAIN rows', Attached(rows'[i]),
               rows'[i].first = rows'[j].first
        PROVE  i = j
    <3>1. CASE i \in DOMAIN rows /\ j \in DOMAIN rows
      <4>1. rows[i].first = rows[j].first /\ Attached(rows[i])
        BY <2>1, <3>1, <1>5 DEF Attached
      <4> QED BY <3>1, <4>1 DEF IInv, OneRowPerStart
    <3>2. CASE i \notin DOMAIN rows /\ j \notin DOMAIN rows
      BY <2>1, <3>2, NewRowsDiffer
    <3>3. CASE i \notin DOMAIN rows /\ j \in DOMAIN rows
      BY <2>1, <3>3, <1>6
    <3>4. CASE i \in DOMAIN rows /\ j \notin DOMAIN rows
      BY <2>1, <3>4, <1>6
    <3> QED BY <3>1, <3>2, <3>3, <3>4
  <2>2. Ids' = Ids
    BY <1>1 DEF Ids
  <2>3. \A i, j \in DOMAIN rows' :
          (Attached(rows'[i]) /\ rows'[i].first = rows'[j].first) => i = j
    BY <2>1
  <2>4. \A i \in DOMAIN rows' : Attached(rows'[i]) =>
          (rows'[i].first \in Ids' /\ rows'[i].last \in Ids')
    BY <2>2, <1>4
  <2> QED BY <2>3, <2>4 DEF OneRowPerStart, Attached
<1>8. FreshCoversItsWords'
  <2> SUFFICES ASSUME NEW i \in DOMAIN rows', ~rows'[i].stale
               PROVE  HasSpan(rows[i])' /\ SpanText(rows[i])' = rows'[i].source_ja
    BY DEF FreshCoversItsWords
  <2>1. CASE i \in DOMAIN rows /\ rows'[i] = rows[i]
    BY <1>1, <2>1 DEF IInv, FreshCoversItsWords, HasSpan, SpanText, PlaceOf, Attached
  <2>2. ASSUME NEW p \in Sentences(transcript), rows'[i] = Rendered(p)
        PROVE  HasSpan(rows[i])' /\ SpanText(rows[i])' = rows'[i].source_ja
    <3>1. PlaceOf(rows[i].first)' = p[1] /\ PlaceOf(rows[i].last)' = p[2]
      BY <1>1, <2>2, RenderedRow DEF PlaceOf
    <3>2. rows'[i].first # None /\ p[1] <= p[2] /\ rows'[i].source_ja = TextOf(transcript, p)
      BY <2>2, RenderedRow
    <3> QED BY <1>1, <3>1, <3>2 DEF HasSpan, SpanText, TextOf, Attached
  <2> QED BY <2>1, <2>2, TranslatedRow
<1>9. ReadIsCurrent'
  BY <1>1 DEF NoJob, ReadIsCurrent
<1> QED BY <1>3, <1>7, <1>8, <1>9 DEF IInv
--------------------------------------------------------------------------------
(* The edits. *)

LEMMA EditTranscriptKeeps ==
  ASSUME IInv, NEW said \in [Ids -> Segments], NEW order \in [DOMAIN ids -> Ids],
         EditTranscript(said, order)
  PROVE  IInv'
<1>1. /\ ids' = order /\ transcript' = [k \in DOMAIN order |-> said[order[k]]]
      /\ rows' = [i \in DOMAIN rows |-> [rows[i] EXCEPT !.stale = TRUE]]
      /\ job' = job /\ job.kind = "none"
  BY DEF EditTranscript
<1>2. PICK n \in 0 .. MaxSegments : DOMAIN transcript = 1 .. n
  BY TranscriptShape DEF IInv, TypeOK
<1>3. DOMAIN ids = 1 .. n /\ DOMAIN order = 1 .. n
  BY <1>2 DEF IInv, TypeOK
<1>4. Ids' = Ids /\ Ids \subseteq SegmentIds
  <2>1. Ids = {order[k] : k \in DOMAIN order}
    BY DEF EditTranscript
  <2>2. Ids' = {order[k] : k \in DOMAIN order}
    BY <1>1 DEF Ids
  <2>3. ids \in [DOMAIN transcript -> SegmentIds]
    BY DEF IInv, TypeOK
  <2> QED BY <2>1, <2>2, <2>3 DEF Ids
<1>5. ASSUME NEW i \in DOMAIN rows
      PROVE  /\ rows'[i] \in Rows /\ rows'[i].stale
             /\ rows'[i].first = rows[i].first /\ rows'[i].last = rows[i].last
  <2>1. rows[i] \in Rows
    BY DEF IInv, TypeOK
  <2>2. rows'[i] = [rows[i] EXCEPT !.stale = TRUE]
    BY <1>1
  <2> QED BY <2>1, <2>2 DEF Rows
<1>6. TypeOK'
  <2>1. transcript' \in [1 .. n -> Segments]
    BY <1>1, <1>3
  <2>2. transcript' \in Transcripts
    BY <2>1 DEF Transcripts
  <2>3. ids' \in [DOMAIN transcript' -> SegmentIds]
    BY <1>1, <1>3, <1>4
  <2>4. \A k, l \in DOMAIN ids' : ids'[k] = ids'[l] => k = l
    BY <1>1 DEF EditTranscript
  <2>5. DOMAIN rows' \subseteq RowIds /\ \A i \in DOMAIN rows' : rows'[i] \in Rows
    BY <1>1, <1>5 DEF IInv, TypeOK
  <2>6. job' \in [kind : {"none", "full", "translation"}, read : Transcripts]
    BY <1>1 DEF IInv, TypeOK
  <2> QED BY <2>2, <2>3, <2>4, <2>5, <2>6 DEF TypeOK
<1>7. DOMAIN rows' = DOMAIN rows
  BY <1>1
<1>8. OneRowPerStart'
  BY <1>4, <1>5, <1>7 DEF IInv, OneRowPerStart, Attached
<1>9. FreshCoversItsWords'
  BY <1>5, <1>7 DEF FreshCoversItsWords
<1>10. ReadIsCurrent'
  BY <1>1 DEF ReadIsCurrent
<1> QED BY <1>6, <1>8, <1>9, <1>10 DEF IInv

LEMMA EditRenderingsKeeps ==
  ASSUME IInv, NEW some \in SUBSET DOMAIN rows, NEW written \in [some -> Writings],
         EditRenderings(written)
  PROVE  IInv'
<1>1. transcript' = transcript /\ ids' = ids /\ job' = job /\ DOMAIN rows' = DOMAIN rows
  BY DEF EditRenderings
<1>2. \A i \in DOMAIN rows : rows[i] \in Rows
  BY DEF IInv, TypeOK
<1>3. \A i \in DOMAIN rows \ some : rows'[i] = rows[i]
  BY DEF EditRenderings
<1>4. ASSUME NEW i \in some
      PROVE  /\ rows'[i] = [rows[i] EXCEPT !.text = written[i], !.source_ja = SpanText(rows[i]),
                                          !.manual = TRUE, !.stale = FALSE]
             /\ HasSpan(rows[i])
  BY DEF EditRenderings
<1>5. ASSUME NEW i \in some
      PROVE  /\ rows'[i].first = rows[i].first /\ rows'[i].last = rows[i].last
             /\ rows'[i].source_ja = SpanText(rows[i])
  <2>1. rows[i] \in Rows
    BY <1>2
  <2>2. rows'[i] = [rows[i] EXCEPT !.text = written[i], !.source_ja = SpanText(rows[i]),
                                  !.manual = TRUE, !.stale = FALSE]
    BY <1>4
  <2>3. DOMAIN rows[i] = {"first", "last", "source_ja", "text", "manual", "stale"}
    BY <2>1 DEF Rows
  <2> QED BY <2>2, <2>3
<1>6. ASSUME NEW i \in some PROVE SpanText(rows[i]) \in Texts
  <2>1. rows[i].first \in Ids /\ rows[i].last \in Ids
    BY <1>4 DEF HasSpan, IInv, OneRowPerStart
  <2>2. PlaceOf(rows[i].first) \in DOMAIN ids /\ PlaceOf(rows[i].last) \in DOMAIN ids
    BY <2>1, PlaceOfId DEF Ids, IInv, TypeOK
  <2>3. transcript \in Transcripts /\ DOMAIN ids = DOMAIN transcript
    BY DEF IInv, TypeOK
  <2> QED BY <2>2, <2>3 DEF SpanText, Texts
<1>7. TypeOK'
  <2>1. ASSUME NEW i \in some PROVE rows'[i] \in Rows
    <3>1. rows[i] \in Rows /\ written[i] \in Writings /\ SpanText(rows[i]) \in Texts
      BY <1>2, <1>6
    <3>2. rows'[i] = [rows[i] EXCEPT !.text = written[i], !.source_ja = SpanText(rows[i]),
                                    !.manual = TRUE, !.stale = FALSE]
      BY <1>4
    <3> QED BY <3>1, <3>2 DEF Rows
  <2>2. \A i \in DOMAIN rows' : rows'[i] \in Rows
    BY <1>1, <1>2, <1>3, <2>1
  <2> QED BY <1>1, <2>2 DEF IInv, TypeOK
<1>8. \A i \in DOMAIN rows : rows'[i].first = rows[i].first /\ rows'[i].last = rows[i].last
  BY <1>3, <1>5
<1>9. OneRowPerStart'
  BY <1>1, <1>8 DEF IInv, OneRowPerStart, Attached, Ids
<1>10. ASSUME NEW i \in DOMAIN rows, ~rows'[i].stale
       PROVE  HasSpan(rows[i])' /\ SpanText(rows[i])' = rows'[i].source_ja
  <2>1. HasSpan(rows[i])' <=> HasSpan(rows[i])
    BY <1>1, <1>8 DEF HasSpan, Attached, PlaceOf
  <2>2. SpanText(rows[i])' = SpanText(rows[i])
    BY <1>1, <1>8 DEF SpanText, PlaceOf
  <2>3. CASE i \in some
    BY <2>1, <2>2, <2>3, <1>4, <1>5
  <2>4. CASE i \notin some
    BY <1>10, <2>1, <2>2, <2>4, <1>3 DEF IInv, FreshCoversItsWords
  <2> QED BY <2>3, <2>4
<1>11. FreshCoversItsWords'
  BY <1>1, <1>10 DEF FreshCoversItsWords
<1>12. ReadIsCurrent'
  BY <1>1 DEF IInv, ReadIsCurrent
<1> QED BY <1>7, <1>9, <1>11, <1>12 DEF IInv
--------------------------------------------------------------------------------
LEMMA NewTranscript ==
  ASSUME NEW n \in 0 .. MaxSegments, NEW new \in [1 .. n -> Segments]
  PROVE  new \in Transcripts
BY DEF Transcripts

LEMMA NextKeeps == IInv /\ [Next]_vars => IInv'
<1> SUFFICES ASSUME IInv, [Next]_vars PROVE IInv'
  OBVIOUS
<1>1. ASSUME NEW kind \in {"full", "translation"}, Start(kind) PROVE IInv'
  BY <1>1, StartKeeps
<1>2. CASE Fail
  BY <1>2, FailKeeps
<1>3. ASSUME NEW n \in 0 .. MaxSegments, NEW new \in [1 .. n -> Segments],
             PersistTranscript(new)
      PROVE  IInv'
  BY <1>3, NewTranscript, PersistTranscriptKeeps
<1>4. CASE PersistTranslation
  BY <1>4, PersistTranslationKeeps
<1>5. ASSUME NEW said \in [Ids -> Segments], NEW order \in [DOMAIN ids -> Ids],
             EditTranscript(said, order)
      PROVE  IInv'
  BY <1>5, EditTranscriptKeeps
<1>6. ASSUME NEW some \in SUBSET DOMAIN rows, NEW written \in [some -> Writings],
             EditRenderings(written)
      PROVE  IInv'
  BY <1>6, EditRenderingsKeeps
<1>7. CASE UNCHANGED vars
  <2>1. TypeOK' /\ ReadIsCurrent'
    BY <1>7 DEF vars, IInv, TypeOK, ReadIsCurrent
  <2> QED BY <1>7, <2>1, NothingMoves DEF vars, IInv
<1> QED BY <1>1, <1>2, <1>3, <1>4, <1>5, <1>6, <1>7 DEF Next

LEMMA Invariant == Spec => []IInv
BY Initially, NextKeeps, PTL DEF Spec

\* The transcript, its renderings and the active job always have their types: an edit that is
\* accepted has every segment once.
THEOREM TypeCorrect == Spec => []TypeOK
<1>1. IInv => TypeOK
  BY DEF IInv
<1> QED BY <1>1, Invariant, PTL

\* The unique index on the start of a rendering and its foreign keys are never hit, neither by
\* the carry of _result_persister nor by _write_translations, for any transcripts and edits.
THEOREM OneRenderingPerStart == Spec => []OneRowPerStart
<1>1. IInv => OneRowPerStart
  BY DEF IInv
<1> QED BY <1>1, Invariant, PTL

\* What is not flagged stale is on the words it was made from, after any sequence of
\* transcriptions, translations and edits.
THEOREM FreshRenderingsFit == Spec => []FreshCoversItsWords
<1>1. IInv => FreshCoversItsWords
  BY DEF IInv
<1> QED BY <1>1, Invariant, PTL

\* What an administrator wrote is never lost: a transcription carries it or detaches it, a
\* translation leaves it alone, an edit of the transcript flags it.
THEOREM HandwritingSurvives == Spec => HandwritingKept
<1>1. IInv /\ [Next]_vars =>
        [\A i \in Manual : /\ i \in DOMAIN rows' /\ rows'[i].manual
                           /\ job.kind # "none" => rows'[i].text = rows[i].text]_vars
  <2> SUFFICES ASSUME IInv, Next, NEW i \in Manual
               PROVE  /\ i \in DOMAIN rows' /\ rows'[i].manual
                      /\ job.kind # "none" => rows'[i].text = rows[i].text
    OBVIOUS
  <2>1. rows[i] \in Rows /\ i \in DOMAIN rows /\ rows[i].manual
    BY DEF IInv, TypeOK, Manual
  <2>2. ASSUME NEW kind \in {"full", "translation"}, Start(kind) PROVE rows' = rows
    BY <2>2 DEF Start
  <2>3. CASE Fail
    BY <2>1, <2>3 DEF Fail
  <2>4. ASSUME NEW n \in 0 .. MaxSegments, NEW new \in [1 .. n -> Segments],
               PersistTranscript(new)
        PROVE  i \in DOMAIN rows' /\ rows'[i].manual /\ rows'[i].text = rows[i].text
    BY <2>4, NewTranscript, CarriedRow DEF PersistTranscript
  <2>5. CASE PersistTranslation
    <3>1. i \in DOMAIN rows'
      BY <2>1, <2>5 DEF PersistTranslation
    <3> QED BY <2>1, <2>5, <3>1, TranslatedRow
  <2>6. ASSUME NEW said \in [Ids -> Segments], NEW order \in [DOMAIN ids -> Ids],
               EditTranscript(said, order)
        PROVE  i \in DOMAIN rows' /\ rows'[i].manual /\ job.kind = "none"
    BY <2>1, <2>6 DEF EditTranscript, Rows
  <2>7. ASSUME NEW some \in SUBSET DOMAIN rows, NEW written \in [some -> Writings],
               EditRenderings(written)
        PROVE  i \in DOMAIN rows' /\ rows'[i].manual /\ job.kind = "none"
    <3>1. job.kind = "none" /\ i \in DOMAIN rows'
      BY <2>1, <2>7 DEF EditRenderings
    <3>2. CASE i \in some
      <4>1. rows'[i] = [rows[i] EXCEPT !.text = written[i], !.source_ja = SpanText(rows[i]),
                                      !.manual = TRUE, !.stale = FALSE]
        BY <2>1, <2>7, <3>2 DEF EditRenderings
      <4> QED BY <2>1, <3>1, <4>1 DEF Rows
    <3>3. CASE i \notin some
      <4>1. rows'[i] = rows[i]
        BY <2>1, <2>7, <3>3 DEF EditRenderings
      <4> QED BY <2>1, <3>1, <4>1
    <3> QED BY <3>2, <3>3
  <2> QED BY <2>1, <2>2, <2>3, <2>4, <2>5, <2>6, <2>7 DEF Next
<1> QED BY <1>1, Invariant, PTL DEF Spec, HandwritingKept
--------------------------------------------------------------------------------
(* A rendering and its sentence. *)

LEMMA NearItself ==
  ASSUME NEW s \in Transcripts, NEW p \in Sentences(s)
  PROVE  TimeOf(s, p) \in Nat /\ Near(TimeOf(s, p), TimeOf(s, p))
<1>1. p[1] \in DOMAIN s /\ s[p[1]] \in Segments
  BY SentenceSpan, TranscriptShape
<1>2. TimeOf(s, p) \in Nat
  BY <1>1, RenderingsAssumption DEF TimeOf
<1> QED BY <1>2, RenderingsAssumption DEF Near

\* The moment and the words of an unflagged rendering are those of the sentence it is on.
LEMMA OnItsSentence ==
  ASSUME IInv, NEW i \in Manual, ~rows[i].stale, NEW p \in Sentences(transcript), On(rows[i], p)
  PROVE  /\ HasMoment(i) /\ MomentOf(i) = TimeOf(transcript, p)
         /\ rows[i].source_ja = TextOf(transcript, p)
<1>1. p[1] \in DOMAIN ids /\ p[2] \in DOMAIN ids
  BY SentenceSpan DEF IInv, TypeOK
<1>2. PlaceOf(rows[i].first) = p[1] /\ PlaceOf(rows[i].last) = p[2]
  BY <1>1, PlaceOfId DEF On, IInv, TypeOK
<1>3. HasSpan(rows[i]) /\ SpanText(rows[i]) = rows[i].source_ja
  BY DEF IInv, FreshCoversItsWords, Manual
<1> QED BY <1>2, <1>3 DEF HasMoment, HasSpan, MomentOf, TimeOf, SpanText, TextOf

\* A rendering matches a sentence of its words at its moment that has no rival, and that alone.
LEMMA MatchesItsSentence ==
  ASSUME NEW new \in Transcripts, NEW i \in Manual, NEW q \in Sentences(new), HasMoment(i),
         rows[i].source_ja = TextOf(new, q), MomentOf(i) = TimeOf(new, q),
         Alone(new, q), Undisputed(i, TimeOf(new, q))
  PROVE  \A r \in Sentences(new) : Matches(new, i, r) <=> r = q
<1>1. Candidates(new, i) = {q}
  <2>1. q \in Candidates(new, i)
    BY NearItself DEF Candidates
  <2>2. ASSUME NEW r \in Candidates(new, i) PROVE r = q
    BY DEF Candidates, Alone
  <2> QED BY <2>1, <2>2
<1>2. Claims(new, q, i) = {i}
  <2>1. i \in Claims(new, q, i)
    BY NearItself DEF Claims
  <2>2. ASSUME NEW k \in Claims(new, q, i) PROVE k = i
    BY DEF Claims, Undisputed
  <2> QED BY <2>1, <2>2
<1> QED BY <1>1, <1>2 DEF Matches

\* A hand-written rendering that is not flagged is carried onto the sentence with its words at its
\* moment, for any segments and any window, unless the words are also near by or another rendering
\* of them is (_unique_match in both directions).
THEOREM RenderingsFollow == Spec => FollowsItsSentence
<1>1. IInv /\ [Next]_vars =>
        [job.kind = "full" =>
           \A i \in Manual : \A p \in Sentences(transcript) : \A q \in Sentences(transcript') :
             /\ ~rows[i].stale /\ On(rows[i], p)
             /\ TextOf(transcript', q) = TextOf(transcript, p)
             /\ TimeOf(transcript', q) = TimeOf(transcript, p)
             /\ Alone(transcript', q) /\ Undisputed(i, TimeOf(transcript, p))
             => (On(rows[i], q))' /\ ~rows'[i].stale]_vars
  <2> SUFFICES ASSUME IInv, Next, job.kind = "full",
                      NEW i \in Manual, NEW p \in Sentences(transcript),
                      NEW q \in Sentences(transcript'),
                      ~rows[i].stale, On(rows[i], p),
                      TextOf(transcript', q) = TextOf(transcript, p),
                      TimeOf(transcript', q) = TimeOf(transcript, p),
                      Alone(transcript', q), Undisputed(i, TimeOf(transcript, p))
               PROVE  rows'[i].first = ids'[q[1]] /\ rows'[i].last = ids'[q[2]] /\ ~rows'[i].stale
    BY DEF On
  <2>1. CASE Fail
    <3>1. transcript' = transcript /\ ids' = ids /\ rows' = rows
      BY <2>1 DEF Fail
    <3>2. Near(TimeOf(transcript, p), TimeOf(transcript, q))
      BY <3>1, NearItself DEF IInv, TypeOK
    <3>3. p = q
      BY <3>1, <3>2 DEF Alone
    <3> QED BY <3>1, <3>3 DEF On
  <2>2. ASSUME NEW n \in 0 .. MaxSegments, NEW new \in [1 .. n -> Segments],
               PersistTranscript(new)
        PROVE  rows'[i].first = ids'[q[1]] /\ rows'[i].last = ids'[q[2]] /\ ~rows'[i].stale
    <3>1. /\ transcript' = new /\ ids' = [k \in DOMAIN new |-> k] /\ rows'[i] = Carried(new, i)
          /\ new \in Transcripts
      BY <2>2, NewTranscript DEF PersistTranscript
    <3>2. q \in Sentences(new)
      BY <3>1
    <3>3. ids'[q[1]] = q[1] /\ ids'[q[2]] = q[2]
      BY <3>1, <3>2, SentenceSpan
    <3>4. \A r \in Sentences(new) : Matches(new, i, r) <=> r = q
      <4>1. /\ HasMoment(i) /\ MomentOf(i) = TimeOf(new, q)
            /\ rows[i].source_ja = TextOf(new, q)
        BY <3>1, OnItsSentence
      <4>2. Alone(new, q) /\ Undisputed(i, TimeOf(new, q))
        BY <3>1
      <4> QED BY <3>1, <3>2, <4>1, <4>2, MatchesItsSentence
    <3>5. (CHOOSE r \in Sentences(new) : Matches(new, i, r)) = q
      BY <3>2, <3>4
    <3>6. Carried(new, i) = [rows[i] EXCEPT !.first = q[1], !.last = q[2], !.stale = FALSE]
      BY <3>2, <3>4, <3>5 DEF Carried
    <3>7. rows[i] \in Rows
      BY DEF IInv, TypeOK, Manual
    <3> QED BY <3>1, <3>3, <3>6, <3>7 DEF Rows
  <2>3. ASSUME NEW kind \in {"full", "translation"} PROVE ~Start(kind)
    BY DEF Start
  <2>4. ~PersistTranslation
    BY DEF PersistTranslation
  <2>5. \A said, order, written : ~EditTranscript(said, order) /\ ~EditRenderings(written)
    BY DEF EditTranscript, EditRenderings
  <2> QED BY <2>1, <2>2, <2>3, <2>4, <2>5 DEF Next
<1> QED BY <1>1, Invariant, PTL DEF Spec, FollowsItsSentence
================================================================================
