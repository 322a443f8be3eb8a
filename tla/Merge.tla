---------------------------------- MODULE Merge ----------------------------------
(***************************************************************************)
(* Whisper's words and pyannote's turns made into one transcript            *)
(* (processing/merge.py).  Times are whole ticks and the midpoint of a word *)
(* is compared at twice the scale.  A turn is [start, end, speaker] and     *)
(* speakers are the numbers of their labels (SPEAKER_00 is 0); a word is    *)
(* [start, end, text] where text says whether it is speech, punctuation     *)
(* only or blank.  Sequences are in the provider's order.                   *)
(***************************************************************************)
EXTENDS Arrangement, SequencesExt

CONSTANTS Tolerance,  \* nearest_turn_seconds
          Unknown     \* UNKNOWN_SPEAKER

ASSUME MergeAssumption == Tolerance \in Nat

Turns == [start : Int, end : Int, speaker : Nat \ {Unknown}]
WordTimings == [start : Int, end : Int, text : {"word", "mark", "blank"}, timed : BOOLEAN]
Segments == [start : Int, end : Int, spoken : BOOLEAN, words : Seq(WordTimings)]

\* The order of words, of segments and of turns: start, then end.
Before(a, b) == a.start < b.start \/ (a.start = b.start /\ a.end < b.end)
\* sorted(enumerate(items)) by (start, end, index): the indices of s in the order of their items.
Order(s) ==
  Arranged(DOMAIN s, LAMBDA i, j : Before(s[i], s[j]) \/ (~Before(s[j], s[i]) /\ i < j))
TurnBefore(t, u) == Before(t, u) \/ (~Before(u, t) /\ t.speaker < u.speaker)
Earliest(turns) == CHOOSE t \in turns : \A u \in turns \ {t} : TurnBefore(t, u)

Overlap(x, turn) == Max({0, Min({x.end, turn.end}) - Max({x.start, turn.start})})
\* _contains of the midpoint, and _distance_to_interval.
HasMidpoint(x, turn) == 2 * turn.start <= x.start + x.end /\ x.start + x.end <= 2 * turn.end
Distance(x, turn) == Max({0, x.start - turn.end, turn.start - x.end})

\* Plausible bug: the turn at the middle of x before the one that overlaps it longest.
MiddleHeard(x, turns) ==
  LET heard == {t \in turns : Overlap(x, t) > 0}
      middle == {t \in heard : HasMidpoint(x, t)}
  IN Earliest(IF middle = {} THEN heard ELSE middle)
\* _choose_speaker: the turn that overlaps x longest, then one that has its midpoint, then the
\* nearest one within the tolerance; ties go to the earliest turn.
LongestHeard(x, turns) ==
  LET longest == {t \in turns : \A u \in turns : Overlap(x, u) <= Overlap(x, t)}
      middle == {t \in longest : HasMidpoint(x, t)}
  IN Earliest(IF middle = {} THEN longest ELSE middle)

Nearest(x, turns) == Earliest({t \in turns : \A u \in turns : Distance(x, t) <= Distance(x, u)})
ChooseSpeaker(x, turns) ==
  LET middle == {t \in turns : HasMidpoint(x, t)}
  IN IF \E t \in turns : Overlap(x, t) > 0 THEN LongestHeard(x, turns).speaker
     ELSE IF middle # {} THEN Earliest(middle).speaker
     ELSE IF turns # {} /\ Distance(x, Nearest(x, turns)) <= Tolerance
          THEN Nearest(x, turns).speaker
     ELSE Unknown

\* Two turns of different speakers share a part of x.
Shared(x, t, u) == Min({x.end, t.end, u.end}) > Max({x.start, t.start, u.start})
\* _has_simultaneous_speech
HasSimultaneousSpeech(x, turns) ==
  IF x.start = x.end
  THEN \E t, u \in turns : /\ t.speaker # u.speaker
                           /\ \A v \in {t, u} : v.start <= x.start /\ x.start <= v.end
  ELSE LET relevant == {t \in turns : Overlap(x, t) > 0}
       IN \E t, u \in relevant : t.speaker # u.speaker /\ Shared(x, t, u)

\* _assign_words: the words in the order of their times; a mark goes with the word before it.
AssignWords(words, primary, regular) ==
  LET order == Order(words)
      assigned[i \in DOMAIN order] ==
        LET w == words[order[i]]
        IN IF w.text = "mark" /\ i > 1
           THEN [assigned[i - 1] EXCEPT !.word = order[i]]
           ELSE [word |-> order[i], speaker |-> ChooseSpeaker(w, primary),
                 overlap |-> HasSimultaneousSpeech(w, regular)]
  IN [i \in DOMAIN order |-> assigned[i]]

\* _group_by_speaker: the runs of one speaker, as <<first, last>>.
GroupBySpeaker(assigned) ==
  Runs({i \in DOMAIN assigned : i > 1 => assigned[i].speaker # assigned[i - 1].speaker},
       Len(assigned))

\* The words of a segment that have a text.
Heard(segment) == {i \in DOMAIN segment.words : segment.words[i].text # "blank"}

\* The rows of segment n: one per run of its words, or one for its text when no word of it has
\* a time.  A row names the words it is made of.
SegmentRows(segments, n, primary, regular) ==
  LET segment == segments[n]
      said == Ascending(Heard(segment))
      words == [i \in DOMAIN said |-> segment.words[said[i]]]
      assigned == AssignWords(words, primary, regular)
      row(run) ==
        LET of == SubSeq(assigned, run[1], run[2])
        IN [segment |-> n, speaker |-> of[1].speaker,
            words |-> [i \in DOMAIN of |-> said[of[i].word]],
            start |-> Min({words[of[i].word].start : i \in DOMAIN of}),
            end |-> Max({words[of[i].word].end : i \in DOMAIN of}),
            overlap |-> \E i \in DOMAIN of : of[i].overlap]
  IN IF words # <<>>
     THEN LET runs == GroupBySpeaker(assigned) IN [k \in DOMAIN runs |-> row(runs[k])]
     ELSE IF segment.spoken
     THEN << [segment |-> n, speaker |-> ChooseSpeaker(segment, primary), words |-> <<>>,
              start |-> segment.start, end |-> segment.end,
              overlap |-> HasSimultaneousSpeech(segment, regular)] >>
     ELSE <<>>

\* primary_turns are the exclusive ones when there are any.
Primary(diarization) ==
  IF diarization.exclusive # {} THEN diarization.exclusive ELSE diarization.regular

\* TimestampTranscriptMerger.merge
MergeTranscript(segments, diarization) ==
  LET order == Order(segments)
  IN FlattenSeq([k \in DOMAIN order |->
                   SegmentRows(segments, order[k], Primary(diarization), diarization.regular)])

(******************** What a merged transcript has to be: the reference ********************)

\* Two speakers talk at some moment of x.
SpeakersAt(t, length, turns) ==
  {u.speaker : u \in {v \in turns : v.start <= t /\ t + length <= v.end}}
TwoTalk(x, turns) ==
  IF x.start = x.end THEN Cardinality(SpeakersAt(x.start, 0, turns)) > 1
  ELSE \E t \in x.start .. x.end - 1 : Cardinality(SpeakersAt(t, 1, turns)) > 1
\* Nobody is heard longer during x than the speaker it is given, and it is given none only when
\* nobody is within the tolerance.
Attributed(x, speaker, turns) ==
  IF speaker = Unknown THEN \A u \in turns : Distance(x, u) > Tolerance
  ELSE \E t \in turns : /\ t.speaker = speaker /\ Distance(x, t) <= Tolerance
                        /\ \A u \in turns : Overlap(x, u) <= Overlap(x, t)

\* A place of a transcript is a row and a word of it.
Places(rows) == UNION {{k} \X DOMAIN rows[k].words : k \in DOMAIN rows}
Earlier(p, q) == p[1] < q[1] \/ (p[1] = q[1] /\ p[2] < q[2])
Source(rows, p) == <<rows[p[1]].segment, rows[p[1]].words[p[2]]>>

\* Every word is at one place, no row is empty but the one of a segment without words, and the
\* words of a segment, and the segments, are in the order of their times.
Complete(rows, segments) ==
  /\ {Source(rows, p) : p \in Places(rows)} = UNION {{n} \X Heard(segments[n]) : n \in DOMAIN segments}
  /\ \A p, q \in Places(rows) : Source(rows, p) = Source(rows, q) => p = q
  /\ \A n \in DOMAIN segments : Heard(segments[n]) = {} =>
       LET of == {k \in DOMAIN rows : rows[k].segment = n}
       IN IF segments[n].spoken THEN \E k \in of : of = {k} ELSE of = {}
  /\ \A k \in DOMAIN rows : rows[k].words = <<>> => Heard(segments[rows[k].segment]) = {}
InOrder(rows, segments) ==
  /\ \A p, q \in Places(rows) :
       LET n == rows[p[1]].segment
       IN Earlier(p, q) /\ rows[q[1]].segment = n
            => ~Before(segments[n].words[Source(rows, q)[2]], segments[n].words[Source(rows, p)[2]])
  /\ \A k, l \in DOMAIN rows :
       k < l => ~Before(segments[rows[l].segment], segments[rows[k].segment])
\* Every word that is more than a mark behind another one is under its speaker, and a row is
\* flagged exactly when two speakers talk during one of these words.
Placed(r, segment, diarization) ==
  LET word(i) == segment.words[r.words[i]]
      leads(i) == \/ word(i).text = "word"
                  \/ i = 1 /\ \A v \in Heard(segment) :
                                 v # r.words[1] => ~Before(segment.words[v], word(1))
  IN IF r.words = <<>>
     THEN /\ Attributed(segment, r.speaker, Primary(diarization))
          /\ r.overlap = TwoTalk(segment, diarization.regular)
     ELSE /\ \A i \in DOMAIN r.words :
               leads(i) => Attributed(word(i), r.speaker, Primary(diarization))
          /\ r.overlap = \E i \in DOMAIN r.words : leads(i) /\ TwoTalk(word(i), diarization.regular)
Faithful(rows, segments, diarization) ==
  /\ Complete(rows, segments) /\ InOrder(rows, segments)
  /\ \A k \in DOMAIN rows : Placed(rows[k], segments[rows[k].segment], diarization)
================================================================================
