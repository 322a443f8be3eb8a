------------------------------- MODULE MCProcessor -------------------------------
(* Small inputs of each kind of job.  A budget of 6 and a prefix of 2 leave 3 characters of text
   in a piece; partial results are small enough to share a prompt, or too large even for one. *)
EXTENDS Processor

\* Recorded audio: words of up to two ticks, one of them perhaps without a time or before its end.
Word(s, e, text, timed) == [start |-> s, end |-> e, text |-> text, timed |-> timed]
WordSet == {Word(0, 1, "word", TRUE), Word(0, 2, "word", TRUE), Word(1, 1, "word", TRUE),
            Word(1, 3, "word", TRUE), Word(3, 4, "word", TRUE), Word(1, 2, "mark", TRUE),
            Word(2, 2, "mark", TRUE), Word(0, 2, "blank", TRUE), Word(1, 2, "word", FALSE),
            Word(2, 1, "word", TRUE)}
Segment(s, e, spoken, words) == [start |-> s, end |-> e, spoken |-> spoken, words |-> words]
TheTranscriptions ==
  {<< Segment(0, 4, TRUE, w) >> : w \in SeqOf(WordSet, 2) \cup SeqOf({Word(1, 1, "word", TRUE),
      Word(1, 3, "word", TRUE), Word(3, 4, "word", TRUE), Word(1, 2, "mark", TRUE)}, 3)}
    \cup {<< Segment(1, 3, TRUE, <<>>), Segment(0, 2, s, <<w>>) >> : s \in BOOLEAN, w \in WordSet}
    \cup {<< Segment(0, 1, FALSE, <<>>) >>, << Segment(2, 2, TRUE, <<>>) >>, <<>>}

Turn(s, e, who) == [start |-> s, end |-> e, speaker |-> who]
TurnSet == {Turn(0, 1, 0), Turn(0, 3, 0), Turn(1, 2, 0), Turn(2, 4, 0), Turn(1, 4, 0),
            Turn(0, 1, 1), Turn(0, 2, 1), Turn(1, 3, 1), Turn(3, 4, 1), Turn(2, 3, 2)}
TurnSets == {S \in SUBSET TurnSet : Cardinality(S) <= 2}
TheDiarizations ==
  [exclusive : {{}, {Turn(1, 3, 0)}, {Turn(0, 2, 0), Turn(2, 4, 1)}}, regular : TurnSets]
    \cup {[exclusive |-> {Turn(1, 1, 0)}, regular |-> {}]}

\* Conversations: four digests that each fill a prompt, and segments of one to three pieces.
TheLengths(k) ==
  CASE k = "analysis" -> {<<>>, <<1>>, <<2, 1>>, <<2, 7>>, <<3, 3, 3, 3>>}
    [] k = "daily_summary" -> SeqOf({1, 3, 8}, 3) \cup {<<8, 6, 6, 8>>}
    [] k = "translation" -> SeqOf({1}, 2)
    [] OTHER -> {<<>>}
TheSizes(k) == IF k \in {"analysis", "daily_summary"} THEN {2, 4, 9} ELSE {1}
\* What is in the two segments, word for word.
TheSaid(i) == IF i = 1 THEN {"a", "b"} ELSE {"b"}
QuoteSet == {[names |-> 1, words |-> "a", wrapped |-> FALSE], [names |-> 1, words |-> "a", wrapped |-> TRUE],
             [names |-> 2, words |-> "a", wrapped |-> FALSE], [names |-> 2, words |-> "b", wrapped |-> TRUE],
             [names |-> 9, words |-> "b", wrapped |-> FALSE], [names |-> 1, words |-> "", wrapped |-> FALSE],
             [names |-> 1, words |-> "", wrapped |-> TRUE]}
TheQuotes == SeqOf(QuoteSet, 2)

None == [is |-> "none"]
Whole(fits) == [is |-> "object", fits |-> fits]
InText(text) == [is |-> "text", text |-> text]
TheTexts == SeqOf(Tokens, 3) \cup {s \in [1 .. 4 -> {t \in Tokens : t.is # "object" \/ t.fits}] :
                                  s[1].is = "opener"}
\* The text is in both fields, only in content, or next to what the SDK parsed.
Full == {[parsed |-> InText(t), content |-> InText(t)] : t \in SeqOf(Tokens, 2)}
          \cup {[parsed |-> p, content |-> InText(t)] : p \in {None, Whole(FALSE)}, t \in TheTexts}
          \cup {[parsed |-> p, content |-> c] : p, c \in {None, Whole(TRUE), Whole(FALSE)}}
Simple == {[parsed |-> Whole(f), content |-> None] : f \in BOOLEAN}
TheModels(k, ls) == IF k = "translation" /\ Len(ls) = 1 THEN {{r} : r \in Full} ELSE {Simple}
================================================================================
