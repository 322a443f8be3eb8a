-------------------------------- MODULE Sentences --------------------------------
(***************************************************************************)
(* Segments grouped into sentences (processing/sentences.py).  A transcript *)
(* is a sequence of segments in the order of their sequence numbers; a text *)
(* is a sequence of words, and a sentence the span <<first, last>> of the   *)
(* segments it was assembled from.  Texts have no blanks at their ends (the *)
(* merger and the schema of an edit strip them), so that joining them is    *)
(* concatenation.                                                           *)
(***************************************************************************)
EXTENDS Integers, Sequences

CONSTANTS
  Words, Terminators,  \* the words of a text, and those that end a sentence
  MaxChars             \* max_chars of group_sentences, in words

ASSUME SentencesAssumption == Terminators \subseteq Words /\ MaxChars \in Nat \ {0}

\* The words of segments i to j.
Text(s, i, j) ==
  LET upTo[k \in 0 .. j] == IF k < i THEN <<>> ELSE upTo[k - 1] \o s[k].text
  IN upTo[j]

\* _ends_sentence
EndsSentence(text) == text # <<>> /\ text[Len(text)] \in Terminators

\* A segment goes on with a sentence that started at segment b: the same voice, no terminator
\* before it, and no more than MaxChars words in all.
GoesOn(s, b, i) ==
  /\ s[i].speaker = s[b].speaker
  /\ ~EndsSentence(s[i - 1].text)
  /\ Len(Text(s, b, i)) <= MaxChars

\* group_sentences: where the sentence of each segment starts.
Starts(s) ==
  LET start[i \in DOMAIN s] ==
        IF i > 1 /\ GoesOn(s, start[i - 1], i) THEN start[i - 1] ELSE i
  IN start

Sentences(s) ==
  LET start == Starts(s)
  IN {p \in (DOMAIN s) \X (DOMAIN s) :
        /\ p[1] <= p[2] /\ \A k \in p[1] .. p[2] : start[k] = p[1]
        /\ p[2] + 1 \in DOMAIN s => start[p[2] + 1] # p[1]}

TextOf(s, p) == Text(s, p[1], p[2])
TimeOf(s, p) == s[p[1]].start
================================================================================
