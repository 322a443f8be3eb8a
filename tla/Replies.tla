--------------------------------- MODULE Replies ---------------------------------
(***************************************************************************)
(* What a reply of LM Studio is read as (structured_payload).  A text is a  *)
(* sequence of tokens: a mark that opens or closes a block of reasoning, or *)
(* an object, which fits the schema or does not and may quote a mark in its *)
(* strings.  The words between them are left out.  A value is one of        *)
(* [none], [object] and [text], as the SDK fills `parsed` and `content`.    *)
(***************************************************************************)
EXTENDS Arrangement, SequencesExt

CONSTANTS Marks,   \* the pairs of _REASONING_MARKS
          NoMark

Opens(m) == [is |-> "opener", mark |-> m]
Closes(m) == [is |-> "closer", mark |-> m]
Object(fits, quoted) == [is |-> "object", fits |-> fits, quoted |-> quoted]
Quotable == {NoMark} \cup {Opens(m) : m \in Marks} \cup {Closes(m) : m \in Marks}
Tokens == {Opens(m) : m \in Marks} \cup {Closes(m) : m \in Marks}
            \cup {Object(f, q) : f \in BOOLEAN, q \in Quotable}

Texts == [is : {"text"}, text : Seq(Tokens)]
Values == [is : {"none"}] \cup [is : {"object"}, fits : BOOLEAN] \cup Texts

\* Where a mark can be read in a text: quoted or not, its characters are the same.
At(text, mark) ==
  {i \in DOMAIN text : text[i] = mark \/ (text[i].is = "object" /\ text[i].quoted = mark)}
\* str.rfind, with 0 for not found.
LastOf(places) == IF places = {} THEN 0 ELSE Max(places)

\* Plausible bug: a block ends at the first closing mark of the reply.
InsideUntilFirst(text, i) ==
  \E m \in Marks :
    LET opened == LastOf({k \in At(text, Opens(m)) : k < i})
        closes == At(text, Closes(m))
        closed == IF closes = {} THEN 0 ELSE Min(closes)
    IN opened # 0 /\ (closed < opened \/ closed >= i)
\* _inside_reasoning: the block that opens above the object does not close, or the last closing
\* mark of the reply is not before the object.
InsideReasoning(text, i) ==
  \E m \in Marks :
    LET opened == LastOf({k \in At(text, Opens(m)) : k < i})
        closed == LastOf(At(text, Closes(m)))
    IN opened # 0 /\ (closed < opened \/ closed >= i)

\* _json_objects_in, the last one first, as places in the text.
ObjectsIn(text) ==
  Arranged({i \in DOMAIN text : text[i].is = "object" /\ ~InsideReasoning(text, i)}, >)

\* _candidates and structured_payload: the first candidate that fits the schema, from the last of
\* `parsed` to the first of `content`; an object is its own place 1.
Candidates(value) ==
  CASE value.is = "none" -> <<>>
    [] value.is = "object" -> << [place |-> 1, fits |-> value.fits] >>
    [] value.is = "text" ->
         LET places == ObjectsIn(value.text)
         IN [k \in DOMAIN places |-> [place |-> places[k], fits |-> value.text[places[k]].fits]]
Payload(reply) ==
  LET from(field) == LET of == Candidates(reply[field])
                     IN [k \in DOMAIN of |-> [field |-> field, place |-> of[k].place, fits |-> of[k].fits]]
      candidates == from("parsed") \o from("content")
      first == SelectInSeq(candidates, LAMBDA c : c.fits)
  IN IF first = 0 THEN <<>> ELSE << candidates[first] >>

\* The reference for InsideReasoning, with a quoted mark read like any other: a block of reasoning
\* was open at the object, one that closes after it or never.
Thought(text, i) ==
  \E m \in Marks : \E o \in At(text, Opens(m)) :
    /\ o < i
    /\ \/ \E c \in At(text, Closes(m)) : c >= i
       \/ ~\E c \in At(text, Closes(m)) : o < c
\* The model is thinking at the object: a block of m that it opened at o, and has not closed.
\* What is quoted opens and closes nothing here, a difference the code cannot see.
ThinkingSince(text, i, m, o) ==
  /\ o < i /\ text[o] = Opens(m)
  /\ ~\E c \in o + 1 .. i - 1 : text[c] = Closes(m)
\* The one case in which a draft reads as a reply, by the comment on _inside_reasoning: the model
\* "quotes a close mark while still thinking and then stops before answering".
StoppedAfterQuoting(text, i, m, o) ==
  /\ \E c \in o + 1 .. i - 1 : text[c].is = "object" /\ text[c].quoted = Closes(m)
  /\ \A c \in At(text, Closes(m)) : c < i
\* What may be taken although the model was thinking.
DraftsOnlyAfterQuoting(text, i) ==
  \A m \in Marks : \A o \in DOMAIN text :
    ThinkingSince(text, i, m, o) => StoppedAfterQuoting(text, i, m, o)

\* The places of what may be the answer.
AnswersIn(value) ==
  CASE value.is = "none" -> {}
    [] value.is = "object" -> {i \in {1} : value.fits}
    [] value.is = "text" -> {i \in DOMAIN value.text :
         value.text[i].is = "object" /\ value.text[i].fits /\ ~Thought(value.text, i)}
================================================================================
