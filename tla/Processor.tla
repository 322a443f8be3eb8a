-------------------------------- MODULE Processor --------------------------------
(***************************************************************************)
(* One run of a processor on a claimed job (worker_runtime.py): the stages  *)
(* of a transcription, or the conversation with LM Studio of an analysis, a *)
(* translation or a day summary.  A run ends with a result for the worker   *)
(* to commit, skipped when there is nothing to do, or with a failure that   *)
(* may be retried or not; ProviderConfigurationError is a permanent one.    *)
(* JobQueue models what the worker does with the end of a run.              *)
(***************************************************************************)
EXTENDS Merge, Replies, Batches

CONSTANTS
  Kinds,            \* the kinds of job that are run
  Lengths(_),       \* kind -> inputs: the lengths of the segments, sentences or digests
  Transcriptions,   \* what Whisper may return: sequences of raw segments
  Diarizations,     \* what pyannote may return
  Models(_, _),     \* kind and input -> models, each the set of the replies it may give
  DraftSizes(_),    \* kind -> the sizes of a partial result as JSON
  Quotes,           \* sequences of quotes a final draft may hold: [names, words, wrapped]
  Said(_),          \* segment -> what is word for word in its text
  Budget, Prefix,   \* chunk_chars and the characters a segment's metadata takes
  GroupCap,         \* partial analyses in one prompt at most (8)
  MaxPasses         \* MAX_REDUCE_PASSES

ASSUME ProcessorAssumption ==
  /\ Kinds \subseteq {"full", "analysis", "translation", "daily_summary"}
  /\ \A k \in Kinds : /\ Lengths(k) \subseteq Seq(Nat) /\ DraftSizes(k) \subseteq Nat
                      /\ \A ls \in Lengths(k) :
                           Models(k, ls) \subseteq SUBSET [parsed : Values, content : Values]
  /\ Transcriptions \subseteq Seq(Segments)
  /\ \A d \in Diarizations : \A of \in {"exclusive", "regular"} :
       d[of] \subseteq Turns /\ IsFiniteSet(d[of])
  /\ Quotes \subseteq Seq([names : Nat, words : STRING, wrapped : BOOLEAN])
  /\ {Budget, Prefix} \subseteq Nat /\ Prefix + 1 < Budget
  /\ GroupCap \in Nat \ {0, 1} /\ MaxPasses \in Nat \ {0}

VARIABLES
  kind, lengths,   \* the claim and what was loaded for it
  model,           \* the loaded model, as the replies it may give
  phase,           \* where the run is, "ended" when it is over
  outcome,         \* how it ended: "result", "skipped", "permanent", "retryable" or "lost"
  heard,           \* the transcription as converted, before it is merged
  turns,           \* the diarization
  rows,            \* the merged transcript
  asks, done,      \* the prompts of this pass to come, and the partial results it has given
  passes,          \* reduce passes of a day summary
  reply, taken,    \* the last reply, and the candidate it was read as
  quoted, kept     \* the quotes of the final draft, and those of the result

input == <<kind, lengths, model>>
audio == <<heard, turns, rows>>
talk == <<asks, done, passes, reply, taken>>
vars == <<input, phase, outcome, audio, talk, quoted, kept>>

NoReply == [parsed |-> [is |-> "none"], content |-> [is |-> "none"]]
Summary == kind = "daily_summary"

Init ==
  /\ kind \in Kinds /\ lengths \in Lengths(kind) /\ model \in Models(kind, lengths)
  /\ phase = "claimed" /\ outcome = "running"
  /\ heard = <<>> /\ turns = {} /\ rows = <<>>
  /\ asks = <<>> /\ done = <<>> /\ passes = 0
  /\ reply = NoReply /\ taken = <<>> /\ quoted = <<>> /\ kept = <<>>

End(how) == phase' = "ended" /\ outcome' = how
Fails == \E how \in {"permanent", "retryable"} : End(how)
Goes(to) == phase' = to /\ UNCHANGED outcome

(******************************* A transcription *******************************)

\* The recording or its original is gone, the job has no scope, or this worker is not made for it.
Refuse ==
  /\ phase = "claimed" /\ End("permanent")
  /\ UNCHANGED <<input, audio, talk, quoted, kept>>

\* The stage callback raises when the claim was lost; that error goes to the worker unchanged.
LoseClaim ==
  /\ kind = "full" /\ phase # "ended" /\ End("lost")
  /\ UNCHANGED <<input, audio, talk, quoted, kept>>

\* AudioProcessor.probe and normalize.
Preprocess ==
  /\ kind = "full" /\ phase = "claimed"
  /\ Goes("transcribing") \/ Fails
  /\ UNCHANGED <<input, audio, talk, quoted, kept>>

\* _convert_segment: a word without a time is dropped, and an interval that ends before it starts,
\* or a segment that is empty, spoils the whole result.
Valid(raw) ==
  \A i \in DOMAIN raw : /\ raw[i].start < raw[i].end
                        /\ \A w \in Range(raw[i].words) : w.timed => w.start <= w.end
Converted(raw) ==
  [i \in DOMAIN raw |->
     [raw[i] EXCEPT !.words = Kept(raw[i].words, {j \in DOMAIN raw[i].words : raw[i].words[j].timed})]]

Transcribe ==
  /\ kind = "full" /\ phase = "transcribing"
  /\ \/ Fails /\ UNCHANGED heard
     \/ \E raw \in Transcriptions :
          IF Valid(raw) THEN Goes("diarizing") /\ heard' = Converted(raw)
          ELSE End("permanent") /\ UNCHANGED heard
  /\ UNCHANGED <<input, turns, rows, talk, quoted, kept>>

Diarize ==
  /\ kind = "full" /\ phase = "diarizing"
  /\ \/ Fails /\ UNCHANGED turns
     \/ \E raw \in Diarizations :
          IF \A t \in raw.exclusive \cup raw.regular : t.start < t.end
          THEN Goes("merging") /\ turns' = raw
          ELSE End("permanent") /\ UNCHANGED turns
  /\ UNCHANGED <<input, heard, rows, talk, quoted, kept>>

Reconcile ==
  /\ kind = "full" /\ phase = "merging"
  /\ rows' = MergeTranscript(heard, turns) /\ End("result")
  /\ UNCHANGED <<input, heard, turns, talk, quoted, kept>>

(************************ A conversation with LM Studio ************************)

\* The sizes of what is cut into chunks.  A digest longer than the budget is shortened to it; a
\* translation asks for each sentence by itself.
Sizes ==
  CASE kind = "analysis" -> PieceSizes(lengths, Prefix, Budget)
    [] kind = "daily_summary" -> [i \in DOMAIN lengths |-> Min({lengths[i], Budget})]
    [] OTHER -> lengths

Chunks ==
  CASE kind = "analysis" -> Cut(Sizes, Budget, 0, Len(Sizes))
    [] kind = "daily_summary" -> Cut(Sizes, Budget, 2, Len(Sizes))
    [] OTHER -> [i \in DOMAIN lengths |-> <<i, i>>]

\* A prompt covers pieces first to last and holds `load` characters: of pieces, or of `parts` partial results.
Ask(first, last, parts, load) == [first |-> first, last |-> last, parts |-> parts, load |-> load]
ChunkAsks ==
  LET gap == IF Summary THEN 2 ELSE 0
  IN [k \in DOMAIN Chunks |->
        Ask(Chunks[k][1], Chunks[k][2], 0, Load(Sizes, gap, Chunks[k][1], Chunks[k][2]))]
DoneSizes == [i \in DOMAIN done |-> done[i].size]
Groups == GroupDrafts(DoneSizes, Budget, IF Summary THEN Len(done) ELSE GroupCap)
GroupAsks(groups) ==
  [k \in DOMAIN groups |->
     LET i == groups[k][1] j == groups[k][2]
     IN Ask(done[i].first, done[j].last, j - i + 1, Load(DoneSizes, 0, i, j))]

\* A provider that is switched off, or an input without a segment, a sentence or a digest.
Skip ==
  /\ kind # "full" /\ phase = "claimed"
  /\ End("skipped") \/ (lengths = <<>> /\ ~Summary /\ End("result"))
  /\ UNCHANGED <<input, audio, talk, quoted, kept>>

\* A client that cannot connect, or LM Studio without exactly one model loaded.
Connect ==
  /\ kind # "full" /\ phase = "claimed" /\ lengths # <<>>
  /\ \/ Fails /\ UNCHANGED asks
     \/ \E loaded \in 0 .. 2 :
          IF loaded = 1 THEN Goes("asking") /\ asks' = ChunkAsks
          ELSE End("permanent") /\ UNCHANGED asks
  /\ UNCHANGED <<input, audio, done, passes, reply, taken, quoted, kept>>

\* model.respond raises; classify_lmstudio_failure tells what may be retried.
Unanswered ==
  /\ phase = "asking" /\ asks # <<>> /\ Fails
  /\ UNCHANGED <<input, audio, talk, quoted, kept>>

\* _respond and _render: a reply is read, or no object of it fits the schema.
Answer ==
  /\ phase = "asking" /\ asks # <<>>
  /\ reply' \in model /\ taken' = Payload(reply')
  /\ IF taken' = <<>>
     THEN End("permanent") /\ UNCHANGED <<asks, done>>
     ELSE \E size \in DraftSizes(kind) :
            /\ asks' = Tail(asks)
            /\ done' = Append(done, [first |-> Head(asks).first, last |-> Head(asks).last,
                                     size |-> size])
            /\ UNCHANGED <<phase, outcome>>
  /\ UNCHANGED <<input, audio, passes, quoted, kept>>

\* A rendering that is blank makes no SentenceTranslation.
Blank ==
  /\ kind = "translation" /\ phase = "asking" /\ asks # <<>> /\ End("permanent")
  /\ UNCHANGED <<input, audio, talk, quoted, kept>>

\* Plausible bug: a pass too many.
OutOfPassesLate == Summary /\ passes > MaxPasses
OutOfPasses == Summary /\ passes = MaxPasses
\* The next pass over more than one partial result: as many as an analysis takes, and no more than
\* MaxPasses for a day summary, which is judged on what it has come to.
Reduce ==
  /\ kind \in {"analysis", "daily_summary"}
  /\ phase = "asking" /\ asks = <<>> /\ Len(done) > 1
  /\ IF OutOfPasses
     THEN End("permanent") /\ UNCHANGED <<asks, done, passes>>
     ELSE /\ \E groups \in {Groups} : asks' = GroupAsks(groups)
          /\ done' = <<>>
          /\ passes' = IF Summary THEN passes + 1 ELSE passes
          /\ UNCHANGED <<phase, outcome>>
  /\ UNCHANGED <<input, audio, reply, taken, quoted, kept>>

\* Plausible bug: a quote is looked for in the whole transcript.
GroundedAnywhere(q) == \E i \in DOMAIN lengths : q.words \in Said(i)
\* _exact_grounded_quote: a quote is kept as it is, or without the quotation marks around it, when
\* the segment it names has exactly those words; no words at all ("") are in every segment.
Grounded(q) ==
  /\ q.names \in DOMAIN lengths
  /\ q.words \in Said(q.names) \/ (q.words = "" /\ ~q.wrapped)
\* _ground_draft and _to_result: the first of equal quotes.
Bare(q) == [names |-> q.names, words |-> q.words]
QuotesOf(quotes) ==
  LET bare == [i \in DOMAIN quotes |-> Bare(quotes[i])]
      grounded == {i \in DOMAIN quotes : Grounded(quotes[i])}
  IN Kept(bare, {i \in grounded : \A j \in grounded : j < i => bare[j] # bare[i]})
\* _to_data: the points whose recording is known.
PointsOf(quotes) == Kept(quotes, {i \in DOMAIN quotes : quotes[i].names \in DOMAIN lengths})

\* The one result that is left is made into the stored one; a quote without words is refused there
\* by the schema of an analysis.
Conclude ==
  /\ phase = "asking" /\ asks = <<>>
  /\ IF kind = "translation" THEN End("result") /\ UNCHANGED <<quoted, kept>>
     ELSE /\ Len(done) = 1
          /\ quoted' \in Quotes
          /\ kept' = IF Summary THEN PointsOf(quoted') ELSE QuotesOf(quoted')
          /\ IF ~Summary /\ \E q \in Range(kept') : q.words = ""
             THEN End("permanent") ELSE End("result")
  /\ UNCHANGED <<input, audio, talk>>

Next ==
  \/ Refuse \/ LoseClaim \/ Preprocess \/ Transcribe \/ Diarize \/ Reconcile
  \/ Skip \/ Connect \/ Unanswered \/ Answer \/ Blank \/ Reduce \/ Conclude

Spec == Init /\ [][Next]_vars /\ WF_vars(Next)

(********************************* Properties *********************************)

\* A run is in one of its phases, with a result only when it is over.
TypeOK ==
  /\ kind \in Kinds /\ lengths \in Lengths(kind)
  /\ reply \in model \cup {NoReply} /\ passes \in 0 .. MaxPasses
  /\ phase \in {"claimed", "transcribing", "diarizing", "merging", "asking", "ended"}
  /\ outcome \in {"running", "result", "skipped", "permanent", "retryable", "lost"}
  /\ phase = "ended" <=> outcome # "running"
  /\ outcome = "lost" => kind = "full"

\* Whatever the sizes of the pieces and of the model's answers, what has been answered in a pass
\* and what is still to be asked follow one another over the whole input (analyze, summarize and
\* translate lose nothing and ask nothing twice), and a prompt keeps to chunk_chars unless it is
\* one partial result that is larger by itself, or two.  Partial results are counted as the code
\* counts them, without the few characters that join them in the prompt.
PromptsTileTheInput ==
  LET spans == [i \in DOMAIN done |-> <<done[i].first, done[i].last>>]
               \o [i \in DOMAIN asks |-> <<asks[i].first, asks[i].last>>]
  IN spans # <<>> =>
       /\ Tiles(spans, Len(Sizes))
       /\ kind = "translation"
            \/ \A i \in DOMAIN asks : asks[i].load <= Budget \/ asks[i].parts \in {1, 2}

\* A reply is read as what the SDK parsed or else as the last object that fits the schema and that
\* the marks, quoted or not, put outside every block of reasoning; when there is one it is found,
\* whatever remark follows it.  A draft that the model was still thinking about is taken only if it
\* had quoted the close mark and neither closes nor quotes it again (structured_payload,
\* _inside_reasoning, which names that case as one that no reading can settle).
ReplyIsTheAnswer ==
  reply # NoReply =>
    LET answers(f) == {[field |-> f, place |-> Max(AnswersIn(reply[f])), fits |-> TRUE] :
                         i \in AnswersIn(reply[f])}
    IN /\ Range(taken) = IF answers("parsed") # {} THEN answers("parsed") ELSE answers("content")
       /\ \A c \in Range(taken) :
            reply[c.field].is = "text" => DraftsOnlyAfterQuoting(reply[c.field].text, c.place)

\* What an analysis quotes is word for word in the segment it is quoted from, is quoted once, and
\* no quote of the model that is there is lost (_ground_draft, _to_result).
QuotesAreGrounded ==
  kind = "analysis" /\ outcome = "result" =>
    /\ \A q \in Range(kept) : q.names \in DOMAIN lengths /\ q.words \in Said(q.names)
    /\ Len(kept) = Cardinality(Range(kept))
    /\ \A q \in Range(quoted) :
         q.names \in DOMAIN lengths /\ q.words \in Said(q.names) => Bare(q) \in Range(kept)

\* The merged transcript has every word that was heard once, in the order of its time, under the
\* speaker heard longest during it, punctuation with the word before it, and is flagged exactly
\* when two speakers talk during one of its words (TimestampTranscriptMerger.merge).
MergeIsFaithful == kind = "full" /\ outcome = "result" => Faithful(rows, heard, turns)

\* A pass over partial results asks for fewer of them than it was given, however large they are,
\* so that an analysis, which has no ceiling on its passes, comes to one result (_group_drafts).
PassesShrink == [][phase' = "asking" /\ done # <<>> /\ done' = <<>> => Len(asks') < Len(done)]_vars

\* Every run ends: the passes over partial results come to one, also over results that are too
\* large to share a prompt.  That each call of a provider returns is assumed: LM Studio's and
\* ffmpeg's have timeouts, Whisper's and pyannote's have none.
EveryRunEnds == <>(outcome # "running")
================================================================================
