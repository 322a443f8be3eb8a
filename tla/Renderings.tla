------------------------------- MODULE Renderings -------------------------------
(***************************************************************************)
(* A recording's transcript and the Cantonese renderings of its sentences   *)
(* (worker_runtime.py, processing/sentences.py, recording_service.py).      *)
(* A transcription replaces every segment and carries the hand-written      *)
(* renderings over to the new ones; a translation renders every sentence;   *)
(* an administrator edits the transcript and the renderings.                *)
(*                                                                         *)
(* A segment's number is its place in the transcript, its text a sequence   *)
(* of words.  An edit whose revision is out of date changes nothing and is  *)
(* a stutter here: module Results has the revisions.                        *)
(***************************************************************************)
EXTENDS Sentences

CONSTANTS
  Segments,            \* what a segment may say: who, when and which words
  MaxSegments,         \* bound on the length of a transcript
  RowIds,              \* primary keys of renderings, and the bound on their number
  Writings,            \* what an administrator writes
  Machine,             \* what the model writes
  Window,              \* _SAME_UTTERANCE_SECONDS
  None

SegmentIds == 1 .. MaxSegments

ASSUME RenderingsAssumption ==
  /\ Segments \subseteq [speaker : STRING, start : Nat, end : Nat, text : Seq(Words)]
  /\ MaxSegments \in Nat /\ Window \in Nat
  /\ Machine \notin Writings /\ None \notin SegmentIds

VARIABLES
  transcript,  \* what the segments say, in the order of their sequence
  ids,         \* their ids
  rows,        \* id -> rendering
  job          \* the recording's active job, and the transcript it has read
vars == <<transcript, ids, rows, job>>

Transcripts == UNION {[1 .. n -> Segments] : n \in 0 .. MaxSegments}
\* What a span of a transcript may say.
Texts == UNION {{Text(s, i, j) : i \in DOMAIN s, j \in DOMAIN s} : s \in Transcripts}
Places == SegmentIds \cup {None}
\* first and last are None once the rendering is detached.
Rows == [first : Places, last : Places, source_ja : Texts,
         text : Writings \cup {Machine}, manual : BOOLEAN, stale : BOOLEAN]

TypeOK ==
  /\ transcript \in Transcripts
  /\ ids \in [DOMAIN transcript -> SegmentIds]
  /\ \A k, l \in DOMAIN ids : ids[k] = ids[l] => k = l
  /\ DOMAIN rows \subseteq RowIds /\ \A i \in DOMAIN rows : rows[i] \in Rows
  /\ job \in [kind : {"none", "full", "translation"}, read : Transcripts]

NoJob == [kind |-> "none", read |-> <<>>]

Init == transcript = <<>> /\ ids = <<>> /\ rows = <<>> /\ job = NoJob
--------------------------------------------------------------------------------
(* Where a rendering is. *)

Ids == {ids[k] : k \in DOMAIN ids}
PlaceOf(id) == CHOOSE k \in DOMAIN ids : ids[k] = id
Near(t, u) == t - u <= Window /\ u - t <= Window

Attached(r) == r.first # None
\* _span_text: whether the transcript still has the span, and what it says there.
HasSpan(r) == Attached(r) /\ PlaceOf(r.first) <= PlaceOf(r.last)
SpanText(r) == Text(transcript, PlaceOf(r.first), PlaceOf(r.last))
--------------------------------------------------------------------------------
(* Carrying the hand-written renderings over to a new transcript. *)

Manual == {i \in DOMAIN rows : rows[i].manual}

\* _capture_manual_translations: the moment of a rendering that starts a sentence.
HasMoment(i) ==
  Attached(rows[i]) /\ \E p \in Sentences(transcript) : p[1] = PlaceOf(rows[i].first)
MomentOf(i) == transcript[PlaceOf(rows[i].first)].start

\* _unique_match: the sentences with these words about this moment.
Candidates(new, i) ==
  {p \in Sentences(new) : TextOf(new, p) = rows[i].source_ja /\ Near(TimeOf(new, p), MomentOf(i))}
\* _count_within: the renderings of these words about the sentence's moment.
\* (Mutant: at any moment.)
ClaimsAnywhere(new, p, i) ==
  {k \in Manual : HasMoment(k) /\ rows[k].source_ja = rows[i].source_ja}
Claims(new, p, i) ==
  {k \in Manual : /\ HasMoment(k) /\ rows[k].source_ja = rows[i].source_ja
                  /\ Near(MomentOf(k), TimeOf(new, p))}
\* (Mutant: the sentence need not point back at one rendering.)
MatchesOneWay(new, i, p) == HasMoment(i) /\ Candidates(new, i) = {p}
Matches(new, i, p) == HasMoment(i) /\ Candidates(new, i) = {p} /\ Claims(new, p, i) = {i}

\* The rendering under the new transcript: on its sentence, or detached and flagged.
Carried(new, i) ==
  IF \E p \in Sentences(new) : Matches(new, i, p)
  THEN LET p == CHOOSE q \in Sentences(new) : Matches(new, i, q)
       IN [rows[i] EXCEPT !.first = p[1], !.last = p[2], !.stale = FALSE]
  ELSE [rows[i] EXCEPT !.first = None, !.last = None, !.stale = TRUE]
--------------------------------------------------------------------------------
(* Jobs. *)

\* claim_next of a full or of a translation job; the latter reads the transcript.
Start(kind) ==
  /\ job.kind = "none"
  /\ job' = [kind |-> kind, read |-> IF kind = "translation" THEN transcript ELSE <<>>]
  /\ UNCHANGED <<transcript, ids, rows>>

\* The job fails, or its worker is lost: nothing has been written.
Fail == job.kind # "none" /\ job' = NoJob /\ UNCHANGED <<transcript, ids, rows>>

\* _result_persister: the merger leaves the segments in the order of their starts.
\* (Mutant: what is detached already is not captured.)
PersistTranscriptPlaced(new) ==
  /\ job.kind = "full"
  /\ \A k, l \in DOMAIN new : k <= l => new[k].start <= new[l].start
  /\ transcript' = new /\ ids' = [k \in DOMAIN new |-> k]
  /\ rows' = [i \in {j \in Manual : Attached(rows[j])} |-> Carried(new, i)]
  /\ job' = NoJob
PersistTranscript(new) ==
  /\ job.kind = "full"
  /\ \A k, l \in DOMAIN new : k <= l => new[k].start <= new[l].start
  /\ transcript' = new /\ ids' = [k \in DOMAIN new |-> k]
  /\ rows' = [i \in Manual |-> Carried(new, i)]
  /\ job' = NoJob

\* _write_translations: what the result's sentence p makes of the row that starts there.
RowAt(i, p) == Attached(rows[i]) /\ rows[i].first = ids[p[1]]
Rendered(p) == [first |-> ids[p[1]], last |-> ids[p[2]], source_ja |-> TextOf(job.read, p),
                text |-> Machine, manual |-> FALSE, stale |-> FALSE]
Results == {p \in Sentences(job.read) : p[2] \in DOMAIN transcript}
Unrendered == {p \in Results : ~\E i \in DOMAIN rows : RowAt(i, p)}

PersistTranslation ==
  /\ job.kind = "translation"
  /\ \E key \in [Unrendered -> RowIds \ DOMAIN rows] :
       /\ \A p, q \in Unrendered : key[p] = key[q] => p = q
       /\ rows' = [i \in DOMAIN rows \cup {key[p] : p \in Unrendered} |->
            IF i \notin DOMAIN rows THEN Rendered(CHOOSE p \in Unrendered : key[p] = i)
            ELSE IF ~rows[i].manual /\ \E p \in Results : RowAt(i, p)
            THEN Rendered(CHOOSE p \in Results : RowAt(i, p))
            ELSE rows[i]]
  /\ job' = NoJob /\ UNCHANGED <<transcript, ids>>
--------------------------------------------------------------------------------
(* The administrator's edits, which are refused while a job is active. *)

\* update_transcript: every segment, put in order again; the uuids order ties.
\* (Mutant: a segment sent twice is not refused.)
EditTranscriptTwice(said, order) ==
  /\ job.kind = "none"
  /\ \A k, l \in DOMAIN order : k < l => said[order[k]].start <= said[order[l]].start
  /\ ids' = order /\ transcript' = [k \in DOMAIN order |-> said[order[k]]]
  /\ rows' = [i \in DOMAIN rows |-> [rows[i] EXCEPT !.stale = TRUE]]
  /\ UNCHANGED job
EditTranscript(said, order) ==
  /\ job.kind = "none"
  /\ Ids = {order[k] : k \in DOMAIN order}
  /\ \A k, l \in DOMAIN order : order[k] = order[l] => k = l
  /\ \A k, l \in DOMAIN order : k < l =>
       LET a == said[order[k]]  b == said[order[l]]
       IN a.start < b.start \/ (a.start = b.start /\ a.end <= b.end)
  /\ ids' = order /\ transcript' = [k \in DOMAIN order |-> said[order[k]]]
  /\ rows' = [i \in DOMAIN rows |-> [rows[i] EXCEPT !.stale = TRUE]]
  /\ UNCHANGED job

\* update_translations: all the rows sent, or none of them.
\* (Mutant: the words that were read are not recorded.)
EditRenderingsUnread(written) ==
  /\ job.kind = "none"
  /\ \A i \in DOMAIN written : HasSpan(rows[i])
  /\ rows' = [i \in DOMAIN rows |->
       IF i \notin DOMAIN written THEN rows[i]
       ELSE [rows[i] EXCEPT !.text = written[i], !.manual = TRUE, !.stale = FALSE]]
  /\ UNCHANGED <<transcript, ids, job>>
EditRenderings(written) ==
  /\ job.kind = "none"
  /\ \A i \in DOMAIN written : HasSpan(rows[i])
  /\ rows' = [i \in DOMAIN rows |->
       IF i \notin DOMAIN written THEN rows[i]
       ELSE [rows[i] EXCEPT !.text = written[i], !.source_ja = SpanText(rows[i]),
                            !.manual = TRUE, !.stale = FALSE]]
  /\ UNCHANGED <<transcript, ids, job>>

Next ==
  \/ \E kind \in {"full", "translation"} : Start(kind)
  \/ Fail
  \/ \E n \in 0 .. MaxSegments : \E new \in [1 .. n -> Segments] : PersistTranscript(new)
  \/ PersistTranslation
  \/ \E said \in [Ids -> Segments] :
       \E order \in [DOMAIN ids -> Ids] : EditTranscript(said, order)
  \/ \E some \in SUBSET DOMAIN rows : \E written \in [some -> Writings] : EditRenderings(written)

Spec == Init /\ [][Next]_vars
--------------------------------------------------------------------------------
(* Properties. *)

\* No two renderings start at the same segment (uq_translation_recording_start), and every
\* place is a segment of the transcript, whatever was transcribed and edited: else a carry
\* or a translation would fail on the database's constraint when it commits.
OneRowPerStart ==
  /\ \A i, j \in DOMAIN rows : (Attached(rows[i]) /\ rows[i].first = rows[j].first) => i = j
  /\ \A i \in DOMAIN rows : Attached(rows[i]) =>
       rows[i].first \in Ids /\ rows[i].last \in Ids

\* A rendering that is not flagged is on the words it was made from: what the transcript
\* says between its two segments, in order, is its source_ja.
FreshCoversItsWords ==
  \A i \in DOMAIN rows : ~rows[i].stale =>
    HasSpan(rows[i]) /\ SpanText(rows[i]) = rows[i].source_ja

\* What an administrator wrote is never lost to a job or to an edit of the transcript, and
\* no job writes over it, however often it is detached and carried on.
HandwritingKept ==
  [][\A i \in Manual : /\ i \in DOMAIN rows' /\ rows'[i].manual
                       /\ job.kind # "none" => rows'[i].text = rows[i].text]_vars

\* A hand-written rendering follows its sentence through a transcription that hears the same
\* words at the same moment, however the segments are cut now, unless the words are also
\* near by, or another rendering of them is.
On(r, p) == r.first = ids[p[1]] /\ r.last = ids[p[2]]
Alone(s, p) == \A q \in Sentences(s) :
  TextOf(s, q) = TextOf(s, p) /\ Near(TimeOf(s, q), TimeOf(s, p)) => q = p
Undisputed(i, t) == \A k \in Manual :
  HasMoment(k) /\ rows[k].source_ja = rows[i].source_ja /\ Near(MomentOf(k), t) => k = i
FollowsItsSentence ==
  [][job.kind = "full" =>
       \A i \in Manual : \A p \in Sentences(transcript) : \A q \in Sentences(transcript') :
         /\ ~rows[i].stale /\ On(rows[i], p)
         /\ TextOf(transcript', q) = TextOf(transcript, p)
         /\ TimeOf(transcript', q) = TimeOf(transcript, p)
         /\ Alone(transcript', q) /\ Undisputed(i, TimeOf(transcript, p))
         => (On(rows[i], q))' /\ ~rows'[i].stale]_vars
================================================================================
