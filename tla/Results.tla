-------------------------------- MODULE Results --------------------------------
(***************************************************************************)
(* A recording's transcript, analysis and translations, the jobs that      *)
(* write them and the browser tabs that edit them (worker_runtime.py,      *)
(* recording_service.py, RecordingDetailPage.tsx).  Each of the three has  *)
(* a revision, and a save names the revision it was made from.             *)
(*                                                                         *)
(* A GET is a sequence of statements under READ COMMITTED, so what it      *)
(* returns may have been true at different moments; everything else is one *)
(* transaction that holds the recording's row.  What is written is a       *)
(* version number, new at every write.  The recording is not deleted here. *)
(***************************************************************************)
EXTENDS Integers

CONSTANTS
  Tabs,         \* the browser tabs that show the recording
  Edits,        \* tab -> what it is used to edit
  MaxWrites     \* bound on the writes of a behaviour

Parts == {"words", "rows", "analysis"}

ASSUME ResultsAssumption == MaxWrites \in Nat /\ Edits \in [Tabs -> SUBSET Parts]

VARIABLES
  words,        \* version of the segments; 0 before the first transcription
  rows,         \* version of the translations; 0 when there is none
  analysis,     \* version of the analysis; 0 when there is none
  status,       \* its AnalysisStatus
  about,        \* the segments it was written from, or checked against
  good,         \* whether it holds a result
  rev,          \* transcript_revision, translation_revision, analysis_revision
  job,          \* the active job of the recording: its kind, and what it has loaded
  writes,       \* the last version number
  transcript,   \* tab -> what getTranscript has given it, and how far the request is
  reading,      \* tab -> the same of its analysis
  transcriptDraft,   \* tab -> the copy of the transcript in the open editor, and whether other
                     \* words have been typed into it
  translationDraft,  \* tab -> the revision kept, and (history) what the editor was opened on and
                     \* whether words that are typed only were ever shown beside it
  analysisDraft      \* tab -> (history) the row the editor was opened on, or has saved; or 0

stored == <<words, rows, analysis, status, about, good, rev, writes>>
drafts == <<transcriptDraft, translationDraft, analysisDraft>>
tabVars == <<transcript, reading, transcriptDraft, translationDraft, analysisDraft>>
vars == <<words, rows, analysis, status, about, good, rev, writes, job,
          transcript, reading, transcriptDraft, translationDraft, analysisDraft>>

Kinds == {"none", "full", "analysis", "translation"}
Statuses == {"none", "completed", "skipped", "stale"}

\* The steps of a request: sent, revisions read, segments read, all read and shown.
Transcripts == [step : {"idle", "asked", "revs", "words", "ready"},
                wordsRev : Nat, rowsRev : Nat, words : Nat, rows : Nat, typed : BOOLEAN]
Readings == [step : {"idle", "asked", "revs", "ready"}, rev : Nat, row : Nat, good : BOOLEAN]
Choices == [open : BOOLEAN, rev : Nat, rows : Nat, words : Nat, typed : BOOLEAN]

TypeOK ==
  /\ words \in Nat /\ rows \in Nat /\ analysis \in Nat /\ about \in Nat /\ writes \in Nat
  /\ status \in Statuses /\ good \in BOOLEAN
  /\ rev \in [Parts -> Nat]
  /\ job \in [kind : Kinds, loaded : Nat]
  /\ transcript \in [Tabs -> Transcripts] /\ reading \in [Tabs -> Readings]
  /\ transcriptDraft \in [Tabs -> Transcripts]
  /\ translationDraft \in [Tabs -> Choices] /\ analysisDraft \in [Tabs -> Nat]

NoTranscript == [step |-> "idle", wordsRev |-> 0, rowsRev |-> 0, words |-> 0, rows |-> 0,
                 typed |-> FALSE]
NoReading == [step |-> "idle", rev |-> 0, row |-> 0, good |-> FALSE]
NoChoice == [open |-> FALSE, rev |-> 0, rows |-> 0, words |-> 0, typed |-> FALSE]

\* The upload has queued the transcription.
Init ==
  /\ words = 0 /\ rows = 0 /\ analysis = 0 /\ status = "none" /\ about = 0 /\ good = FALSE
  /\ rev = [p \in Parts |-> 0]
  /\ job = [kind |-> "full", loaded |-> 0]
  /\ writes = 0
  /\ transcript = [t \in Tabs |-> NoTranscript] /\ transcriptDraft = [t \in Tabs |-> NoTranscript]
  /\ reading = [t \in Tabs |-> NoReading] /\ analysisDraft = [t \in Tabs |-> 0]
  /\ translationDraft = [t \in Tabs |-> NoChoice]
--------------------------------------------------------------------------------
(* Jobs.  The claim's fence lets no run write that has lost its job (JobQueue), so a *)
(* job that was taken over is one that starts again or is over. *)

Idle == job.kind = "none"
Writing == writes < MaxWrites /\ writes' = writes + 1
New == writes + 1

\* The hand-off, in the transaction that ends the job; a step may be switched off.
HandOff(next) == \E k \in next : job' = [kind |-> k, loaded |-> 0]

\* Whether the recording's status allows the request is JobQueue's.
Ask(kind) ==
  /\ Idle /\ kind # "none" /\ (kind # "full" => words # 0)
  /\ job' = [kind |-> kind, loaded |-> 0]
  /\ UNCHANGED <<stored, tabVars>>

\* _load_transcript, in a session of its own.
Load ==
  /\ job.kind \in {"analysis", "translation"} /\ job.loaded = 0
  /\ job' = [job EXCEPT !.loaded = words]
  /\ UNCHANGED <<stored, tabVars>>

\* The revisions that a write raises.  (Mutant: the others are lost.)
BumpedOnly(parts) == rev' = [p \in parts |-> rev[p] + 1]
Bumped(parts) == rev' = [p \in Parts |-> IF p \in parts THEN rev[p] + 1 ELSE rev[p]]

\* _result_persister.  Renderings by hand are carried to the new segments, so some may
\* be left, or none (Renderings).
PersistTranscript ==
  /\ job.kind = "full" /\ Writing
  /\ words' = New
  /\ rows' \in (IF rows = 0 THEN {0} ELSE {0, New})
  /\ IF status = "completed"
     THEN status' = "stale" /\ Bumped(Parts)
     ELSE UNCHANGED status /\ Bumped({"words", "rows"})
  /\ UNCHANGED <<analysis, about, good, tabVars>>
  /\ HandOff({"none", "analysis", "translation"})

\* _analysis_result_persister.
PersistAnalysis ==
  /\ job.kind = "analysis" /\ job.loaded # 0
  /\ \/ /\ Writing /\ analysis' = New /\ about' = job.loaded /\ Bumped({"analysis"})
        /\ \/ status' = "completed" /\ good' = TRUE
           \/ ~good /\ status' = "skipped" /\ good' = FALSE
     \/ good /\ UNCHANGED <<analysis, status, about, good, rev, writes>>
  /\ UNCHANGED <<words, rows, tabVars>>
  /\ HandOff({"none", "translation"})

\* (Mutant: the revision is left as it was.)
PersistTranslationSilently ==
  /\ job.kind = "translation" /\ job.loaded # 0
  /\ Writing /\ rows' = New
  /\ UNCHANGED <<words, analysis, status, about, good, rev, tabVars>>
  /\ HandOff({"none"})
\* _translation_result_persister; a skipped run writes no row.
PersistTranslation ==
  /\ job.kind = "translation" /\ job.loaded # 0
  /\ (rows' = New /\ Writing) \/ UNCHANGED <<rows, writes>>
  /\ rev["rows"] < MaxWrites /\ Bumped({"rows"})
  /\ UNCHANGED <<words, analysis, status, about, good, tabVars>>
  /\ HandOff({"none"})

\* The run fails: it is tried again, or given up, and what follows it may be queued.
FailJob ==
  /\ ~Idle
  /\ \/ job' = [job EXCEPT !.loaded = 0]
     \/ HandOff(IF job.kind = "analysis" THEN {"none", "translation"} ELSE {"none"})
  /\ UNCHANGED <<stored, tabVars>>
--------------------------------------------------------------------------------
(* The tabs.  An answer is shown when it is complete; that of a save may be lost, which *)
(* leaves the editor open. *)

Editing(t) == transcriptDraft[t].step = "ready" \/ translationDraft[t].open

\* getTranscript; an open editor of the transcript or of the translations keeps what it
\* shows.
AskTranscript(t) ==
  /\ Edits[t] \cap {"words", "rows"} # {} /\ ~Editing(t)
  /\ transcript' = [transcript EXCEPT ![t] = [NoTranscript EXCEPT !.step = "asked"]]
  /\ UNCHANGED <<stored, job, reading, drafts>>

\* get_transcript: the recording, then its segments, then its translations, the last in
\* another session.  (Mutant: the revisions last.)
ReadTranscriptLate(t) ==
  /\ \/ /\ transcript[t].step = "asked"
        /\ transcript' = [transcript EXCEPT ![t].step = "revs", ![t].words = words]
     \/ /\ transcript[t].step = "revs"
        /\ transcript' = [transcript EXCEPT ![t].step = "words", ![t].rows = rows]
     \/ /\ transcript[t].step = "words"
        /\ transcript' = [transcript EXCEPT ![t].step = "ready",
                           ![t].wordsRev = rev["words"], ![t].rowsRev = rev["rows"]]
  /\ UNCHANGED <<stored, job, reading, drafts>>
ReadTranscript(t) ==
  /\ \/ /\ transcript[t].step = "asked"
        /\ transcript' = [transcript EXCEPT ![t].step = "revs",
                           ![t].wordsRev = rev["words"], ![t].rowsRev = rev["rows"]]
     \/ /\ transcript[t].step = "revs" /\ words # 0
        /\ transcript' = [transcript EXCEPT ![t].step = "words", ![t].words = words]
     \/ /\ transcript[t].step = "revs" /\ words = 0
        /\ transcript' = [transcript EXCEPT ![t] = NoTranscript]
     \/ /\ transcript[t].step = "words"
        /\ transcript' = [transcript EXCEPT ![t].step = "ready", ![t].rows = rows]
  /\ UNCHANGED <<stored, job, reading, drafts>>

\* loadAnalysis, when the tab is opened and at every poll, under an open editor too.
AskReading(t) ==
  /\ "analysis" \in Edits[t]
  /\ reading' = [reading EXCEPT ![t] = [NoReading EXCEPT !.step = "asked"]]
  /\ UNCHANGED <<stored, job, transcript, drafts>>

\* get_analysis_state: the recording, then the analysis.
ReadReading(t) ==
  /\ \/ /\ reading[t].step = "asked"
        /\ reading' = [reading EXCEPT ![t].step = "revs", ![t].rev = rev["analysis"]]
     \/ /\ reading[t].step = "revs" /\ analysis # 0
        /\ reading' = [reading EXCEPT ![t].step = "ready", ![t].row = analysis, ![t].good = good]
     \/ /\ reading[t].step = "revs" /\ analysis = 0
        /\ reading' = [reading EXCEPT ![t] = NoReading]
  /\ UNCHANGED <<stored, job, transcript, drafts>>

\* shownTranscript: the copy in the editor, with what is typed, goes before what was loaded, on
\* the page of the translations too.
Shown(t) == IF transcriptDraft[t].step = "ready" THEN transcriptDraft[t] ELSE transcript[t]

\* The edit buttons.  The editor of the transcript gets a copy, that of the translations shows
\* the transcript there is and keeps only its revision.
EditTranscript(t) ==
  /\ "words" \in Edits[t] /\ transcriptDraft[t].step # "ready"
  /\ transcript[t].step = "ready" /\ transcript[t].words # 0
  /\ transcriptDraft' = [transcriptDraft EXCEPT ![t] = transcript[t]]
  /\ UNCHANGED <<stored, job, transcript, reading, translationDraft, analysisDraft>>
EditTranslations(t) ==
  /\ "rows" \in Edits[t] /\ ~translationDraft[t].open
  /\ Shown(t).step = "ready" /\ Shown(t).rows # 0
  /\ translationDraft' = [translationDraft EXCEPT ![t] =
       [open |-> TRUE, rev |-> Shown(t).rowsRev, rows |-> Shown(t).rows, words |-> Shown(t).words,
        typed |-> Shown(t).typed]]
  /\ UNCHANGED <<stored, job, transcript, reading, transcriptDraft, analysisDraft>>
EditAnalysis(t) ==
  /\ analysisDraft[t] = 0 /\ reading[t].step = "ready" /\ reading[t].good
  /\ analysisDraft' = [analysisDraft EXCEPT ![t] = reading[t].row]
  /\ UNCHANGED <<stored, job, transcript, reading, transcriptDraft, translationDraft>>

\* Words are typed into the transcript's editor, or put back as they were.
TypeTranscript(t) ==
  /\ transcriptDraft[t].step = "ready"
  /\ transcriptDraft' = [transcriptDraft EXCEPT ![t].typed = ~@]
  /\ translationDraft' = [translationDraft EXCEPT ![t].typed =
       translationDraft[t].open /\ (@ \/ ~transcriptDraft[t].typed)]
  /\ UNCHANGED <<stored, job, transcript, reading, analysisDraft>>

CancelTranscript(t) ==
  /\ transcriptDraft[t].step = "ready"
  /\ transcriptDraft' = [transcriptDraft EXCEPT ![t] = NoTranscript]
  /\ UNCHANGED <<stored, job, transcript, reading, translationDraft, analysisDraft>>
CancelTranslations(t) ==
  /\ translationDraft[t].open
  /\ translationDraft' = [translationDraft EXCEPT ![t] = NoChoice]
  /\ UNCHANGED <<stored, job, transcript, reading, transcriptDraft, analysisDraft>>
CancelAnalysis(t) ==
  /\ analysisDraft[t] # 0
  /\ analysisDraft' = [analysisDraft EXCEPT ![t] = 0]
  /\ UNCHANGED <<stored, job, transcript, reading, transcriptDraft, translationDraft>>

\* A save that is not refused: it names the current revision, and no job is active.
\* (Mutant: jobs are not looked for.)
AcceptsAnyway(part, revision) == revision = rev[part]
Accepts(part, revision) == revision = rev[part] /\ Idle

\* update_transcript: what was made from the words is flagged.  The answer holds the
\* segments, and the translations of a session of its own.  (Mutant: the translations'
\* revision is left as it was.)
SaveTranscriptOnly(t) ==
  /\ transcriptDraft[t].step = "ready" /\ Accepts("words", transcriptDraft[t].wordsRev)
  /\ Writing /\ words' = New /\ Bumped({"words"})
  /\ UNCHANGED <<rows, analysis, status, about, good, job, tabVars>>
SaveTranscript(t) ==
  /\ transcriptDraft[t].step = "ready" /\ Accepts("words", transcriptDraft[t].wordsRev)
  /\ Writing /\ words' = New
  /\ rows' = (IF rows = 0 THEN 0 ELSE New)
  /\ status' = (IF analysis = 0 THEN status ELSE "stale")
  /\ Bumped({"words"} \cup (IF rows = 0 THEN {} ELSE {"rows"})
                      \cup (IF analysis = 0 THEN {} ELSE {"analysis"}))
  /\ \/ /\ transcript' = [transcript EXCEPT ![t] =
               [NoTranscript EXCEPT !.step = "words", !.words = New,
                                    !.wordsRev = rev'["words"], !.rowsRev = rev'["rows"]]]
        /\ reading' = [reading EXCEPT ![t] = NoReading]
        /\ transcriptDraft' = [transcriptDraft EXCEPT ![t] = NoTranscript]
        /\ UNCHANGED <<translationDraft, analysisDraft>>
     \/ UNCHANGED tabVars
  /\ UNCHANGED <<analysis, about, good, job>>

\* update_translations: the rows chosen in the editor, with the words they now cover.
SaveTranslations(t) ==
  /\ translationDraft[t].open /\ Shown(t).step = "ready"
  /\ Accepts("rows", translationDraft[t].rev)
  /\ Writing /\ rows' = New /\ Bumped({"rows"})
  /\ \/ /\ transcript' = [transcript EXCEPT ![t] = [NoTranscript EXCEPT !.step = "asked"]]
        /\ translationDraft' = [translationDraft EXCEPT ![t] = NoChoice]
     \/ UNCHANGED <<transcript, translationDraft>>
  /\ UNCHANGED <<words, analysis, status, about, good, job, reading, transcriptDraft,
                  analysisDraft>>

\* update_analysis: the quotes are checked against the segments there are.  The revision
\* is that of the reading the tab has last loaded.
SaveAnalysis(t) ==
  /\ analysisDraft[t] # 0 /\ reading[t].step = "ready"
  /\ Accepts("analysis", reading[t].rev)
  /\ Writing /\ analysis' = New /\ Bumped({"analysis"})
  /\ status' = "completed" /\ about' = words /\ good' = TRUE
  /\ \/ /\ reading' = [reading EXCEPT ![t] =
               [step |-> "ready", rev |-> rev'["analysis"], row |-> New, good |-> TRUE]]
        /\ analysisDraft' = [analysisDraft EXCEPT ![t] = 0]
     \/ analysisDraft' = [analysisDraft EXCEPT ![t] = New] /\ UNCHANGED reading
  /\ UNCHANGED <<words, rows, job, transcript, transcriptDraft, translationDraft>>
--------------------------------------------------------------------------------
Work ==
  \/ \E k \in Kinds : Ask(k)
  \/ Load \/ PersistTranscript \/ PersistAnalysis \/ PersistTranslation \/ FailJob

Tab(t) ==
  \/ AskTranscript(t) \/ ReadTranscript(t) \/ AskReading(t) \/ ReadReading(t)
  \/ EditTranscript(t) \/ TypeTranscript(t) \/ EditTranslations(t) \/ EditAnalysis(t)
  \/ CancelTranscript(t) \/ CancelTranslations(t) \/ CancelAnalysis(t)
  \/ SaveTranscript(t) \/ SaveTranslations(t) \/ SaveAnalysis(t)

Next == Work \/ \E t \in Tabs : Tab(t)

Spec == Init /\ [][Next]_vars
--------------------------------------------------------------------------------
(* Properties. *)

\* A revision stands for what it was read with, although a GET reads the two in different
\* statements: while it is current, the tab shows what is stored.
RevisionTellsContent ==
  \A t \in Tabs :
    /\ transcript[t].step = "ready" =>
         /\ transcript[t].wordsRev = rev["words"] => transcript[t].words = words
         /\ transcript[t].rowsRev = rev["rows"] => transcript[t].rows = rows
    /\ reading[t].step = "ready" /\ reading[t].rev = rev["analysis"] => reading[t].row = analysis

\* README.md: "Transcript and analysis saves use optimistic revisions so two tabs cannot
\* silently overwrite one another".  What a save of the transcript or of the translations
\* replaces is what its editor was opened on, whatever other tabs and jobs did meanwhile.
NoSilentOverwrite ==
  [][\A t \in Tabs :
       /\ SaveTranscript(t) => transcriptDraft[t].words = words
       /\ SaveTranslations(t) => translationDraft[t].rows = rows]_vars
\* The same of the analysis, where the tab may have saved before without an answer.
AnalysisNotOverwritten ==
  [][\A t \in Tabs : SaveAnalysis(t) => analysisDraft[t] = analysis]_vars

\* update_translations records the words there are with a rendering.  As long as nothing that is
\* only typed was shown beside the editor, they are the words it was opened on and the words on
\* the screen when it is saved: no transcript comes between, although only the translations'
\* revision is compared, and although the page takes its words from two places in turn.  Beside
\* words that are only typed the comment there, "recording the words the person actually read",
\* does not hold: they are stored nowhere.
WordsWereRead ==
  [][\A t \in Tabs :
       SaveTranslations(t) /\ ~translationDraft[t].typed =>
         translationDraft[t].words = words /\ Shown(t).words = words]_vars

\* An analysis that is not flagged was written from the words there are now, or checked
\* against them: no edit comes between a job's reading and its result.
FreshIsCurrent == status = "completed" => about = words

\* The last good reading stands until a replacement succeeds.
GoodReadingStands == [][good /\ analysis' # analysis => good' /\ status' = "completed"]_vars
--------------------------------------------------------------------------------
(* The invariant of the proofs: what was read and is not complete, what is shown and what *)
(* the editors hold is right as long as its revision is current. *)

\* Rows that are there vouch for the words as well.
Tells(s) ==
  /\ s.wordsRev <= rev["words"] /\ s.rowsRev <= rev["rows"]
  /\ s.step \in {"words", "ready"} =>
       /\ s.wordsRev = rev["words"] => s.words = words
       /\ s.rowsRev = rev["rows"] => s.words = words \/ rows = 0
  /\ s.step = "ready" /\ s.rowsRev = rev["rows"] => s.rows = rows

TranscriptsTell == \A t \in Tabs : Tells(transcript[t]) /\ Tells(transcriptDraft[t])

ReadingTells(t) ==
  /\ reading[t].rev <= rev["analysis"]
  /\ reading[t].step = "ready" /\ reading[t].rev = rev["analysis"] => reading[t].row = analysis
ReadingsTell == \A t \in Tabs : ReadingTells(t)

ChoiceTells(t) ==
  translationDraft[t].open =>
    /\ translationDraft[t].rev <= rev["rows"] /\ translationDraft[t].rows # 0
    /\ translationDraft[t].rev = rev["rows"] =>
         translationDraft[t].rows = rows /\ translationDraft[t].words = words

ChoicesTell == \A t \in Tabs : ChoiceTells(t)

\* What has been loaded is at least as new as a copy of it in an editor, and neither is older
\* than what the translations' editor was opened on.
NotOlder(t) ==
  LET loaded == transcript[t].step \in {"revs", "words", "ready"}
      copied == transcriptDraft[t].step = "ready"
  IN /\ loaded /\ copied => transcriptDraft[t].rowsRev <= transcript[t].rowsRev
     /\ loaded /\ translationDraft[t].open => translationDraft[t].rev <= transcript[t].rowsRev
     /\ copied /\ translationDraft[t].open => translationDraft[t].rev <= transcriptDraft[t].rowsRev
ScreensAdvance == \A t \in Tabs : NotOlder(t)

JobReadsCurrent == job.loaded # 0 => job.loaded = words /\ job.kind \in {"analysis", "translation"}

NoneYet == analysis = 0 => status = "none"

IInv ==
  /\ TypeOK /\ TranscriptsTell /\ ReadingsTell /\ ChoicesTell /\ ScreensAdvance
  /\ JobReadsCurrent /\ NoneYet /\ FreshIsCurrent
================================================================================
