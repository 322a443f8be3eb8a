# A verification of the audio server

The server takes voice recordings, transcribes them in worker processes, has language
models analyse and translate the transcripts and summarise each day, and shows the results
in a browser.  This directory holds TLA+ models of it, the TLC runs that check them on small
instances, and theorems that TLAPS proves for every instance.

Paths below are relative to `src/audio_server/` of the repository.

## The system

| Component | State it keeps | Operations | Interacts with |
|---|---|---|---|
| Job queue (`jobs/queue.py`, tables in `db/models.py`) | `processing_jobs`: status, stage, attempts, claim token, lease, `available_at`, `follow_up_kind` | claim_next, heartbeat, advance_stage, complete, fail, recover_expired, the hand-off to the next job of a chain | workers call it; it updates `recordings.processing_status`, runs a result persister inside `complete`, reads the processing settings, appends to the activity log |
| Worker (`jobs/worker.py`) | its claim, the heartbeat thread's `claim_lost` | run, run_once, progress callback, `_record_failure`, `_recover_expired` | queue; processor |
| Supervisor (`jobs/worker.py`) | child processes, stop event | start, stop on a signal or on the exit of a child | compose restarts the container |
| Processor and persisters (`worker_runtime.py`, `processing/pipeline.py`) | none across calls; they write transcripts, analyses, translations, day summaries and their revisions | one per job kind | providers (external models), storage, queue |
| Recording service (`services/recording_service.py`) | `recordings` and everything below them | uploads, edits, retry and reprocessing, deletion | storage, queue tables, bookmarks, day summaries |
| Storage (`services/storage.py`) | originals, staged uploads, quarantine, workspaces on disk | put_original, delete, stage_delete, restore, finalize | recording service |
| Day summaries (`services/daily_service.py`) | `daily_summaries` with `source_revisions` | queue_summary, collect_digests, matches_revisions, persist_summary | queue, persisters, deletion |
| Processing settings (`services/processing_settings_service.py`) | the two switches | update | read by the hand-off |
| Web authentication (`web_auth/`) | administrator, sessions, login attempts | setup, login, logout, session checks, password reset | every browser request |
| Bookmarks, activity log | saved quotes; one event per transition | create, detach; append | deletion; queue |
| Providers (`processing/`) | none across calls; prompts still to come and partial results within one | audio, Whisper, pyannote, and the three conversations with LM Studio | processor; external programs and models |
| Merge, sentences | none | pure functions on segments | processor, translations, edits |
| Recording page (`web/src/pages/RecordingDetailPage.tsx`) | what is loaded, two editors | loads, polls, saves | API |
| HTTP API, middleware, migrations | none of the protocol's | | |

What is hard here, and what would make each part correct:

* **Queue and workers.** Several processes share a table through leases.  A worker may stall
  past its lease, die anywhere, or lose the answer of a commit.  Correct means: a fence that
  lets one holder write, results once, no attempt charged that was not made, no chain step
  lost, one active job per recording and day, and an end for every job.
* **Day summaries.** A model writes for minutes from rows that keep changing.  Correct means
  that what is saved was read from rows that still are as they were.
* **Uploads and deletion.** A file system and a database change together without a common
  transaction, with clients that repeat uploads.  Correct means: no recording without its
  audio, no audio without a recording for ever, no upload acknowledged and lost.
* **Results and edits.** Three revisions per recording guard against edits of something that
  was never seen; an administrator's renderings survive every new transcript.
* **Renderings.** A transcription throws every segment away; what an administrator wrote has
  to find its sentence again, or be kept aside, and must never describe other words.
* **Authentication.** Slow password hashes between a check and what it decides; one
  administrator; a reset that ends every session; row locks taken in opposite orders.
* **Providers.** Whatever a model answers, and however much there is to read: the answer is
  told from a draft as far as its marks allow, a quote is one, no piece of the input is lost, and every run ends.

`PROJECT.json` lists each hazard at its line, with the properties that cover it or the reason
why none does yet.

## Modules

| Module | What it is |
|---|---|
| `JobQueue` | The job table, the requests that fill it and the workers that drain it |
| `RetryPolicy` | The retry delays, a pure function; the runs' retry table is made from it |
| `JobLedger` | What the queue promises, with no leases, tokens, clocks or workers |
| `JobQueueProofs` | Theorems about `JobQueue`, refinement of `JobLedger` included |
| `DaySummary` | One day, its recordings and its summary job |
| `DaySummaryProofs` | Theorems about `DaySummary` |
| `IngestStorage` | Originals on disk and recordings in the database, under uploads and deletions |
| `IngestStorageProofs` | Theorems about `IngestStorage` |
| `Results` | What a recording's jobs and browser tabs write, and the revisions that guard it |
| `ResultsProofs` | Theorems about `Results` |
| `Sentences` | Segments grouped into sentences, a pure function |
| `Renderings` | A transcript and the renderings of its sentences, carried through every change; uses `Sentences` |
| `RenderingsProofs` | Theorems about `Renderings` |
| `WebAuth` | The administrator's account, its sessions and the login limiter |
| `WebAuthProofs` | Theorems about `WebAuth` |
| `Arrangement` | Pure functions: sets put in order, filters and runs |
| `Merge`, `Replies`, `Batches` | Pure functions on it: words and speakers made into rows; replies read for an answer; input cut into prompts |
| `Processor` | One run of a processor on a claimed job, of any kind; uses the four above |
| `AlgorithmProofs` | Theorems about the pure functions, `Sentences` included |
| `ProcessorProofs` | Theorems about `Processor`, from those |
| `MCJobQueue`, `MCDaySummary`, `MCIngestStorage`, `MCResults`, `MCRenderings`, `MCWebAuth`, `MCProcessor` | Instances for TLC |

What one module promises another takes as a step: `JobQueue` sees a processor as something
that reports stages and returns or fails, and `Processor` is that something; `Results` and
`DaySummary` take from `JobQueue` that a run which lost its claim writes nothing; `Results`
has the revisions of the renderings and leaves open which survive a transcription, and
`Renderings` says which and leaves the revisions out.

### JobQueue

An action is one committed transaction, or one step of a worker process between two.  A row
lock with SKIP LOCKED makes the transactions of one job serial; which of the rows SKIP LOCKED
leaves over is a free choice (`ClaimNext` takes any available job, `RecoverExpired` any set
of expired ones, which also stands for its limit of 100).

A job id is `<<root, kind>>`: the request that started a chain and the step of it.  The n-th
claim's token is n, so it is new at every claim, which is all a UUID provides.  Times are
relative to now: `leaseLeft` and `availableIn` count down to zero by `Tick`, where every
comparison of the code has come true.  `commits` and `passedOver` are history, read by
properties only.

| Model | Code |
|---|---|
| `Ingest`, `Reprocess`, `QueueSummary`, `DeleteRecording` | the upload's transaction; `_enqueue_processing` for retry and the three reprocess requests; `queue_summary`; `delete_recording` |
| `UpdateSettings` | `ProcessingSettingsService.update` |
| `ClaimNext` | `claim_next` |
| `Heartbeat`, `Progress` | the heartbeat thread; the progress callback with `advance_stage` |
| `Finish`, `ProcessorFails`, `SaveFails`, `Discard` | the branches of `run_once` and `_record_failure` |
| `Complete`, `Fail`, `RecoverExpired` | the three ways a run ends; all through `Settle` |
| `Settle` | the columns, the recording's status and the follow-up, in one transaction |
| `Crash`, `Start` | the process dies at any point; the container starts it again, and it recovers expired leases before it claims |

`Complete` may end in `failing`: the commit succeeded and its answer was lost.

### DaySummary

The transaction that saves a summary is split in two, because its locks are the point: `Lock`
takes the recordings' rows and compares, `Save` writes and commits.  Every other transaction
is one step and waits for the row it needs (`Free`).  A reading `<<r, n, v>>` is revision `v`
of the analysis of the n-th upload of `r`; the code sees `<<r, v>>` (`Key`).  The job is
reduced to queued, running and its owner: when a lease runs out, and whether a failure is
retried, is left to chance, since `JobQueue` has them.  Recordings whose analysis is absent,
stale or skipped are told from completed ones, because only the latter are collected.

### IngestStorage

The file system and the database share no transaction, and no lock spans the two; every call
that reads or writes one of them is a step, and a request may stall, fail or lose its answer
at each.  An upload runs `Look` (staged, valid, `_find_duplicate`), `Put` (`put_original` at
its key or at the duplicate's), `Insert` (the commit, or an IntegrityError), and after an
IntegrityError `LookAgain`, `Check` and `Unlink` (`_delete_if_unreferenced`); a browser
upload that raises after it published goes through `Undo`.  A deletion is `Stage` (row lock,
active-job check, `stage_delete`), `Commit`, `Finalize`; or `RollBack`, `Restore`.
`LoseAnswer` is a commit whose answer is lost, `Fails` and `StageFails` a call that raises
before or after its effect, `Crash` the end of the API process with every request in it.

The uploads are given: two with the same key are two tries of one upload, two with the same
`Audio` agree in device, hash and size, which is what the duplicates are told by.  A row is
the upload that inserted it.  A staged file is private to its request and left out.  Of the
jobs of a recording only whether one is active matters (`EndJob`, `Reprocess`).

Three cases the code does not exclude lose or keep a file whatever it does later, so the
model marks the audio in `unguarded`, a history variable, and the properties speak of the
rest: a deletion that overlaps an upload of the same audio (`storage_delete` shows it), an id
with two different audios in use, a browser upload whose commit went unnoticed: its clean-up
unlinks the original of a recording that is stored and queued.  What is by design and no property forbids: the original of a device
upload whose insertion failed stays, for a retry to adopt; a deletion that fails half way
leaves the original in quarantine, where nothing looks for it; so does a crash between
`Stage` and `Commit`, until a retry of the upload publishes the audio again; and a failed
`Finalize` is answered like a successful one.

### Results

One recording's segments, translations and analysis, each with its revision, the job that is
active on it and the browser tabs that show it.  What is written is a version number, so that
two writes are never alike; the words an analysis is about, and those a reviewer was shown
with a rendering, are versions of the segments.

| Model | Code |
|---|---|
| `PersistTranscript`, `PersistAnalysis`, `PersistTranslation` | the three persisters of `worker_runtime.py`, with the hand-off of the same transaction |
| `Load`, `FailJob`, `Ask` | `_load_transcript` before the model is called; the end of a failed run; a request for a job |
| `AskTranscript`, `ReadTranscript` | a GET: the recording, the segments, and in a session of its own the translations |
| `AskReading`, `ReadReading` | the same of the analysis, which a poll also loads under an open editor |
| `EditTranscript`, `EditTranslations`, `EditAnalysis`, `Cancel...` | the editors of `RecordingDetailPage.tsx`, with the copy or the revision each keeps |
| `TypeTranscript`, `Shown` | words are typed into the transcript's editor, or put back; the page shows that copy before what it has loaded, in the translations' list too |
| `SaveTranscript`, `SaveTranslations`, `SaveAnalysis` | the three PUT requests; their answer may be lost |

A write is one transaction that holds the recording's row.  A transcription may keep some of the
renderings or none, which is a choice here.  The times at which the page polls are left
open.  Of what is typed only matters whether it is other words than were loaded, and whether
such words were ever beside an open translations' editor (`typed`, history in the latter).  An
answer that arrives is shown at once.  The recording is not
deleted; that a new one under its id starts its revisions again is `day_return`'s subject.
`WordsWereRead` excepts a translations' editor beside which typed words were shown, and there
the code does not do what its comment says (`recording_service.py:823-826`, "recording the
words the person actually read"): with both editors of a tab open a rendering is made beside
words that are stored nowhere, and recorded, unflagged, with those that are stored
(`EditTranscript`, `TypeTranscript`, `EditTranslations`, `SaveTranslations`).  Saved later, the
typed words flag it; cancelled, they leave it unflagged on words its author did not have on
the screen.

Not covered by a property either, and as the code has it: a transcription raises the analysis'
revision only if the analysis was `completed`, so an edit of one that was already stale may
be saved after it, with its quotes checked against the new segments.

### Renderings

A segment's number is its place in the transcript and its text a sequence of words; a
rendering has the span of segments it is on, the words it was made from, and the flags
`manual` and `stale`.

| Model | Code |
|---|---|
| `Start`, `Fail` | a job reads the transcript; it fails |
| `PersistTranscript` | `_result_persister`: capture, replace, carry (`Carried`), in one transaction |
| `Candidates`, `Matches` | `_unique_match` in both directions: the rendering's moment has one sentence near it with its words, and that sentence has one rendering |
| `PersistTranslation` | `_write_translations`: fresh rows for sentences without one by hand |
| `EditTranscript` | `update_transcript`: words, speakers and order change, renderings on changed words are flagged |
| `EditRenderings` | `update_translations`: each edited span gets the words it has now |

An edit under an old revision is a stutter, since `Results` has the revisions.  As the code
has it, a rendering that found no sentence stays detached: no later transcription attaches it
again, although its words may be back.

### WebAuth

A request is a sequence of statements.  A transaction keeps its row locks until its commit,
which is its last step, and a slow password hash lies between two steps.  `SetupCheck` and
`SetupInsert`, `LoginCheck` to `LoginClear`, `Resolve` and `Touch`, `LogoutSession` to
`LogoutEnd`, `ResetUser` to `ResetCommit` are the statements of the five operations; the
reset runs from the command line, in a process of its own.  `Stuck` and `Deadlock` are a
logout that holds its session and waits for the administrator while a reset holds the
administrator and waits for the session: PostgreSQL rolls one back.  `Restart` loses the
requests of the API and its limiter, which is in memory.  A password is a number, new at
every setup and reset, and a session records the one it was opened with, which no column
does: it is what `SessionsOfPassword` is about.  The limiter's failures are ages in ticks,
and the order of its dictionary is a relation, `older`, for the eviction.

### Processor

A run goes through the stages of a transcription, or connects to LM Studio, asks its prompts
one by one, reduces what it has got until one result is left, and concludes.  It ends with a
result, skipped, with a failure that may be retried or not (a `ProviderConfigurationError`
may not), or with the loss of its claim, which a stage callback reports.

| Model | Code |
|---|---|
| `Refuse`, `LoseClaim` | `PipelineJobProcessor.__call__`; the stage callback |
| `Preprocess`, `Transcribe`, `Diarize`, `Reconcile` | the four stages of `ProcessingPipeline.run` with `_execute_stage`, and the conversion and validation of what the models return |
| `Skip`, `Connect`, `Unanswered` | the disabled providers and empty inputs; `require_single_loaded_model`; `classify_lmstudio_failure` |
| `Answer`, `Blank`, `Reduce`, `Conclude` | `_respond` and `_render`; the loops of `analyze`, `translate` and `summarize`; grounding and the stored result |
| `Merge`: `ChooseSpeaker`, `HasSimultaneousSpeech`, `AssignWords`, `MergeTranscript` | `processing/merge.py` |
| `Replies`: `InsideReasoning`, `ObjectsIn`, `Payload` | `structured_payload` and what it calls |
| `Batches`: `Cut`, `GroupDrafts`, `PieceSizes` | `chunk_transcript`, `_chunk_digests`, the two `_group_drafts` |
| `Arrangement`: `Arranged`, `Kept`, `Runs` | the `sorted` calls, the filters and `_group_by_speaker` of all three |

What the code builds in a loop is stated by what comes out of it where that is shorter: a sorted
list is the arrangement of a set, a filtered one the kept places, a list of groups the places
where a group starts.  That is also the form the proofs can work with.

A text is its length in a prompt; a reply is a sequence of marks and objects, each of which
fits the schema or does not and may quote a mark; a quote names a segment and has words that
are in it or not.  One list of quotes stands for an analysis' expressions and highlights, and
for a summary's points.  The caps of 20 and 12 in `_to_result` never bite, as the draft's
schema has them too.  The workspace belongs to one claim token and is left out.

`ReplyIsTheAnswer` has two references, since the marks of a reply can be read in two ways.
`Thought` reads a quoted mark like any other, as the code has to; `DraftsOnlyAfterQuoting`
tells quoted marks from real ones, and says what is left: a draft from a block that is still
open is taken only if the model has quoted the close mark before it and neither closes nor
quotes it afterwards.  The comment on `_inside_reasoning` names that reply as the one that no
reading can settle; the model has it, and the draft is taken.

A prompt's load is counted as the code counts it, which leaves out what joins partial results
(`daily_summary.py:296`, `analysis.py:596`): three or more of them may exceed `chunk_chars` by
a few characters in the prompt that is sent.

What the model shows and no property forbids: a reduce pass need not halve the partial
results, as the comment on `MAX_REDUCE_PASSES` says: two that share a prompt between two
that are too large for one become three, and a long day of such results ends in
`lmstudio_daily_summary_not_converging`.  A quote of white space only is in every segment and
then fails the analysis for good; a word without a time is dropped when others of its
segment have one; a reply whose answer comes before a close mark it does not open, or quotes
one after its thinking, is refused, which the repository's tests want.

## Runs

| Run | Instance | Shows |
|---|---|---|
| `queue_retries` | 1 request, 2 workers, 2 attempts, lease 2, 2 stages | the fence, results once, the chain, the budget, the refinement of `JobLedger` |
| `queue_requests` | 2 requests, 2 workers, 1 attempt, lease 1 | one active job per target, the recording mirrors its job, jobs by hand run alone |
| `queue_liveness` | 1 request, 1 transcription and 1 LLM worker, 2 attempts, lease 1 | every job ends |
| `day_summary` | 2 recordings, 2 workers, 2 revisions, 2 uploads each | nothing deleted is quoted, saved as it is, never older |
| `day_return` | the same with 1 worker | **violated**: a deleted recording can come back into a summary |
| `storage` | 3 of 7 uploads (retry, other start time, other id, other audio under the id, one browser file twice), 1 deletion | recordings keep their audio, no second copy, what was acknowledged is stored |
| `storage_delete` | 2 tries of one upload, 1 deletion | **violated**: a late try leaves the audio of a deleted recording |
| `edits` | 2 tabs, one on transcript and translations, one on the analysis, 4 writes | a save replaces what its editor was opened on; renderings are recorded with the words they were shown with, unless typed ones were shown; an unflagged analysis is about the present words |
| `edits_analysis` | 1 tab on the analysis, 4 writes | **violated**: a save of the analysis replaces one that the editor never showed |
| `renderings` | 2 segments of 5 kinds, 2 renderings | what is written by hand is kept and follows its sentence; one rendering per start; no unflagged rendering on words it was not made from |
| `web_auth` | 2 requests at a time, 2 sessions, 2 addresses, limit 1, 2 passwords | no session outlives its password, one setup, the limiter's bound, every request is answered |
| `processing` | words of 10 kinds and turns of 10, 2 at a time; every reply of up to 4 tokens and 2 kinds of mark; inputs of up to 4 pieces, 2 passes | the transcript is faithful, prompts cover the input, the answer is the answer by the marks and no draft unless a quoted close mark makes it look like one, quotes are quotes, every run ends |

Why the bounds are enough for the interesting cases: two workers give a stalled holder and
its successor, and two attempts give each a run of its own as well as the end of the budget.
A chain is three jobs of one request, so one request already has hand-offs, and two compete.
A lease of two ticks can be renewed half way; two stages make a report that is not the first.
Two revisions and two uploads are the least that can be confused.  `MaxRevision` and
`MaxUploads` bound counters that the code lets grow; `queue_liveness` bounds nothing else
than the others, since the attempt budget bounds the runs of a job.  Three uploads are a
winner, a loser that has to clean up, and one that arrives while it does; `MaxUploads`
bounds them because an upload, once answered, is not used again.  Four writes are a
transcription, its translation (or analysis), the change that comes in between, and the save
that must not overwrite it; `Edits` says which tab edits what, since all three in both tabs
are too many states for one run.  Two segments are a sentence in one piece and in two, by one
speaker and by two, with the same words near by and far apart; two renderings can claim one
sentence, and one can be detached while the other is written.  Two requests of `web_auth` are every race of
two operations; its limiter of one entry for two addresses has to evict.  In `processing`
`MaxPasses` and `GroupCap` are 2 and 3 instead of 6 and 8, so that both are reached; the
timeline has four ticks, in which a word can touch, straddle, miss and lie inside a turn; and
since what a model may reply is drawn before the run, a run gives every reply of its kind.
The full set of replies goes to a translation of one sentence, the others get one that fits
and one that does not.

`queue_retries` and `queue_requests` use symmetry of requests and workers, `day_summary` of
recordings and workers, `renderings` of rows; the runs with liveness use none.  The day's runs say
`CHECK_DEADLOCK FALSE`: a day whose recordings are deleted for good really stops.  So do the
storage runs, whose requests are all answered in the end, and `processing`, whose runs end.

**Fairness.**  `queue_liveness` (`FairSpec` of `JobQueue`): time passes.  A stopped worker is
started again (`restart: unless-stopped` in `compose.yaml`).  A worker that is up takes its
loop's next step, and its processor returns or raises in the end.  Claims and complete
recoveries are strongly fair, since a worker that crashes again and again has them enabled
again and again only.  Nothing says that a worker does not crash.

`web_auth` (`FairSpec` of `WebAuth`): the server goes on with each request, strongly, because
PostgreSQL serves the waiters of a row in turn; and it detects a deadlock (`deadlock_timeout`).
Nobody has to ask for anything, and sessions need not expire.

`processing` (`Spec` of `Processor`): a run takes its next step.  LM Studio's calls and
ffmpeg's have timeouts; that Whisper and pyannote return is an assumption, as nothing bounds
them.  `EveryRunEnds` is then about the loops of the providers, and is the assumption
`queue_liveness` makes of its processor.

**Findings.**  All three violations are of what a comment or the repository's README says.
`day_return` has little consequence: it takes a deletion, another
upload under the same id and an analysis while one model call lasts.  That of the storage
matters more: audio that was to be removed for good stays on disk.  In `edits_analysis` a
draft made before a job's new analysis, or another tab's, is saved over it after the page
has reloaded it behind the editor; the translations' editor keeps its revision for that
reason, and the transcript's is a copy that includes it.

## Proofs

`JobQueueProofs` proves for any requests, recordings, days, workers, kinds per worker,
lease, attempt budget, retry table and stages (`NamesAssumption`, `BoundsAssumption`) that
`IInv` is inductive, and from it every safety property the runs check, the action properties
and the refinement.  The safety properties are not inductive by themselves.  What they need:

* `TokenIsAttempt`, `ClaimsLive`, `ClaimsDistinct`: a row's token is its attempt count while
  it runs and NULL otherwise, and a claim's token never exceeds that count.  So a claim
  whose row was taken over can never match again: `OneOwner`, `OneResult`.
* `LostIsLost`, `StageIsOwners`, `QueuedHasAttempts`: a claim is reported lost only when it
  is, a stage is the owner's last report, a queued job has an attempt left.  They are part of
  the invariant, so the proofs are all that says them.
* `ChainPending`: what lies behind an unfinished job has neither a job nor a note that it was
  skipped, so a hand-off never finds its place taken: `ChainAccounted`, `ManualRunsAlone`.
* `RootsFit`, `AttemptsCounted`: unused requests have no jobs, rows that run were claimed.

The step lemmas go by what a step does to the table: nothing (`Quiet`), an insertion, a
deletion, a claim, or the end of runs (`Settles`, which takes `complete`, `fail` and
`recover_expired` together).  The refinement maps every column to the ledger's
(`LedgerState`), and shows that each of those kinds of step is a ledger step for each job.

`DaySummaryProofs` proves its own `IInv` inductive from `DayAssumption`.  The heart is
`SaverHolds`: from `Lock` to `Save` the saver owns the running job and what it compared is
still there, since every step of a recording needs a row the saver holds.

`IngestStorageProofs` proves the three properties of `storage` for any uploads, keys, audio
and deletions, from `UploadAssumption` (a key contains the id, a browser upload's id is its
own).  Its `IInv` says of guarded audio that what a request found out is still so when it
acts on it: the row an IntegrityError ran into stays until the loser is done
(`WinnerStays`), so the file a loser unlinks is never the winner's; what was published is
there while its row can still be inserted (`PublishedStays`); no deletion that may commit
overlaps an upload (`Apart`).  One lemma per action shows what it does to each part of the
state (`Effects`), and one lemma per conjunct uses only that.

`ResultsProofs` proves the properties of `edits` for any tabs and any
number of writes, from `ResultsAssumption`, and that a run without a result never replaces a
good analysis (`LastGoodReadingStands`).  The one fact behind them is `StepRaises`: a step
that changes a part raises its revision, and one that changes the words raises that of the
translations too unless there are none.  So whatever was read under a revision that is still
current is still right (`StillTell`), also while the answer is incomplete (`Tells`), and an
accepted save knows what it replaces.  The words on the screen may come from the transcript's
editor or from what was loaded since; `ScreensAdvance`, which rests on `StepAdvances`, says
that neither is older than what the translations' editor was opened on, so under a current
revision both are the stored words.

`RenderingsProofs` proves from `SentencesAssumption` and `RenderingsAssumption`, for any
segments, window and number of renderings, that the unique index on a rendering's start and
its foreign keys are never hit, that an unflagged rendering has the words it was made from,
that what was written by hand survives every step (`HandwritingKept`), and that it goes where
its sentence goes (`FollowsItsSentence`).  The heart is that `Matches` is one to one: a
sentence claimed by two renderings is given to neither.  Following needs the invariant too:
only because an unflagged rendering covers its words is its `source_ja` what the new
transcript is searched for.

`WebAuthProofs` proves from `WebAuthAssumption` that a live session was opened with the
present password, that one setup succeeds, that a request which comes after the end of its
session is refused, and the limiter's bound, for any requests, sessions and addresses.
Its `IInv` says that a request past `LoginRead` with the right password holds the
administrator's row and has read the present password, so a reset has to wait for it or finds
its session to end.

`AlgorithmProofs` proves what the pure functions compute, for inputs of any size:

* `CutIs`, `GroupDraftsIs`: batches tile the items, keep to the budget or cannot, and the
  groups of two or more partial results are fewer than those.
* `InsideReasoningIsThought`, `PayloadIs`: `InsideReasoning`, which compares the last marks
  before and after an object, is the reference reading `Thought` (a block opened before the
  object closes after it, or never), and what is taken from a reply is the last answer by it.
* `DraftsArePassedOver`: with quoted marks told from real ones, an object that
  `InsideReasoning` does not pass over is a draft only in the case its comment excepts.
* `MergeTranscriptIsFaithful`: from segments and turns that do not end before they start, the
  transcript is `Faithful`.  `ChooseSpeakerIs` and `SimultaneousSpeechIs` show that the code's
  comparisons of intervals say what is heard tick by tick; `AssignWordsIs` and
  `GroupBySpeakerIs` follow words through the sort into runs; `SegmentRowsAre` has the rows
  of one segment, and `FlattenSeqIs` traces every row of the whole back to its segment.
* `SentencesTile`: every segment is in exactly one sentence, of one speaker, with a terminator
  at its end only, no longer than allowed, and as long as allowed.

The library's induction theorems take an operator, which no backend here instantiates, and
what these functions compute needs induction all the same: recursive functions, folds over
sequences, sorted sets.  So induction is made from a set.  Strict inclusion on the subsets of
a finite set is well founded (`FS_StrictSubsetOrderingWellFounded`, which takes none), so a
family of subsets has a smallest one (`SmallestSubset`), a finite totally ordered set a last
member (`LastMember`), and a set of places that has the first one and the next of each of its
members has them all (`PlaceByPlace`).  With it, a function defined by its value at the place
before exists and is typed (`RecursionDefines`), a finite set has an arrangement
(`ArrangementExists`), and FlattenSeq is concatenation (`FlattenSeqIs`).

`ProcessorProofs` proves from `ProcessorAssumption` and these results that every invariant of
`processing` holds for any inputs, models, budget and caps.  `TypeOK` is inductive; the other
four are not, and each has its own invariant:

* `PromptsInv`: the spans of what is answered followed by those of what is still asked tile
  the input.  An answer moves a span from the head of the one to the end of the other; a pass
  replaces all spans by those of the groups, and groups that tile the spans of a tiling tile
  what it tiles (`TilesOfTiles`).
* `QuotesInv`: nothing is quoted before the end, and then `QuotesOf` keeps each grounded quote
  once (`KeptOnce`).  A quote without words is in every segment; that it never reaches a
  result rests on the refusal in `Conclude`, which the proof uses.
* `RepliesInv`: the model's replies are typed, and what is taken is read from the last one.
* `MergeInv`: what is about to be merged has passed the checks of the conversion, so
  `MergeTranscriptIsFaithful` applies; without `Valid` in `Transcribe` it would not.

`PassesShrink` is proved as well: every pass over partial results asks for fewer than it was
given, whatever their sizes.  It is the descent that makes the loop of `analyze`, which has no
ceiling on its passes, end; no run checks it by itself, since `EveryRunEnds` fails without it.

Each component's module proves its `TypeOK` (`TypeCorrect`) too.

With these, every invariant, every action property and the refinement of the passing runs
are proved for all values of the constants.  Only model-checked: `EveryJobEnds`,
`EveryRequestEnds` and `EveryRunEnds`, since liveness under fairness is
out of the prover's reach; the retry table made from `RetryPolicy`; the violations.

## Not modelled

HTTP routing, validation and headers, the frontend beyond the recording page, configuration
and migrations have no protocol of their own, nor do the models and programs the providers
call.  Bookmarks and the activity log are rows written in transactions that other modules
have; they are in the plan.  A lock cycle between `recover_expired` and a day summary's
transaction, and the tie of two requests at the unique index, need transactions in steps and
are in the plan too: `Enqueue` checks and inserts in one step, so `OneActivePerTarget` takes
for granted that the partial unique index settles a tie, and is about the checks and the order
in which a hand-off ends its own job and inserts the next.

## Plan

In this order, the first seven rows done:

| Module | Subject | Runs and properties | Theorems |
|---|---|---|---|
| `JobQueue`, `JobLedger` | queue, chain, workers | see above | invariant, refinement |
| `DaySummary` | day summaries | see above | invariant, action properties |
| `IngestStorage` | publication, deduplication, deletion through quarantine, crashes between disk and database | see above | invariant, action property |
| `Results` | transcript, analysis and translation revisions, edits from two tabs, persisters | see above | invariant, action properties |
| `Renderings`, `Sentences` | how a transcription carries the renderings written by hand, sentence by sentence | see above | invariant, action property |
| `WebAuth` | setup, sessions, reset, login limiter, row locks | see above | invariant |
| `Processor`, `Merge`, `Replies`, `Batches` | what a run does between the claim and its result | see above | invariants, prompts, replies, the merge, sentences |
| `JobTransactions` | row locks and READ COMMITTED under enqueue, complete, recover | 2 transactions; the unique index is never reached, lock cycles | implements `JobQueue`'s Enqueue |
| `RequestGuard` | the limits and waits of the middleware on a request's body | 2 requests; a slow client holds no slot for ever | the slots' bound |
| `Supervisor`, `ActivityLog`, `Bookmarks` | the remaining small protocols | | |
