------------------------------ MODULE DaySummary -------------------------------
(***************************************************************************)
(* The summary of one day (daily_service.py, worker_runtime.py): a model   *)
(* writes it, for minutes, from the analyses the day's recordings had when *)
(* it started, while those recordings are analysed again, transcribed      *)
(* again, edited and deleted.                                              *)
(*                                                                         *)
(* Here the transaction that saves a summary is two steps: FOR UPDATE locks *)
(* the recordings it was written from and compares (Lock), then the row is *)
(* written and the locks go with the commit (Save).  Every other           *)
(* transaction is one step that waits for the lock of its recording.       *)
(* JobQueue has what this module leaves to chance of the job: when a lease *)
(* runs out, and whether a failed attempt is retried.                      *)
(***************************************************************************)
EXTENDS Integers

CONSTANTS
  Recordings,   \* the recordings that start on the day
  Workers,      \* the workers that claim day summaries
  MaxRevision,  \* bound on analysis_revision
  MaxUploads    \* bound on the uploads of one recording

None == "none"
ASSUME DayAssumption == None \notin Workers /\ {MaxRevision, MaxUploads} \subseteq Nat

VARIABLES
  alive,      \* recordings that exist
  working,    \* those with a queued or running job of their own
  analysis,   \* recording -> its Analysis row: none, completed, or any other status
  revision,   \* recording -> analysis_revision
  upload,     \* recording -> how often its id was uploaded (history)
  summary,    \* the readings the day's summary was written from; {} without one
  job,        \* the day's unfinished summary job
  owner,      \* the worker whose claim token it carries
  phase,      \* worker -> where it is with the job
  snapshot    \* worker -> the readings it collected

dayVars == <<alive, working, analysis, revision, upload>>
jobVars == <<job, owner, phase, snapshot>>
vars == <<alive, working, analysis, revision, upload, summary, job, owner, phase, snapshot>>

\* A reading <<r, n, v>> is what revision v of the analysis says of r's n-th upload.
\* source_revisions and the comparison see its Key only.
Readings == SUBSET (Recordings \X (1..MaxUploads) \X (1..MaxRevision))
Key(p) == <<p[1], p[3]>>
Keys(S) == {Key(p) : p \in S}

TypeOK ==
  /\ alive \subseteq Recordings /\ working \subseteq alive
  /\ analysis \in [Recordings -> {"absent", "completed", "other"}]
  /\ revision \in [Recordings -> 0..MaxRevision]
  /\ upload \in [Recordings -> 0..MaxUploads]
  /\ summary \in Readings
  /\ job \in {"none", "queued", "running"} /\ owner \in Workers \cup {None}
  /\ phase \in [Workers -> {"idle", "claimed", "writing", "saving", "failing"}]
  /\ snapshot \in [Workers -> Readings]

Init ==
  /\ alive = {} /\ working = {}
  /\ analysis = [r \in Recordings |-> "absent"]
  /\ revision = [r \in Recordings |-> 0]
  /\ upload = [r \in Recordings |-> 0]
  /\ summary = {} /\ job = "none" /\ owner = None
  /\ phase = [w \in Workers |-> "idle"]
  /\ snapshot = [w \in Workers |-> {}]
--------------------------------------------------------------------------------
\* (Mutant: an outer join.)
AnalysedOrNot == alive
\* _collect without its lock: the analyses a summary of the day is written from.
\* (Every completed one has the description that a digest needs.)
Analysed == {r \in alive : analysis[r] = "completed"}
Collected == {<<r, upload[r], revision[r]>> : r \in Analysed}

\* (Mutant: the rows are read without the lock.)
NoLock == {}
\* FOR UPDATE OF recordings, held until the transaction that took it ends.
Subjects(S) == {p[1] : p \in S}
Locked == UNION {Subjects(snapshot[w]) : w \in {v \in Workers : phase[v] = "saving"}}
--------------------------------------------------------------------------------
(* The recordings of the day, each under its row lock. *)

Free(r) == r \in alive \ Locked
Rest == UNCHANGED <<upload, summary, jobVars>>
\* A new reading of r's transcript, or the old one put aside.
Rewrites(r, reading) ==
  /\ revision[r] < MaxRevision
  /\ revision' = [revision EXCEPT ![r] = @ + 1]
  /\ analysis' = [analysis EXCEPT ![r] = reading]
\* r's job ends here, unless a follow-up takes its place.
JobOf(r) == r \in working /\ (working' = working \/ working' = working \ {r})

\* ingest, with the recording's first job.  The client names the recording, and may
\* upload a deleted one again.
Upload(r) ==
  /\ r \notin alive /\ upload[r] < MaxUploads
  /\ alive' = alive \cup {r} /\ working' = working \cup {r}
  /\ upload' = [upload EXCEPT ![r] = @ + 1]
  /\ UNCHANGED <<analysis, revision, summary, jobVars>>

\* reprocess, reprocess_analysis, reprocess_translation.
Reprocess(r) ==
  /\ Free(r) /\ r \notin working
  /\ working' = working \cup {r}
  /\ UNCHANGED <<alive, analysis, revision>> /\ Rest

\* _analysis_result_persister: a reading, or none where the provider is disabled,
\* which leaves the reading there is alone.
Analyse(r) ==
  /\ Free(r) /\ JobOf(r)
  /\ \/ Rewrites(r, "completed")
     \/ analysis[r] # "completed" /\ Rewrites(r, "other")
     \/ analysis[r] # "absent" /\ UNCHANGED <<analysis, revision>>
  /\ UNCHANGED alive /\ Rest

\* _result_persister: a new transcript makes the reading of the old one stale.
Transcribe(r) ==
  /\ Free(r) /\ JobOf(r)
  /\ IF analysis[r] = "completed" THEN Rewrites(r, "other") ELSE UNCHANGED <<analysis, revision>>
  /\ UNCHANGED alive /\ Rest

\* A job of r ends with no result for the day.
EndJob(r) ==
  /\ JobOf(r)
  /\ UNCHANGED <<alive, analysis, revision>> /\ Rest

\* update_transcript.
EditTranscript(r) ==
  /\ Free(r) /\ r \notin working
  /\ IF analysis[r] = "absent" THEN UNCHANGED <<analysis, revision>> ELSE Rewrites(r, "other")
  /\ UNCHANGED <<alive, working>> /\ Rest

\* update_analysis.
EditAnalysis(r) ==
  /\ Free(r) /\ r \notin working
  /\ Rewrites(r, "completed")
  /\ UNCHANGED <<alive, working>> /\ Rest

\* delete_recording: the day's summary may quote it, so the summary goes as well.
\* Another upload would start with no analysis, at revision 0.
Delete(r) ==
  /\ Free(r) /\ r \notin working
  /\ alive' = alive \ {r}
  /\ analysis' = [analysis EXCEPT ![r] = "absent"]
  /\ revision' = [revision EXCEPT ![r] = 0]
  /\ summary' = {}
  /\ UNCHANGED <<working, upload, jobVars>>
--------------------------------------------------------------------------------
(* The summary job. *)

\* queue_summary.
Ask ==
  /\ job = "none" /\ Analysed # {}
  /\ job' = "queued"
  /\ UNCHANGED <<dayVars, summary, owner, phase, snapshot>>

Claim(w) ==
  /\ phase[w] = "idle" /\ job = "queued"
  /\ job' = "running" /\ owner' = w
  /\ phase' = [phase EXCEPT ![w] = "claimed"]
  /\ UNCHANGED <<dayVars, summary, snapshot>>

\* _process_daily_summary collects the digests in a transaction of its own, and the
\* model starts to write.
Collect(w) ==
  /\ phase[w] = "claimed"
  /\ snapshot' = [snapshot EXCEPT ![w] = Collected]
  /\ phase' = [phase EXCEPT ![w] = "writing"]
  /\ UNCHANGED <<dayVars, summary, job, owner>>

\* (Mutant: no comparison.)
LockUnchecked(w) ==
  /\ phase[w] = "writing" /\ owner = w /\ snapshot[w] # {}
  /\ phase' = [phase EXCEPT ![w] = "saving"]
  /\ UNCHANGED <<dayVars, summary, job, owner, snapshot>>
\* complete() holds the job row, and its persister, matches_revisions, locks the
\* recordings that are analysed now and finds them as they were collected.
Lock(w) ==
  /\ phase[w] = "writing" /\ owner = w
  /\ snapshot[w] # {} /\ Keys(snapshot[w]) = Keys(Collected)
  /\ phase' = [phase EXCEPT ![w] = "saving"]
  /\ UNCHANGED <<dayVars, summary, job, owner, snapshot>>

\* The worker is done with the job, or lost it.
Leave(w) ==
  /\ phase' = [phase EXCEPT ![w] = "idle"]
  /\ snapshot' = [snapshot EXCEPT ![w] = {}]
EndClaim(to) == job' = to /\ owner' = None

\* persist_summary and the commit.
Save(w) ==
  /\ phase[w] = "saving"
  /\ summary' = snapshot[w]
  /\ EndClaim("none") /\ Leave(w)
  /\ UNCHANGED dayVars

\* The day had no analysis left, or the provider is disabled: the job completes and
\* the summary stays.
Skip(w) ==
  /\ phase[w] = "writing" /\ owner = w
  /\ EndClaim("none") /\ Leave(w)
  /\ UNCHANGED <<dayVars, summary>>

\* The model fails; or the day has changed (daily_summary_day_changed); or saving
\* rolls back, and with it the locks.
Raise(w) ==
  /\ phase[w] \in {"claimed", "writing", "saving"}
  /\ phase' = [phase EXCEPT ![w] = "failing"]
  /\ snapshot' = [snapshot EXCEPT ![w] = {}]
  /\ UNCHANGED <<dayVars, summary, job, owner>>

\* fail(), with a retry or without.
Fail(w) ==
  /\ phase[w] = "failing" /\ owner = w
  /\ \E to \in {"none", "queued"} : EndClaim(to)
  /\ Leave(w)
  /\ UNCHANGED <<dayVars, summary>>

\* The process dies, or finds that its claim is gone.
Abandon(w) ==
  /\ phase[w] # "idle"
  /\ Leave(w)
  /\ UNCHANGED <<dayVars, summary, job, owner>>

\* recover_expired: SKIP LOCKED passes a job row by that complete() holds.
Recover ==
  /\ job = "running" /\ \A w \in Workers : phase[w] # "saving"
  /\ \E to \in {"none", "queued"} : EndClaim(to)
  /\ UNCHANGED <<dayVars, summary, phase, snapshot>>
--------------------------------------------------------------------------------
Day(r) ==
  \/ Upload(r) \/ Reprocess(r)
  \/ Analyse(r) \/ Transcribe(r) \/ EndJob(r)
  \/ EditTranscript(r) \/ EditAnalysis(r) \/ Delete(r)

Worker(w) ==
  \/ Claim(w) \/ Collect(w) \/ Lock(w) \/ Save(w) \/ Skip(w)
  \/ Raise(w) \/ Fail(w) \/ Abandon(w)

Next == (\E r \in Recordings : Day(r)) \/ Ask \/ (\E w \in Workers : Worker(w)) \/ Recover

Spec == Init /\ [][Next]_vars
--------------------------------------------------------------------------------
(* Properties. *)

Writes == summary' # summary /\ summary' # {}

\* A recording that does not exist is in no summary: not in one that was being
\* written while it was deleted, nor in one that an abandoned worker brings home late.
NothingDeletedIsQuoted == Subjects(summary) \subseteq alive

\* At the moment a summary is saved, each analysis_revision in it is the one its
\* recording has.
SavedFromCurrent == [][Writes => Keys(summary') \subseteq Keys(Collected)]_vars

\* A summary never goes back: what it says of a recording comes from the same
\* revision of the analysis as before or from a later one.
NeverOlder ==
  [][\A p \in summary, q \in summary' : p[1] = q[1] => q[3] >= p[3]]_vars

\* _daily_summary_persister: "A recording deleted in the meantime must not reappear
\* inside a summary written from it".  What a summary says of a recording was read
\* from the upload that is there, not from one that was deleted.
DeletedDoesNotReturn == [][Writes => \A p \in summary' : p[2] = upload[p[1]]]_vars
--------------------------------------------------------------------------------
(* The inductive invariant. *)

\* Between Lock and Save nothing that was compared can change: one worker at a time
\* saves, under the job row's lock, and its recordings are locked too.
SaverHolds ==
  \A w \in Workers : phase[w] = "saving" =>
    owner = w /\ job = "running" /\ Keys(snapshot[w]) \subseteq Keys(Collected)
\* A claim token is there exactly while the job runs.
OwnerRuns == owner # None <=> job = "running"
\* The revisions of a summary are of the past or of the present.
NoneFromTheFuture == \A p \in summary : p[3] <= revision[p[1]]
\* A summary has one reading of a recording.
OneEach == /\ \A p, q \in summary : p[1] = q[1] => p = q
           /\ \A w \in Workers : \A p, q \in snapshot[w] : p[1] = q[1] => p = q
\* A recording was uploaded, and an analysis has a revision.
Counted == /\ \A r \in alive : upload[r] >= 1
           /\ \A r \in Recordings : analysis[r] # "absent" => revision[r] >= 1

IInv == /\ TypeOK /\ NothingDeletedIsQuoted
        /\ OneEach /\ OwnerRuns /\ SaverHolds /\ NoneFromTheFuture /\ Counted
================================================================================
