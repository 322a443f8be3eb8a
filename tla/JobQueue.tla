------------------------------- MODULE JobQueue --------------------------------
(***************************************************************************)
(* The durable processing-job queue (jobs/queue.py), the workers that      *)
(* drain it (jobs/worker.py) and the requests that put jobs in it          *)
(* (recording_service.py, daily_service.py).                               *)
(*                                                                         *)
(* One action is one committed PostgreSQL transaction, or one step a       *)
(* worker process takes on its own between two of them.  Row locks and     *)
(* SKIP LOCKED make the transactions of one job row serial; what SKIP      *)
(* LOCKED leaves to chance (which of the available rows a claim gets,      *)
(* which of the expired rows one recovery sees) is a free choice here.     *)
(*                                                                         *)
(* Times are relative to now: leaseLeft[j] is lease_expires_at - now and   *)
(* availableIn[j] is available_at - now, both floored at zero, where every *)
(* comparison the code makes has already come true.  Tick is one unit of   *)
(* time passing for everybody.                                             *)
(*                                                                         *)
(* A job id is a pair <<root, kind>>: the request that started a chain of  *)
(* jobs, and the step of that chain.  The code draws a UUID for each.      *)
(***************************************************************************)
EXTENDS Integers, FiniteSets, Sequences

CONSTANTS
  Roots,        \* requests that enqueue a job, each used at most once
  Recordings,   \* recording ids
  Days,         \* days a summary can be asked for
  DayOf,        \* the day each recording started on
  Workers,      \* worker processes
  WorkerKinds,  \* WORKER_JOB_KINDS: the kinds each worker claims
  MaxAttempts,  \* max_attempts of every job
  Lease,        \* lease_duration
  MaxDelay,     \* longest retry delay
  RetryDelay,   \* RetryPolicy.delay_after, as a table over attempt counts
  FullStages    \* stages a transcription reports, in order
                \* (the pipeline's are preprocessing, transcribing, diarizing, merging)

Kinds == {"full", "analysis", "translation", "daily_summary"}
None == "none"
Jobs == Roots \X Kinds
Targets == Recordings \cup Days

ASSUME NamesAssumption ==
  /\ None \notin Targets \cup Roots
  /\ Recordings \cap Days = {}
  /\ WorkerKinds \in [Workers -> SUBSET Kinds]
  /\ DayOf \in [Recordings -> Days]
ASSUME BoundsAssumption ==
  /\ MaxAttempts \in Nat \ {0}
  /\ Lease \in Nat \ {0}
  /\ MaxDelay \in Nat
  /\ RetryDelay \in [1..MaxAttempts -> 0..MaxDelay]
  /\ Len(FullStages) \in Nat \ {0}
  /\ \A n \in 1..Len(FullStages) :
       FullStages[n] \notin {"queued", "completed", "analyzing", "translating"}

VARIABLES
  \* PostgreSQL
  target,       \* root -> the recording or day it is about, None while unused
  recStatus,    \* recording -> processing_status, or absent/deleted
  status,       \* job -> status, or absent/deleted
  stage,        \* job -> stage
  followUp,     \* job -> follow_up_kind
  attempts,     \* job -> attempt_count
  token,        \* job -> claim_token; the n-th claim's token is n, NULL is 0
  leaseLeft,    \* job -> lease_expires_at - now
  availableIn,  \* job -> available_at - now
  auto,         \* processing_settings: auto_analysis, auto_translation
  \* history, read by properties only
  commits,      \* job -> how often its results were persisted
  passedOver,   \* root -> chain steps skipped because their switch was off
  \* worker processes
  phase,        \* worker -> where run()/run_once() is
  claim,        \* worker -> <<job, claim token>> of its latest claim, or NoClaim
  step,         \* worker -> stages reported so far for that claim
  lost,         \* worker -> the heartbeat thread's claim_lost event
  retryable     \* worker -> JobFailure.retryable of the failure being recorded

recVars == <<target, recStatus>>
jobVars == <<status, stage, followUp, attempts, token, leaseLeft, availableIn>>
history == <<commits, passedOver>>
workerVars == <<phase, claim, step, lost, retryable>>
vars == <<target, recStatus, status, stage, followUp, attempts, token, leaseLeft,
          availableIn, auto, commits, passedOver, phase, claim, step, lost, retryable>>
--------------------------------------------------------------------------------
NoClaim == <<<<None, "full">>, 0>>

JobStatus == {"queued", "processing", "completed", "failed"}
RecordingStatus == {"queued", "processing", "completed", "failed"}
Stages == {"queued", "completed", "analyzing", "translating"}
            \cup {FullStages[n] : n \in 1..Len(FullStages)}
Switches == {"analysis", "translation"}

TypeOK ==
  /\ target \in [Roots -> Targets \cup {None}]
  /\ recStatus \in [Recordings -> RecordingStatus \cup {"absent", "deleted"}]
  /\ status \in [Jobs -> JobStatus \cup {"absent", "deleted"}]
  /\ stage \in [Jobs -> Stages]
  /\ followUp \in [Jobs -> Switches \cup {None}]
  /\ attempts \in [Jobs -> 0..MaxAttempts]
  /\ token \in [Jobs -> 0..MaxAttempts]
  /\ leaseLeft \in [Jobs -> 0..Lease]
  /\ availableIn \in [Jobs -> 0..MaxDelay]
  /\ auto \in [Switches -> BOOLEAN]
  /\ commits \in [Jobs -> Nat]
  /\ passedOver \in [Roots -> SUBSET Switches]
  /\ phase \in [Workers -> {"down", "starting", "idle", "busy", "saving", "failing"}]
  /\ claim \in [Workers -> (Jobs \X (1..MaxAttempts)) \cup {NoClaim}]
  /\ step \in [Workers -> 0..(Len(FullStages) + 1)]
  /\ lost \in [Workers -> BOOLEAN]
  /\ retryable \in [Workers -> BOOLEAN]

Init ==
  /\ target = [r \in Roots |-> None]
  /\ recStatus = [r \in Recordings |-> "absent"]
  /\ status = [j \in Jobs |-> "absent"]
  /\ stage = [j \in Jobs |-> "queued"]
  /\ followUp = [j \in Jobs |-> None]
  /\ attempts = [j \in Jobs |-> 0]
  /\ token = [j \in Jobs |-> 0]
  /\ leaseLeft = [j \in Jobs |-> 0]
  /\ availableIn = [j \in Jobs |-> 0]
  /\ auto \in [Switches -> BOOLEAN]
  /\ commits = [j \in Jobs |-> 0]
  /\ passedOver = [r \in Roots |-> {}]
  /\ phase = [w \in Workers |-> "down"]
  /\ claim = [w \in Workers |-> NoClaim]
  /\ step = [w \in Workers |-> 0]
  /\ lost = [w \in Workers |-> FALSE]
  /\ retryable = [w \in Workers |-> FALSE]
--------------------------------------------------------------------------------
(* Reading the tables. *)

TargetOf(j) == target[j[1]]
KindOf(j) == j[2]
Active(j) == status[j] \in {"queued", "processing"}
ActiveOn(t) == {j \in Jobs : TargetOf(j) = t /\ Active(j)}

\* (Mutant: the fence without its claim token.)
OwnsRowByStatus(j, t) == status[j] = "processing"
\* _lock_owned_job and the WHERE clause of heartbeat and advance_stage: the
\* fence every write of a worker passes.
OwnsRow(j, t) == status[j] = "processing" /\ token[j] = t
InJob(w) == phase[w] \in {"busy", "saving", "failing"}
Job(w) == claim[w][1]
Owns(w) == InJob(w) /\ OwnsRow(Job(w), claim[w][2])

\* (Mutants: a recovery that comes a unit early; one that looks only at jobs it may
\* still retry.)
ExpiredEarly == {j \in Jobs : status[j] = "processing" /\ leaseLeft[j] <= 1}
ExpiredWithBudget ==
  {j \in Jobs : status[j] = "processing" /\ leaseLeft[j] = 0 /\ attempts[j] < MaxAttempts}
Expired == {j \in Jobs : status[j] = "processing" /\ leaseLeft[j] = 0}

\* chained_follow_up.
Chained(kind) == IF kind = "full" THEN "analysis"
                 ELSE IF kind = "analysis" THEN "translation" ELSE None

\* The while loop of _queue_follow_up, unrolled over the chain: the first step
\* from kind on whose switch is on ...
NextStep(kind) == IF kind \in Switches /\ auto[kind] THEN kind
                  ELSE IF kind = "analysis" /\ auto["translation"] THEN "translation"
                  ELSE None
\* ... and the steps it passes over on the way.
ChainFrom(kind) == IF kind = "analysis" THEN Switches
                   ELSE IF kind = "translation" THEN {"translation"} ELSE {}
Skips(kind) == ChainFrom(kind) \ ChainFrom(NextStep(kind))

\* (Mutants: a failed analysis cancels the translation; a failed transcription
\* chains all the same.)
HandOffDone(done, failed) == done
HandOffAll(done, failed) == done \cup failed
\* Which of the jobs that end hand their chain on: every completed one, and a
\* failed one unless it was the transcription itself.
HandOff(done, failed) == done \cup {j \in failed : KindOf(j) # "full"}
\* The follow-up jobs their transaction inserts.
Spawned(ended) ==
  {<<j[1], NextStep(followUp[j])>> : j \in {i \in ended : NextStep(followUp[i]) # None}}

\* The claimed job's first stage, _CLAIMED_STAGE.
ClaimedStage(kind) == IF kind = "full" THEN FullStages[1]
                      ELSE IF kind = "translation" THEN "translating" ELSE "analyzing"

\* A transcription of recording r is in S.
FullOf(r, S) == \E j \in S : KindOf(j) = "full" /\ TargetOf(j) = r

\* Day d can have an analysis to summarise: a recording of it has left its first
\* transcription.  (An analysis is a job's, or written by hand, which an active job
\* would refuse; which analyses a day really has is not the queue's business.)
Summarisable(d) ==
  \E j \in Jobs : /\ KindOf(j) = "full" /\ status[j] \in {"completed", "failed"}
                  /\ TargetOf(j) \in Recordings /\ DayOf[TargetOf(j)] = d
--------------------------------------------------------------------------------
(* What the transaction that ends a run writes: complete, fail and             *)
(* recover_expired all clear the lease, move the recording's status along      *)
(* when the job was its transcription, and queue the next step of the chain.   *)
Settle(done, failed, retried) ==
  LET handing == HandOff(done, failed)
      spawned == Spawned(handing)
      released == done \cup failed \cup retried
  IN
  /\ status' = [j \in Jobs |-> IF j \in done THEN "completed"
                               ELSE IF j \in failed THEN "failed"
                               ELSE IF j \in retried \cup spawned THEN "queued"
                               ELSE status[j]]
  /\ stage' = [j \in Jobs |-> IF j \in done THEN "completed"
                              ELSE IF j \in retried \cup spawned THEN "queued"
                              ELSE stage[j]]
  /\ followUp' = [j \in Jobs |-> IF j \in spawned THEN Chained(KindOf(j)) ELSE followUp[j]]
  /\ attempts' = [j \in Jobs |-> IF j \in spawned THEN 0 ELSE attempts[j]]
  /\ token' = [j \in Jobs |-> IF j \in released THEN 0 ELSE token[j]]
  /\ leaseLeft' = [j \in Jobs |-> IF j \in released THEN 0 ELSE leaseLeft[j]]
  /\ availableIn' = [j \in Jobs |-> IF j \in retried THEN RetryDelay[attempts[j]]
                                    ELSE IF j \in spawned THEN 0 ELSE availableIn[j]]
  /\ recStatus' = [r \in Recordings |-> IF FullOf(r, done) THEN "completed"
                                        ELSE IF FullOf(r, failed) THEN "failed"
                                        ELSE IF FullOf(r, retried) THEN "queued"
                                        ELSE recStatus[r]]
  /\ commits' = [j \in Jobs |-> IF j \in done THEN commits[j] + 1 ELSE commits[j]]
  /\ passedOver' = [r \in Roots |->
       passedOver[r] \cup UNION {Skips(followUp[j]) : j \in {i \in handing : i[1] = r}}]
  /\ UNCHANGED <<target, auto>>

\* (Mutants: the attempt budget, off by one either way.)
CanRetryOnceMore(j, isRetryable) == isRetryable /\ attempts[j] <= MaxAttempts
CanRetryOnceLess(j, isRetryable) == isRetryable /\ attempts[j] + 1 < MaxAttempts
\* RetryPolicy.can_retry.
CanRetry(j, isRetryable) == isRetryable /\ attempts[j] < MaxAttempts

\* A worker process moves on; what run_once() held for its claim is gone unless
\* the claim is still being worked on.
Leave(w, next) ==
  /\ phase' = [phase EXCEPT ![w] = next]
  /\ claim' = [claim EXCEPT ![w] = NoClaim]
  /\ step' = [step EXCEPT ![w] = 0]
  /\ lost' = [lost EXCEPT ![w] = FALSE]
  /\ retryable' = [retryable EXCEPT ![w] = FALSE]

\* The job goes to _record_failure, with JobFailure.retryable = isRetryable.
GoFail(w, isRetryable) ==
  /\ phase' = [phase EXCEPT ![w] = "failing"]
  /\ retryable' = [retryable EXCEPT ![w] = isRetryable]
  /\ UNCHANGED <<claim, step, lost>>
--------------------------------------------------------------------------------
(* Requests, one transaction each. *)

\* (Mutant: no look at the jobs that are active.)
EnqueueUnchecked(root, t, kind, next) ==
  /\ target[root] = None
  /\ target' = [target EXCEPT ![root] = t]
  /\ status' = [status EXCEPT ![<<root, kind>>] = "queued"]
  /\ followUp' = [followUp EXCEPT ![<<root, kind>>] = next]
  /\ UNCHANGED <<stage, attempts, token, leaseLeft, availableIn, auto, history, workerVars>>

\* Insert one queued job about t.  The other columns of a job row start as Init
\* leaves them.  The check for an active job and the insertion are one step: a tie
\* between two requests is left to the unique index, which is assumed to settle it.
Enqueue(root, t, kind, next) ==
  /\ target[root] = None
  /\ ActiveOn(t) = {}
  /\ target' = [target EXCEPT ![root] = t]
  /\ status' = [status EXCEPT ![<<root, kind>>] = "queued"]
  /\ followUp' = [followUp EXCEPT ![<<root, kind>>] = next]
  /\ UNCHANGED <<stage, attempts, token, leaseLeft, availableIn, auto, history, workerVars>>

\* An upload that is not a duplicate: the recording and its first job.  The client
\* names the recording, and may upload a deleted one again.
Ingest(root, r) ==
  /\ recStatus[r] \in {"absent", "deleted"}
  /\ recStatus' = [recStatus EXCEPT ![r] = "queued"]
  /\ Enqueue(root, r, "full", Chained("full"))

\* (Mutant: every job chains.)
ReprocessChained(root, r, kind) ==
  /\ recStatus[r] \in IF kind = "full" THEN {"completed", "failed"} ELSE {"completed"}
  /\ recStatus' = IF kind = "full" THEN [recStatus EXCEPT ![r] = "queued"] ELSE recStatus
  /\ Enqueue(root, r, kind, Chained(kind))

\* retry, reprocess, reprocess_analysis, reprocess_translation.  A job asked for
\* by hand runs alone; only a transcription chains.
Reprocess(root, r, kind) ==
  /\ recStatus[r] \in IF kind = "full" THEN {"completed", "failed"} ELSE {"completed"}
  /\ recStatus' = IF kind = "full" THEN [recStatus EXCEPT ![r] = "queued"] ELSE recStatus
  /\ Enqueue(root, r, kind, IF kind = "full" THEN Chained(kind) ELSE None)

QueueSummary(root, d) ==
  /\ Summarisable(d)
  /\ Enqueue(root, d, "daily_summary", None)
  /\ UNCHANGED recStatus

\* delete_recording: refused while a job is active; the recording's jobs go too.
DeleteRecording(r) ==
  /\ recStatus[r] \notin {"absent", "deleted"}
  /\ ActiveOn(r) = {}
  /\ recStatus' = [recStatus EXCEPT ![r] = "deleted"]
  /\ status' = [j \in Jobs |-> IF TargetOf(j) = r /\ status[j] # "absent"
                               THEN "deleted" ELSE status[j]]
  /\ UNCHANGED <<target, stage, followUp, attempts, token, leaseLeft, availableIn,
                 auto, history, workerVars>>

\* ProcessingSettingsService.update.
UpdateSettings(switches) ==
  /\ switches # auto
  /\ auto' = switches
  /\ UNCHANGED <<recVars, jobVars, history, workerVars>>
--------------------------------------------------------------------------------
(* One worker process. *)

\* The container (re)starts the supervisor, the supervisor its workers.
Start(w) ==
  /\ phase[w] = "down"
  /\ phase' = [phase EXCEPT ![w] = "starting"]
  /\ UNCHANGED <<recVars, jobVars, auto, history, claim, step, lost, retryable>>

\* recover_expired, before anything else and then between two jobs.  S is what
\* the query locked of the expired rows: SKIP LOCKED and its limit may leave some.
RecoverExpired(w, S) ==
  /\ \/ phase[w] = "starting"
     \/ phase[w] = "idle" /\ S # {}
  /\ S \subseteq Expired
  /\ LET retried == {j \in S : CanRetry(j, TRUE)}
     IN Settle({}, S \ retried, retried)
  /\ Leave(w, "idle")

\* claim_next.  Which of the available rows it gets is free: an older one may be
\* locked by another transaction at that moment.
ClaimNext(w, j) ==
  /\ phase[w] = "idle"
  /\ status[j] = "queued" /\ availableIn[j] = 0 /\ KindOf(j) \in WorkerKinds[w]
  /\ status' = [status EXCEPT ![j] = "processing"]
  /\ stage' = [stage EXCEPT ![j] = ClaimedStage(KindOf(j))]
  /\ attempts' = [attempts EXCEPT ![j] = @ + 1]
  /\ token' = [token EXCEPT ![j] = attempts[j] + 1]
  /\ leaseLeft' = [leaseLeft EXCEPT ![j] = Lease]
  /\ recStatus' = [r \in Recordings |-> IF FullOf(r, {j}) THEN "processing" ELSE recStatus[r]]
  /\ phase' = [phase EXCEPT ![w] = "busy"]
  /\ claim' = [claim EXCEPT ![w] = <<j, attempts[j] + 1>>]
  /\ UNCHANGED <<target, followUp, availableIn, auto, history, step, lost, retryable>>

\* The heartbeat thread.  It runs while the processor does: __exit__ stops it
\* before complete() and fail().  (A renewal in flight may land later than that;
\* it would only delay a recovery the model allows anyway.)
Heartbeat(w) ==
  /\ phase[w] = "busy" /\ ~lost[w]
  /\ IF Owns(w)
     THEN leaseLeft' = [leaseLeft EXCEPT ![Job(w)] = Lease] /\ UNCHANGED lost
     ELSE lost' = [lost EXCEPT ![w] = TRUE] /\ UNCHANGED leaseLeft
  /\ UNCHANGED <<recVars, status, stage, followUp, attempts, token, availableIn, auto,
                 history, phase, claim, step, retryable>>

\* progress(): the pipeline reports its next stage, the last report being
\* "completed", which only renews the lease.  A lost claim ends the run.  (A report
\* whose commit's answer is lost is this step followed by ProcessorFails.)
Progress(w) ==
  /\ phase[w] = "busy" /\ KindOf(Job(w)) = "full" /\ step[w] <= Len(FullStages)
  /\ IF Owns(w) /\ ~lost[w]
     THEN /\ step' = [step EXCEPT ![w] = @ + 1]
          /\ leaseLeft' = [leaseLeft EXCEPT ![Job(w)] = Lease]
          /\ stage' = IF step[w] < Len(FullStages)
                      THEN [stage EXCEPT ![Job(w)] = FullStages[step[w] + 1]] ELSE stage
          /\ UNCHANGED <<phase, claim, lost, retryable>>
     ELSE Leave(w, "idle") /\ UNCHANGED <<stage, leaseLeft>>
  /\ UNCHANGED <<recVars, status, followUp, attempts, token, availableIn, auto, history>>

\* The processor returns a persister.
Finish(w) ==
  /\ phase[w] = "busy"
  /\ KindOf(Job(w)) = "full" => step[w] = Len(FullStages) + 1
  /\ IF lost[w] THEN Leave(w, "idle")
                ELSE /\ phase' = [phase EXCEPT ![w] = "saving"]
                     /\ UNCHANGED <<claim, step, lost, retryable>>
  /\ UNCHANGED <<recVars, jobVars, auto, history>>

\* The processor raises, at any point of its work.
ProcessorFails(w, isRetryable) ==
  /\ phase[w] = "busy"
  /\ GoFail(w, isRetryable)
  /\ UNCHANGED <<recVars, jobVars, auto, history>>

\* (Mutant: results saved without asking whether the claim still stands.)
CompleteUnfenced(w) ==
  /\ phase[w] = "saving"
  /\ Settle({Job(w)}, {}, {})
  /\ Leave(w, "idle") \/ GoFail(w, TRUE)

\* complete() commits: the results and the end of the job in one transaction.
\* When the commit's answer is lost the worker takes it for a failure.
Complete(w) ==
  /\ phase[w] = "saving" /\ Owns(w)
  /\ Settle({Job(w)}, {}, {})
  /\ Leave(w, "idle") \/ GoFail(w, TRUE)

\* complete() rolls back: the persister or the database raised.
SaveFails(w, isRetryable) ==
  /\ phase[w] = "saving"
  /\ GoFail(w, isRetryable)
  /\ UNCHANGED <<recVars, jobVars, auto, history>>

\* fail() commits.
Fail(w) ==
  /\ phase[w] = "failing" /\ Owns(w)
  /\ IF CanRetry(Job(w), retryable[w])
     THEN Settle({}, {}, {Job(w)}) ELSE Settle({}, {Job(w)}, {})
  /\ Leave(w, "idle")

\* complete() or fail() finds the claim gone and run_once() drops the outcome.
Discard(w) ==
  /\ phase[w] \in {"saving", "failing"} /\ ~Owns(w)
  /\ Leave(w, "idle")
  /\ UNCHANGED <<recVars, jobVars, auto, history>>

\* The process dies or is stopped: a crash, a database error outside a job, a
\* deploy.  Whatever it had claimed stays claimed until the lease runs out.
Crash(w) ==
  /\ phase[w] # "down"
  /\ Leave(w, "down")
  /\ UNCHANGED <<recVars, jobVars, auto, history>>

\* One unit of time.
Tick ==
  /\ leaseLeft' = [j \in Jobs |-> IF leaseLeft[j] > 0 THEN leaseLeft[j] - 1 ELSE 0]
  /\ availableIn' = [j \in Jobs |-> IF availableIn[j] > 0 THEN availableIn[j] - 1 ELSE 0]
  /\ UNCHANGED <<recVars, status, stage, followUp, attempts, token, auto, history, workerVars>>
--------------------------------------------------------------------------------
Request ==
  \/ \E root \in Roots, r \in Recordings : Ingest(root, r)
  \/ \E root \in Roots, r \in Recordings, kind \in {"full", "analysis", "translation"} :
       Reprocess(root, r, kind)
  \/ \E root \in Roots, d \in Days : QueueSummary(root, d)
  \/ \E r \in Recordings : DeleteRecording(r)
  \/ \E switches \in [Switches -> BOOLEAN] : UpdateSettings(switches)

Work(w) ==
  \/ Progress(w)
  \/ Finish(w)
  \/ \E isRetryable \in BOOLEAN : ProcessorFails(w, isRetryable)
  \/ Complete(w)
  \/ \E isRetryable \in BOOLEAN : SaveFails(w, isRetryable)
  \/ Fail(w)
  \/ Discard(w)

Worker(w) ==
  \/ Start(w)
  \/ \E S \in SUBSET Expired : RecoverExpired(w, S)
  \/ \E j \in Jobs : ClaimNext(w, j)
  \/ Heartbeat(w)
  \/ Work(w)
  \/ Crash(w)

Next == Request \/ (\E w \in Workers : Worker(w)) \/ Tick

Spec == Init /\ [][Next]_vars

\* What the deployment provides: time passes; a stopped container is restarted
\* (compose.yaml, restart: unless-stopped); a worker that is up keeps taking its
\* loop's next step, and its processor returns or raises in the end.  Claims and
\* recoveries need the strong form, for a worker may crash again and again before
\* it gets to one.  Nothing says that a worker does not crash.
Fairness ==
  /\ WF_vars(Tick)
  /\ \A w \in Workers :
       /\ WF_vars(Start(w))
       /\ WF_vars(Work(w))
       /\ SF_vars(RecoverExpired(w, Expired))
       /\ SF_vars(\E j \in Jobs : ClaimNext(w, j))

FairSpec == Spec /\ Fairness
--------------------------------------------------------------------------------
(* Safety. *)

\* At most one unfinished job per recording and per day (the partial unique
\* indexes of models.py), through hand-offs, retries and new requests alike.
OneActivePerTarget ==
  \A i, j \in Jobs : Active(i) /\ Active(j) /\ TargetOf(i) = TargetOf(j) => i = j

\* What RecordingMirrorsJob says of one recording.
RecordingMirrors(r) ==
  /\ \A s \in {"queued", "processing"} :
       recStatus[r] = s
         <=> \E j \in Jobs : TargetOf(j) = r /\ KindOf(j) = "full" /\ status[j] = s
  /\ \A j \in Jobs :
       TargetOf(j) = r /\ Active(j) /\ KindOf(j) # "full" => recStatus[r] = "completed"

\* A recording's status is the status of its unfinished transcription, and a
\* queued or running LLM job means that the recording's transcript is committed.
RecordingMirrorsJob == \A r \in Recordings : RecordingMirrors(r)

\* The claim token fences: of two workers that hold a claim on the same job, one
\* of them stalled past its lease, at most one can still write to it.
OneOwner ==
  \A v, w \in Workers : Owns(v) /\ Owns(w) /\ Job(v) = Job(w) => v = w

\* Results are persisted once, by the run that ends the job: never by a run whose
\* claim was taken over, and never again after the answer of a commit was lost.
OneResult == \A j \in Jobs : /\ commits[j] <= 1
                             /\ Active(j) \/ status[j] = "failed" => commits[j] = 0
                             /\ status[j] = "completed" => commits[j] = 1

\* No step of a chain gets lost.  Once a transcription is committed, each LLM step
\* has its job, was passed over because its switch was off at the hand-off, or
\* waits behind the unfinished step before it; and it is never both.
ChainAccounted ==
  \A root \in Roots : \A kind \in Switches :
    /\ status[<<root, "full">>] = "completed" =>
         \/ status[<<root, kind>>] # "absent"
         \/ kind \in passedOver[root]
         \/ kind = "translation" /\ Active(<<root, "analysis">>)
    /\ kind \in passedOver[root] => status[<<root, kind>>] = "absent"

\* A job asked for by hand sets off nothing else: a second job of a request
\* exists only behind a transcription that was committed.
ManualRunsAlone ==
  \A i, j \in Jobs :
    i[1] = j[1] /\ i # j /\ "absent" \notin {status[i], status[j]}
      => status[<<i[1], "full">>] \in {"completed", "deleted"}

\* The stage a job shows is the one its current owner reported last.
StageIsOwners ==
  \A w \in Workers :
    Owns(w) /\ KindOf(Job(w)) = "full" =>
      LET last == IF step[w] < Len(FullStages) THEN step[w] ELSE Len(FullStages)
      IN stage[Job(w)] = FullStages[IF last = 0 THEN 1 ELSE last]

\* The heartbeat thread raises claim_lost only when the claim really is lost.
LostIsLost == \A w \in Workers : lost[w] => ~Owns(w)

\* A job waiting to be claimed has an attempt left.
QueuedHasAttempts == \A j \in Jobs : status[j] = "queued" => attempts[j] < MaxAttempts

EndsRun(j) == status[j] = "processing" /\ status'[j] # "processing"
GivesUp(j) == status[j] # "failed" /\ status'[j] = "failed"
EndedByOwner(j) == \E w \in Workers : Owns(w) /\ Job(w) = j /\ phase'[w] # phase[w]
RefusedByOwner(j) ==
  \E w \in Workers : Owns(w) /\ Job(w) = j /\ phase[w] = "failing" /\ ~retryable[w]

\* A lease is honoured: until it runs out, only its holder ends the run.
LeaseHonoured == [][\A j \in Jobs : EndsRun(j) => leaseLeft[j] = 0 \/ EndedByOwner(j)]_vars

\* A job is given up only after MaxAttempts attempts or a failure its owner
\* reported as permanent; no crash, timeout or lost answer costs it more.
NoPrematureFailure ==
  [][\A j \in Jobs : GivesUp(j) => attempts[j] = MaxAttempts \/ RefusedByOwner(j)]_vars

\* JobLedger's view of the rows, with leases, tokens and workers hidden.
LedgerState == [absent |-> "none", queued |-> "waiting", processing |-> "running",
                completed |-> "done", failed |-> "given_up", deleted |-> "forgotten"]
Ledger == INSTANCE JobLedger WITH
  Subjects <- Targets \cup {None},
  about <- [j \in Jobs |-> TargetOf(j)],
  state <- [j \in Jobs |-> LedgerState[status[j]]],
  tries <- attempts,
  results <- commits

\* Leases, tokens, recoveries and crashes add up to that promise: every step of the
\* queue is a step of the ledger or none.
ImplementsLedger == Ledger!Spec
--------------------------------------------------------------------------------
(* Liveness, under Fairness. *)

\* However often workers crash, every accepted job ends.
EveryJobEnds == \A j \in Jobs : Active(j) ~> ~Active(j)
--------------------------------------------------------------------------------
(* The inductive invariant behind the safety properties. *)

\* A row's token is that of its last claim while it runs, and NULL otherwise.
TokenIsAttempt ==
  \A j \in Jobs : token[j] = IF status[j] = "processing" THEN attempts[j] ELSE 0

\* A row that runs was claimed, a row that does not exist never was.
AttemptsCounted ==
  \A j \in Jobs : /\ status[j] = "processing" => attempts[j] >= 1
                  /\ status[j] = "absent" => attempts[j] = 0 /\ commits[j] = 0

\* A request that was not used has no jobs; a summary's request has no recording.
RootsFit ==
  \A j \in Jobs :
    /\ TargetOf(j) = None => status[j] = "absent" /\ passedOver[j[1]] = {}
    /\ status[j] # "absent" => (TargetOf(j) \in Days <=> KindOf(j) = "daily_summary")

\* What is still to come behind an unfinished job has neither a job nor a note
\* that it was skipped; an unfinished transcription always has its chain ahead,
\* and an analysis chains exactly when a transcription came before it.
ChainPendingAt(j) ==
  /\ followUp[j] # None => followUp[j] = Chained(KindOf(j))
  /\ Active(j) /\ KindOf(j) = "full" => followUp[j] = "analysis"
  /\ Active(j) => \A kind \in ChainFrom(followUp[j]) :
                    status[<<j[1], kind>>] = "absent" /\ kind \notin passedOver[j[1]]
  /\ followUp[j] = "translation" => status[<<j[1], "full">>] \in {"completed", "deleted"}
  /\ Active(j) /\ KindOf(j) = "analysis" /\ status[<<j[1], "full">>] = "completed"
       => followUp[j] = "translation"
ChainPending == \A j \in Jobs : ChainPendingAt(j)

\* A worker holds a claim exactly while it is in a job, and no two claims are the
\* same, for every claim of a job raises its attempt count.
ClaimsLive ==
  \A w \in Workers : /\ InJob(w) <=> claim[w] # NoClaim
                     /\ InJob(w) => claim[w][2] <= attempts[Job(w)]
                     /\ ~InJob(w) => ~lost[w] /\ step[w] = 0
ClaimsDistinct ==
  \A v, w \in Workers : InJob(v) /\ InJob(w) /\ claim[v] = claim[w] => v = w

TableInv == /\ TokenIsAttempt /\ AttemptsCounted /\ QueuedHasAttempts /\ RootsFit
            /\ OneActivePerTarget /\ RecordingMirrorsJob /\ OneResult
            /\ ChainPending /\ ChainAccounted /\ ManualRunsAlone
WorkerInv == ClaimsLive /\ ClaimsDistinct /\ LostIsLost /\ StageIsOwners
IInv == TypeOK /\ TableInv /\ WorkerInv
================================================================================
