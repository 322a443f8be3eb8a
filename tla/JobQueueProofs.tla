----------------------------- MODULE JobQueueProofs ----------------------------
(***************************************************************************)
(* Theorems about JobQueue, for any number of requests, recordings, days   *)
(* and workers and any values of the bounds.                               *)
(***************************************************************************)
EXTENDS JobQueue, TLAPS

\* The transaction that ends some runs: the jobs it ends were processing, each
\* ends one way, and only a job with an attempt left goes back to the queue.
Settles(done, failed, retried) ==
  /\ done \cup failed \cup retried \subseteq {j \in Jobs : status[j] = "processing"}
  /\ done \cap failed = {} /\ done \cap retried = {} /\ failed \cap retried = {}
  /\ \A j \in retried : attempts[j] < MaxAttempts
  /\ Settle(done, failed, retried)

\* A request that inserts one job: a transcription puts its recording back in the
\* queue, every other job leaves the recording alone and chains nothing.
Inserts(root, t, kind) ==
  /\ Enqueue(root, t, kind, IF kind = "full" THEN "analysis" ELSE None)
  /\ \/ /\ kind = "full" /\ t \in Recordings
        /\ recStatus[t] \in {"absent", "deleted", "completed", "failed"}
        /\ recStatus' = [recStatus EXCEPT ![t] = "queued"]
     \/ /\ kind \in {"analysis", "translation"} /\ t \in Recordings
        /\ recStatus[t] = "completed" /\ recStatus' = recStatus
     \/ kind = "daily_summary" /\ t \in Days /\ recStatus' = recStatus

\* A step that leaves the job table and the recordings alone, but for leases,
\* stages and waiting times.
Quiet == UNCHANGED <<target, recStatus, status, followUp, attempts, token, commits, passedOver>>

\* The stages a job can show: the constants of FullStages and the claimed stages.
LEMMA StageFacts ==
  /\ FullStages[1] \in Stages
  /\ \A n \in 1..Len(FullStages) : FullStages[n] \in Stages
  /\ \A kind \in Kinds : ClaimedStage(kind) \in Stages
<1>1. Len(FullStages) \in Nat \ {0}
  BY BoundsAssumption
<1>2. 1 \in 1..Len(FullStages)
  BY <1>1
<1>3. \A n \in 1..Len(FullStages) : FullStages[n] \in Stages
  BY DEF Stages
<1>4. \A kind \in Kinds : ClaimedStage(kind) \in Stages
  BY <1>2, <1>3 DEF ClaimedStage, Stages
<1> QED
  BY <1>2, <1>3, <1>4

LEMMA InitType == Init => TypeOK
<1> SUFFICES ASSUME Init PROVE TypeOK
  OBVIOUS
<1>1. MaxAttempts \in Nat /\ Lease \in Nat /\ MaxDelay \in Nat /\ Len(FullStages) \in Nat
  BY BoundsAssumption
<1>2. [r \in Roots |-> {}] \in [Roots -> SUBSET Switches]
  OBVIOUS
<1> QED
  BY <1>1, <1>2 DEF Init, TypeOK, Stages, NoClaim

LEMMA SettleType ==
  ASSUME TypeOK, AttemptsCounted, NEW done, NEW failed, NEW retried, Settles(done, failed, retried)
  PROVE  /\ target' \in [Roots -> Targets \cup {None}]
         /\ recStatus' \in [Recordings -> RecordingStatus \cup {"absent", "deleted"}]
         /\ status' \in [Jobs -> JobStatus \cup {"absent", "deleted"}]
         /\ stage' \in [Jobs -> Stages]
         /\ followUp' \in [Jobs -> Switches \cup {None}]
         /\ attempts' \in [Jobs -> 0..MaxAttempts]
         /\ token' \in [Jobs -> 0..MaxAttempts]
         /\ leaseLeft' \in [Jobs -> 0..Lease]
         /\ availableIn' \in [Jobs -> 0..MaxDelay]
         /\ auto' \in [Switches -> BOOLEAN]
         /\ commits' \in [Jobs -> Nat]
         /\ passedOver' \in [Roots -> SUBSET Switches]
<1>0. MaxAttempts \in Nat /\ Lease \in Nat /\ MaxDelay \in Nat
  BY BoundsAssumption
<1>1. target' \in [Roots -> Targets \cup {None}] /\ auto' \in [Switches -> BOOLEAN]
  BY DEF TypeOK, Settles, Settle
<1>2. recStatus' \in [Recordings -> RecordingStatus \cup {"absent", "deleted"}]
  BY DEF TypeOK, Settles, Settle, RecordingStatus
<1>3. status' \in [Jobs -> JobStatus \cup {"absent", "deleted"}]
  BY DEF TypeOK, Settles, Settle, JobStatus
<1>4. stage' \in [Jobs -> Stages]
  BY DEF TypeOK, Settles, Settle, Stages
<1>5. followUp' \in [Jobs -> Switches \cup {None}]
  BY DEF TypeOK, Settles, Settle, Chained, Switches
<1>6. attempts' \in [Jobs -> 0..MaxAttempts] /\ token' \in [Jobs -> 0..MaxAttempts]
      /\ leaseLeft' \in [Jobs -> 0..Lease]
  BY <1>0 DEF TypeOK, Settles, Settle
<1>7. availableIn' \in [Jobs -> 0..MaxDelay]
  <2>1. ASSUME NEW j \in retried PROVE RetryDelay[attempts[j]] \in 0..MaxDelay
    BY <1>0, BoundsAssumption DEF TypeOK, Settles, AttemptsCounted
  <2> QED
    BY <1>0, <2>1 DEF TypeOK, Settles, Settle
<1>8. commits' \in [Jobs -> Nat]
  BY DEF TypeOK, Settles, Settle
<1>9. passedOver' \in [Roots -> SUBSET Switches]
  <2>1. \A kind : Skips(kind) \subseteq Switches
    BY DEF Skips, ChainFrom, Switches
  <2> QED
    BY <2>1 DEF TypeOK, Settles, Settle
<1> QED
  BY <1>1, <1>2, <1>3, <1>4, <1>5, <1>6, <1>7, <1>8, <1>9

\* complete, fail and recover_expired end jobs that were running.
LEMMA SettleCases ==
  ASSUME IInv, NEW w \in Workers,
         \/ \E S \in SUBSET Expired : RecoverExpired(w, S)
         \/ Complete(w)
         \/ Fail(w)
  PROVE  \E done, failed, retried \in SUBSET Jobs : Settles(done, failed, retried)
<1> DEFINE Settling == \E done, failed, retried \in SUBSET Jobs : Settles(done, failed, retried)
<1> HIDE DEF Settling
<1>1. ASSUME NEW S \in SUBSET Expired, RecoverExpired(w, S)
      PROVE  Settling
  <2> DEFINE R == {j \in S : CanRetry(j, TRUE)}
  <2>1. S \in SUBSET Jobs /\ R \in SUBSET Jobs /\ S \ R \in SUBSET Jobs /\ {} \in SUBSET Jobs
    BY DEF Expired
  <2>2. Settle({}, S \ R, R)
    BY <1>1 DEF RecoverExpired
  <2>3. \A j \in S : status[j] = "processing"
    BY DEF Expired
  <2>4. Settles({}, S \ R, R)
    BY <2>1, <2>2, <2>3 DEF Settles, CanRetry
  <2> QED
    BY <2>1, <2>4 DEF Settling
<1>2. ASSUME Owns(w) PROVE Job(w) \in Jobs /\ status[Job(w)] = "processing"
  BY <1>2 DEF IInv, WorkerInv, ClaimsLive, TypeOK, Owns, OwnsRow, Job
<1>3. ASSUME Complete(w) PROVE Settling
  <2>1. Settles({Job(w)}, {}, {})
    BY <1>2, <1>3 DEF Complete, Settles
  <2> QED
    BY <1>2, <1>3, <2>1 DEF Settling, Complete
<1>4. ASSUME Fail(w) PROVE Settling
  <2>1. Job(w) \in Jobs /\ status[Job(w)] = "processing"
    BY <1>2, <1>4 DEF Fail
  <2>2. CASE CanRetry(Job(w), retryable[w])
    <3>1. Settles({}, {}, {Job(w)})
      BY <1>4, <2>1, <2>2 DEF Fail, Settles, CanRetry
    <3> QED
      BY <2>1, <3>1 DEF Settling
  <2>3. CASE ~CanRetry(Job(w), retryable[w])
    <3>1. Settles({}, {Job(w)}, {})
      BY <1>4, <2>1, <2>3 DEF Fail, Settles
    <3> QED
      BY <2>1, <3>1 DEF Settling
  <2> QED
    BY <2>2, <2>3
<1> QED
  BY <1>1, <1>3, <1>4 DEF Settling

\* What each step does to the job table.
LEMMA StepKinds ==
  ASSUME IInv, [Next]_vars
  PROVE  \/ Quiet
         \/ \E root \in Roots, t \in Targets, kind \in Kinds : Inserts(root, t, kind)
         \/ \E r \in Recordings : DeleteRecording(r)
         \/ \E w \in Workers, j \in Jobs : ClaimNext(w, j)
         \/ \E w \in Workers : \/ \E S \in SUBSET Expired : RecoverExpired(w, S)
                               \/ Complete(w)
                               \/ Fail(w)
<1> DEFINE Inserting == \E root \in Roots, t \in Targets, kind \in Kinds : Inserts(root, t, kind)
<1> HIDE DEF Inserting
<1>1. ASSUME NEW root \in Roots, NEW r \in Recordings, Ingest(root, r) PROVE Inserting
  <2>1. Inserts(root, r, "full")
    BY <1>1 DEF Ingest, Inserts, Chained, RecordingStatus
  <2> QED
    BY <2>1 DEF Inserting, Targets, Kinds
<1>2. ASSUME NEW root \in Roots, NEW r \in Recordings,
             NEW kind \in {"full", "analysis", "translation"}, Reprocess(root, r, kind)
      PROVE  Inserting
  <2>1. Inserts(root, r, kind)
    BY <1>2 DEF Reprocess, Inserts, Chained
  <2> QED
    BY <2>1 DEF Inserting, Targets, Kinds
<1>3. ASSUME NEW root \in Roots, NEW d \in Days, QueueSummary(root, d) PROVE Inserting
  <2>1. Inserts(root, d, "daily_summary")
    BY <1>3 DEF QueueSummary, Inserts
  <2> QED
    BY <2>1 DEF Inserting, Targets, Kinds
<1>4. ASSUME NEW w \in Workers,
             \/ Start(w) \/ Heartbeat(w) \/ Progress(w) \/ Finish(w) \/ Discard(w) \/ Crash(w)
             \/ \E b \in BOOLEAN : ProcessorFails(w, b) \/ SaveFails(w, b)
      PROVE  Quiet
  BY <1>4 DEF Start, Heartbeat, Progress, Finish, Discard, Crash, ProcessorFails, SaveFails,
              Quiet, recVars, jobVars, history
<1>5. ASSUME Tick \/ (\E s \in [Switches -> BOOLEAN] : UpdateSettings(s)) \/ UNCHANGED vars
      PROVE  Quiet
  BY <1>5 DEF Tick, UpdateSettings, vars, Quiet, recVars, jobVars, history
<1> QED
  BY <1>1, <1>2, <1>3, <1>4, <1>5
     DEF Next, Request, Worker, Work, Inserting

\* Every step is one of five kinds as far as the job table is concerned: those
\* above, with complete, fail and recover_expired taken together.
LEMMA StepCases ==
  ASSUME IInv, [Next]_vars
  PROVE  \/ Quiet
         \/ \E root \in Roots, t \in Targets, kind \in Kinds : Inserts(root, t, kind)
         \/ \E r \in Recordings : DeleteRecording(r)
         \/ \E w \in Workers, j \in Jobs : ClaimNext(w, j)
         \/ \E done, failed, retried \in SUBSET Jobs : Settles(done, failed, retried)
<1>1. ASSUME NEW w \in Workers,
             (\E S \in SUBSET Expired : RecoverExpired(w, S)) \/ Complete(w) \/ Fail(w)
      PROVE  \E done, failed, retried \in SUBSET Jobs : Settles(done, failed, retried)
  BY <1>1, SettleCases
<1> QED
  BY <1>1, StepKinds
--------------------------------------------------------------------------------
(* The job table: each kind of step keeps TableInv. *)

LEMMA InitTable == Init => TableInv
<1> SUFFICES ASSUME Init PROVE TableInv
  OBVIOUS
<1>1. \A j \in Jobs : /\ status[j] = "absent" /\ followUp[j] = None /\ attempts[j] = 0
                      /\ token[j] = 0 /\ commits[j] = 0
  BY DEF Init
<1>2. \A j \in Jobs : j[1] \in Roots /\ j = <<j[1], j[2]>>
  BY DEF Jobs
<1>3. \A root \in Roots : target[root] = None /\ passedOver[root] = {}
                          /\ status[<<root, "full">>] = "absent"
  BY DEF Init, Jobs, Kinds
<1>4. \A r \in Recordings : recStatus[r] = "absent"
  BY DEF Init
<1>5. TokenIsAttempt /\ AttemptsCounted /\ QueuedHasAttempts /\ OneResult /\ OneActivePerTarget
  BY <1>1 DEF TokenIsAttempt, AttemptsCounted, QueuedHasAttempts, OneResult, OneActivePerTarget,
              Active
<1>6. RootsFit /\ RecordingMirrorsJob
  BY <1>1, <1>2, <1>3, <1>4 DEF RootsFit, RecordingMirrorsJob, RecordingMirrors, Active
<1>7. ChainPending
  BY <1>1 DEF ChainPending, ChainPendingAt, Active, None
<1>8. ChainAccounted /\ ManualRunsAlone
  BY <1>1, <1>3 DEF ChainAccounted, ManualRunsAlone
<1> QED
  BY <1>5, <1>6, <1>7, <1>8 DEF TableInv

LEMMA QuietTable == ASSUME TableInv, Quiet PROVE TableInv'
  BY DEF TableInv, Quiet, TokenIsAttempt, AttemptsCounted, QueuedHasAttempts, RootsFit,
         OneActivePerTarget, RecordingMirrorsJob, RecordingMirrors, OneResult, ChainPending,
         ChainPendingAt, ChainAccounted, ManualRunsAlone, Active, TargetOf

\* A new request inserts a job of its own; it touches no other job and finds no
\* other one active for its recording or day.
LEMMA InsertTable ==
  ASSUME TypeOK, TableInv, NEW root \in Roots, NEW t \in Targets, NEW kind \in Kinds,
         Inserts(root, t, kind)
  PROVE  TableInv'
<1> DEFINE new == <<root, kind>>
<1> USE DEF Inserts, Enqueue, TableInv, history
<1>1. /\ new \in Jobs /\ t # None
      /\ \A j \in Jobs : j[1] \in Roots /\ j[2] \in Kinds /\ j = <<j[1], j[2]>>
      /\ \A k \in Kinds : <<root, k>> \in Jobs /\ status[<<root, k>>] = "absent"
      /\ passedOver[root] = {} /\ attempts[new] = 0 /\ commits[new] = 0 /\ token[new] = 0
  <2>1. new \in Jobs /\ t # None /\ target[root] = None
    BY NamesAssumption DEF Jobs
  <2>2. \A j \in Jobs : j[1] \in Roots /\ j[2] \in Kinds /\ j = <<j[1], j[2]>>
    BY DEF Jobs
  <2>3. \A k \in Kinds : <<root, k>> \in Jobs /\ TargetOf(<<root, k>>) = None
    BY <2>1 DEF Jobs, TargetOf
  <2>4. \A k \in Kinds : status[<<root, k>>] = "absent" /\ passedOver[root] = {}
    BY <2>3 DEF RootsFit
  <2> QED
    BY <2>1, <2>2, <2>3, <2>4 DEF AttemptsCounted, TokenIsAttempt
<1>2. \A j \in Jobs : /\ status'[j] = IF j = new THEN "queued" ELSE status[j]
                      /\ target'[j[1]] = IF j[1] = root THEN t ELSE target[j[1]]
                      /\ j[1] = root => status[j] = "absent"
                      /\ followUp'[j] = IF j = new THEN IF kind = "full" THEN "analysis" ELSE None
                                        ELSE followUp[j]
  BY <1>1 DEF TypeOK
<1>3. TokenIsAttempt' /\ AttemptsCounted' /\ QueuedHasAttempts' /\ OneResult'
  BY <1>1, <1>2, BoundsAssumption
     DEF TokenIsAttempt, AttemptsCounted, QueuedHasAttempts, OneResult, Active
<1>4. RootsFit'
  BY SMTT(30), <1>1, <1>2, NamesAssumption DEF RootsFit, TargetOf, KindOf, Targets
<1>5. OneActivePerTarget'
  BY <1>1, <1>2 DEF OneActivePerTarget, TargetOf, Active, ActiveOn
<1>6. RecordingMirrorsJob'
  BY SMTT(30), <1>1, <1>2, NamesAssumption
     DEF RecordingMirrorsJob, RecordingMirrors, TargetOf, KindOf, Active, ActiveOn, TypeOK
<1>7. ChainPending'
  <2>1. \A j \in Jobs, k \in Kinds :
          /\ <<j[1], k>> \in Jobs
          /\ status'[<<j[1], k>>] = IF j[1] = root /\ k = kind THEN "queued"
                                    ELSE status[<<j[1], k>>]
    BY <1>1, <1>2 DEF Jobs
  <2> SUFFICES ASSUME NEW j \in Jobs PROVE ChainPendingAt(j)'
    BY DEF ChainPending
  <2>0. ChainPendingAt(j)
    BY DEF ChainPending
  <2>2. CASE j = new
    <3>1. /\ j[1] = root /\ KindOf(j) = kind /\ kind \in Kinds
          /\ followUp'[j] = IF kind = "full" THEN "analysis" ELSE None
          /\ \A k \in Kinds : status'[<<root, k>>] = IF k = kind THEN "queued" ELSE "absent"
          /\ passedOver'[root] = {}
      BY <1>1, <1>2, <2>1, <2>2 DEF KindOf
    <3> QED
      BY <3>1 DEF ChainPendingAt, KindOf, Chained, ChainFrom, Switches, Kinds, None
  <2>3. CASE j # new /\ j[1] = root
    <3>1. ~Active(j)' /\ status[<<j[1], "full">>] = "absent" /\ followUp'[j] = followUp[j]
      BY <1>1, <1>2, <2>3 DEF Active, Kinds
    <3> QED
      BY <2>0, <3>1 DEF ChainPendingAt, KindOf
  <2>4. CASE j[1] # root
    <3>1. /\ Active(j)' <=> Active(j)
          /\ followUp'[j] = followUp[j]
          /\ \A k \in Kinds : status'[<<j[1], k>>] = status[<<j[1], k>>]
      BY <1>2, <2>1, <2>4 DEF Active
    <3> QED
      BY <2>0, <3>1 DEF ChainPendingAt, KindOf, ChainFrom, Switches, Kinds
  <2> QED
    BY <2>2, <2>3, <2>4
<1>8. ChainAccounted' /\ ManualRunsAlone'
  BY <1>1, <1>2 DEF ChainAccounted, ManualRunsAlone, Active, Switches, Kinds
<1> QED
  BY <1>3, <1>4, <1>5, <1>6, <1>7, <1>8

\* Deleting a recording takes all its jobs, none of which is active.
LEMMA DeleteTable ==
  ASSUME TypeOK, TableInv, NEW r \in Recordings, DeleteRecording(r)
  PROVE  TableInv'
<1> USE DEF DeleteRecording, TableInv, history
<1>1. \A j \in Jobs : j[1] \in Roots /\ j[2] \in Kinds /\ j = <<j[1], j[2]>>
  BY DEF Jobs
<1>2. \A j \in Jobs : /\ status'[j] = IF TargetOf(j) = r /\ status[j] # "absent"
                                      THEN "deleted" ELSE status[j]
                      /\ TargetOf(j) = r => ~Active(j)
  BY DEF TypeOK, ActiveOn
<1>3. \A root \in Roots, k \in Kinds : <<root, k>> \in Jobs /\ TargetOf(<<root, k>>) = target[root]
  BY DEF Jobs, TargetOf
<1>4. TokenIsAttempt' /\ AttemptsCounted' /\ QueuedHasAttempts' /\ OneResult'
  BY <1>2 DEF TokenIsAttempt, AttemptsCounted, QueuedHasAttempts, OneResult, Active
<1>5. RootsFit' /\ OneActivePerTarget'
  BY <1>2 DEF RootsFit, OneActivePerTarget, TargetOf, KindOf, Active
<1>6. RecordingMirrorsJob'
  BY <1>2 DEF RecordingMirrorsJob, RecordingMirrors, TargetOf, KindOf, Active, TypeOK
<1>7. ChainPending'
  <2> SUFFICES ASSUME NEW j \in Jobs PROVE ChainPendingAt(j)'
    BY DEF ChainPending
  <2>0. ChainPendingAt(j)
    BY DEF ChainPending
  <2>1. /\ <<j[1], "full">> \in Jobs /\ TargetOf(<<j[1], "full">>) = TargetOf(j)
        /\ \A k \in Kinds : <<j[1], k>> \in Jobs /\ TargetOf(<<j[1], k>>) = TargetOf(j)
    BY <1>1, <1>3 DEF TargetOf, Kinds
  <2>2. CASE TargetOf(j) = r
    BY <1>2, <2>0, <2>1, <2>2 DEF ChainPendingAt, KindOf, Active
  <2>3. CASE TargetOf(j) # r
    <3>1. \A k \in Kinds : status'[<<j[1], k>>] = status[<<j[1], k>>]
      BY <1>2, <2>1, <2>3
    <3>2. Active(j)' <=> Active(j)
      BY <1>2, <2>3 DEF Active
    <3> QED
      BY <2>0, <3>1, <3>2 DEF ChainPendingAt, KindOf, ChainFrom, Switches, Kinds
  <2> QED
    BY <2>2, <2>3
<1>8. ChainAccounted'
  <2> SUFFICES ASSUME NEW root \in Roots, NEW kind \in Switches
               PROVE  /\ status'[<<root, "full">>] = "completed" =>
                           \/ status'[<<root, kind>>] # "absent"
                           \/ kind \in passedOver'[root]
                           \/ kind = "translation" /\ Active(<<root, "analysis">>)'
                      /\ kind \in passedOver'[root] => status'[<<root, kind>>] = "absent"
    BY DEF ChainAccounted
  <2>1. \A k \in Kinds :
          /\ status'[<<root, k>>] = "absent" <=> status[<<root, k>>] = "absent"
          /\ status'[<<root, k>>] \in {status[<<root, k>>], "deleted"}
          /\ Active(<<root, k>>) => status'[<<root, k>>] = status[<<root, k>>]
    BY <1>2, <1>3 DEF Active
  <2>2. kind \in Kinds /\ "full" \in Kinds /\ "analysis" \in Kinds /\ passedOver' = passedOver
    BY DEF Kinds, Switches
  <2>3. /\ status[<<root, "full">>] = "completed" =>
             \/ status[<<root, kind>>] # "absent"
             \/ kind \in passedOver[root]
             \/ kind = "translation" /\ Active(<<root, "analysis">>)
        /\ kind \in passedOver[root] => status[<<root, kind>>] = "absent"
    BY DEF ChainAccounted
  <2> QED
    BY <2>1, <2>2, <2>3 DEF Active
<1>9. ManualRunsAlone'
  <2> SUFFICES ASSUME NEW i \in Jobs, NEW j \in Jobs, i[1] = j[1], i # j,
                      status'[i] # "absent", status'[j] # "absent"
               PROVE  status'[<<i[1], "full">>] \in {"completed", "deleted"}
    BY DEF ManualRunsAlone
  <2>1. status[i] # "absent" /\ status[j] # "absent"
    BY <1>2
  <2>2. status[<<i[1], "full">>] \in {"completed", "deleted"}
    BY <2>1 DEF ManualRunsAlone
  <2>3. <<i[1], "full">> \in Jobs
    BY <1>1, <1>3 DEF Kinds
  <2> QED
    BY <1>2, <2>2, <2>3
<1> QED
  BY <1>4, <1>5, <1>6, <1>7, <1>8, <1>9

\* A claim moves one queued job, and its recording if it is a transcription.
LEMMA ClaimTable ==
  ASSUME TypeOK, TableInv, NEW w \in Workers, NEW j \in Jobs, ClaimNext(w, j)
  PROVE  TableInv'
<1> USE DEF ClaimNext, TableInv, history
<1>1. /\ \A i \in Jobs : /\ i[1] \in Roots /\ i[2] \in Kinds /\ i = <<i[1], i[2]>>
                         /\ attempts[i] \in 0..MaxAttempts
      /\ MaxAttempts \in Nat
  BY SMTT(30), BoundsAssumption DEF Jobs, TypeOK
<1>2. \A i \in Jobs : /\ status'[i] = IF i = j THEN "processing" ELSE status[i]
                      /\ attempts'[i] = IF i = j THEN attempts[j] + 1 ELSE attempts[i]
                      /\ token'[i] = IF i = j THEN attempts[j] + 1 ELSE token[i]
                      /\ Active(i)' <=> Active(i)
  BY DEF TypeOK, Active
<1>3. \A r \in Recordings :
        recStatus'[r] = IF KindOf(j) = "full" /\ TargetOf(j) = r THEN "processing" ELSE recStatus[r]
  BY DEF FullOf
<1>4. TokenIsAttempt' /\ AttemptsCounted' /\ QueuedHasAttempts' /\ OneResult'
  BY <1>1, <1>2 DEF TokenIsAttempt, AttemptsCounted, QueuedHasAttempts, OneResult, Active
<1>5. RootsFit' /\ OneActivePerTarget'
  BY <1>2 DEF RootsFit, OneActivePerTarget, TargetOf, KindOf, Active
<1>6. RecordingMirrorsJob'
  <2> SUFFICES ASSUME NEW r \in Recordings PROVE RecordingMirrors(r)'
    BY DEF RecordingMirrorsJob
  <2>0. RecordingMirrors(r)
    BY DEF RecordingMirrorsJob
  <2>1. CASE KindOf(j) = "full" /\ TargetOf(j) = r
    <3>1. Active(j)
      BY DEF Active
    <3>2. \A i \in Jobs : TargetOf(i) = r /\ Active(i) => i = j
      BY <2>1, <3>1 DEF OneActivePerTarget
    <3>3. recStatus'[r] = "processing" /\ status'[j] = "processing"
      BY <2>1, <1>2, <1>3
    <3>4. \A i \in Jobs : TargetOf(i) = r /\ status'[i] \in {"queued", "processing"} => i = j
      BY <3>2, <1>2 DEF Active
    <3>5. ASSUME NEW s \in {"queued", "processing"}
          PROVE  recStatus'[r] = s
                   <=> \E i \in Jobs : TargetOf(i)' = r /\ KindOf(i) = "full" /\ status'[i] = s
      BY <2>1, <3>3, <3>4 DEF TargetOf
    <3>6. ASSUME NEW i \in Jobs, TargetOf(i)' = r, Active(i)' PROVE KindOf(i) = "full"
      BY <2>1, <3>4, <3>6 DEF TargetOf, Active
    <3> QED
      BY <3>5, <3>6 DEF RecordingMirrors, KindOf
  <2>2. CASE ~(KindOf(j) = "full" /\ TargetOf(j) = r)
    <3>1. recStatus'[r] = recStatus[r]
      BY <2>2, <1>3
    <3>2. \A i \in Jobs : TargetOf(i) = r /\ KindOf(i) = "full" => status'[i] = status[i]
      BY <2>2, <1>2
    <3>3. ASSUME NEW s \in {"queued", "processing"}
          PROVE  recStatus'[r] = s
                   <=> \E i \in Jobs : TargetOf(i)' = r /\ KindOf(i) = "full" /\ status'[i] = s
      BY <1>2, <2>0, <3>1, <3>2 DEF RecordingMirrors, TargetOf
    <3>4. ASSUME NEW i \in Jobs, TargetOf(i)' = r, Active(i)', KindOf(i) # "full"
          PROVE  recStatus'[r] = "completed"
      <4>1. Active(i) /\ TargetOf(i) = r
        BY <3>4, <1>1, <1>2 DEF Active, TargetOf
      <4> QED
        BY <3>1, <3>4, <4>1, <2>0 DEF RecordingMirrors
    <3>5. RecordingMirrors(r)'
            <=> /\ \A s \in {"queued", "processing"} :
                     recStatus'[r] = s
                       <=> \E i \in Jobs : TargetOf(i)' = r /\ KindOf(i) = "full" /\ status'[i] = s
                /\ \A i \in Jobs :
                     TargetOf(i)' = r /\ Active(i)' /\ KindOf(i) # "full"
                       => recStatus'[r] = "completed"
      BY DEF RecordingMirrors, KindOf
    <3> QED
      BY <3>3, <3>4, <3>5
  <2> QED
    BY <2>1, <2>2
<1>7. ChainPending'
  BY <1>1, <1>2 DEF ChainPending, ChainPendingAt, KindOf, Active, ChainFrom, Switches, Kinds, Jobs
<1>8. ChainAccounted' /\ ManualRunsAlone'
  BY <1>1, <1>2 DEF ChainAccounted, ManualRunsAlone, Active, Switches, Kinds, Jobs
<1> QED
  BY <1>4, <1>5, <1>6, <1>7, <1>8

\* What a follow-up is: a job of the same request that did not exist, behind the
\* only unfinished job there is for the recording.
LEMMA SpawnFacts ==
  ASSUME TypeOK, TableInv,
         NEW done \in SUBSET Jobs, NEW failed \in SUBSET Jobs, NEW retried \in SUBSET Jobs,
         Settles(done, failed, retried),
         NEW s \in Spawned(HandOff(done, failed))
  PROVE  \E p \in HandOff(done, failed) :
           /\ p \in Jobs /\ Active(p) /\ p \in done \cup failed
           /\ KindOf(p) = "full" => p \in done
           /\ s = <<p[1], NextStep(followUp[p])>>
           /\ s \in Jobs /\ KindOf(s) \in ChainFrom(followUp[p]) /\ KindOf(s) \in Switches
           /\ status[s] = "absent" /\ KindOf(s) \notin passedOver[p[1]]
           /\ TargetOf(s) = TargetOf(p)
           /\ followUp[p] = Chained(KindOf(p)) /\ KindOf(p) \in {"full", "analysis"}
<1>1. PICK p \in HandOff(done, failed) :
        NextStep(followUp[p]) # None /\ s = <<p[1], NextStep(followUp[p])>>
  BY DEF Spawned
<1>2. p \in Jobs /\ p \in done \cup failed /\ (KindOf(p) = "full" => p \in done)
  BY DEF HandOff
<1>3. Active(p)
  BY <1>2 DEF Settles, Active
<1>4. NextStep(followUp[p]) \in Switches /\ NextStep(followUp[p]) \in ChainFrom(followUp[p])
  BY <1>1 DEF NextStep, ChainFrom, Switches
<1>5. p[1] \in Roots /\ s \in Jobs /\ s[1] = p[1] /\ s[2] = NextStep(followUp[p])
  BY <1>1, <1>2, <1>4 DEF Jobs, Kinds, Switches
<1>6. ChainPendingAt(p)
  BY <1>2 DEF TableInv, ChainPending
<1>7. status[s] = "absent" /\ NextStep(followUp[p]) \notin passedOver[p[1]]
  BY <1>1, <1>3, <1>4, <1>6 DEF ChainPendingAt
<1>8. followUp[p] # None
  BY <1>4 DEF ChainFrom, None
<1>9. followUp[p] = Chained(KindOf(p)) /\ KindOf(p) \in {"full", "analysis"}
  BY <1>6, <1>8 DEF ChainPendingAt, Chained
<1> QED
  BY <1>1, <1>2, <1>3, <1>4, <1>5, <1>7, <1>9 DEF KindOf, TargetOf

LEMMA SettleTable ==
  ASSUME TypeOK, TableInv,
         NEW done \in SUBSET Jobs, NEW failed \in SUBSET Jobs, NEW retried \in SUBSET Jobs,
         Settles(done, failed, retried)
  PROVE  TableInv'
<1> DEFINE ended == HandOff(done, failed)
           spawned == Spawned(ended)
           Behind(p, s) ==
             /\ p \in Jobs /\ Active(p) /\ p \in done \cup failed
             /\ KindOf(p) = "full" => p \in done
             /\ s = <<p[1], NextStep(followUp[p])>>
             /\ s \in Jobs /\ KindOf(s) \in ChainFrom(followUp[p]) /\ KindOf(s) \in Switches
             /\ status[s] = "absent" /\ KindOf(s) \notin passedOver[p[1]]
             /\ TargetOf(s) = TargetOf(p)
             /\ followUp[p] = Chained(KindOf(p)) /\ KindOf(p) \in {"full", "analysis"}
<1>1. \A s \in spawned : \E p \in ended : Behind(p, s)
  BY SpawnFacts
<1>2. /\ \A j \in done \cup failed \cup retried : j \in Jobs /\ status[j] = "processing" /\ Active(j)
      /\ ended \subseteq done \cup failed
      /\ done \cap failed = {} /\ done \cap retried = {} /\ failed \cap retried = {}
      /\ \A j \in retried : attempts[j] < MaxAttempts
  BY DEF Settles, Active, HandOff
<1>3. \A s \in spawned : /\ s \in Jobs /\ status[s] = "absent" /\ KindOf(s) \in Switches
                         /\ s \notin done \cup failed \cup retried
  BY <1>1, <1>2
<1> HIDE DEF Behind, spawned, ended
<1>4. /\ \A j \in Jobs : /\ status'[j] = IF j \in done THEN "completed"
                                        ELSE IF j \in failed THEN "failed"
                                        ELSE IF j \in retried \cup spawned THEN "queued"
                                        ELSE status[j]
                         /\ followUp'[j] = IF j \in spawned THEN Chained(KindOf(j)) ELSE followUp[j]
                         /\ attempts'[j] = IF j \in spawned THEN 0 ELSE attempts[j]
                         /\ token'[j] = IF j \in done \cup failed \cup retried THEN 0 ELSE token[j]
                         /\ commits'[j] = IF j \in done THEN commits[j] + 1 ELSE commits[j]
      /\ \A r \in Recordings : recStatus'[r] = IF FullOf(r, done) THEN "completed"
                                              ELSE IF FullOf(r, failed) THEN "failed"
                                              ELSE IF FullOf(r, retried) THEN "queued"
                                              ELSE recStatus[r]
      /\ \A root \in Roots : passedOver'[root] =
           passedOver[root] \cup UNION {Skips(followUp[j]) : j \in {i \in ended : i[1] = root}}
      /\ target' = target
  BY DEF Settles, Settle, spawned, ended
<1>5. \A j \in Jobs :
        /\ j[1] \in Roots /\ j[2] \in Kinds /\ j = <<j[1], j[2]>>
        /\ TargetOf(j)' = TargetOf(j)
        /\ Active(j)' <=> \/ j \in spawned
                          \/ Active(j) /\ j \notin done \cup failed
  BY <1>2, <1>3, <1>4 DEF Jobs, TargetOf, Active
<1>6. \A i, j \in Jobs : Active(i) /\ Active(j) /\ TargetOf(i) = TargetOf(j) => i = j
  BY DEF TableInv, OneActivePerTarget
<1>7. TokenIsAttempt' /\ AttemptsCounted' /\ QueuedHasAttempts'
  BY SMTT(30), <1>2, <1>3, <1>4, BoundsAssumption
     DEF TableInv, TokenIsAttempt, AttemptsCounted, QueuedHasAttempts
<1>8. OneResult'
  <2>1. \A j \in done : commits[j] = 0
    BY <1>2 DEF TableInv, OneResult
  <2>2. \A j \in spawned : commits[j] = 0
    BY <1>3 DEF TableInv, AttemptsCounted
  <2>3. \A j \in failed \cup retried : commits[j] = 0
    BY <1>2 DEF TableInv, OneResult
  <2> QED
    BY <1>2, <1>3, <1>4, <2>1, <2>2, <2>3 DEF TableInv, OneResult, Active
<1>9. OneActivePerTarget'
  <2> SUFFICES ASSUME NEW i \in Jobs, NEW j \in Jobs, Active(i)', Active(j)',
                      TargetOf(i) = TargetOf(j)
               PROVE  i = j
    BY <1>5 DEF OneActivePerTarget
  <2>1. CASE i \notin spawned /\ j \notin spawned
    BY <1>5, <1>6, <2>1
  <2>2. CASE i \in spawned /\ j \in spawned
    BY <1>1, <1>5, <1>6, <2>2 DEF Behind
  <2>3. CASE i \in spawned /\ j \notin spawned
    BY <1>1, <1>5, <1>6, <2>3 DEF Behind
  <2>4. CASE i \notin spawned /\ j \in spawned
    BY <1>1, <1>5, <1>6, <2>4 DEF Behind
  <2> QED
    BY <2>1, <2>2, <2>3, <2>4
<1>9a. \A root \in Roots : \A k :
         k \in passedOver'[root] <=> \/ k \in passedOver[root]
                                     \/ \E p \in ended : p[1] = root /\ k \in Skips(followUp[p])
  BY <1>4
<1>10. \A root \in Roots, k \in Kinds :
          /\ <<root, k>> \in Jobs
          /\ \A j \in Jobs : j[1] = root => TargetOf(j) = TargetOf(<<root, k>>)
  BY DEF Jobs, TargetOf
<1>11. RootsFit'
  <2> SUFFICES ASSUME NEW j \in Jobs
               PROVE  /\ TargetOf(j) = None => status'[j] = "absent" /\ passedOver'[j[1]] = {}
                      /\ status'[j] # "absent" => (TargetOf(j) \in Days <=> KindOf(j) = "daily_summary")
    BY <1>5 DEF RootsFit, KindOf
  <2>1. \A i \in Jobs : /\ TargetOf(i) = None => status[i] = "absent" /\ passedOver[i[1]] = {}
                        /\ status[i] # "absent" => (TargetOf(i) \in Days <=> KindOf(i) = "daily_summary")
    BY DEF TableInv, RootsFit
  <2>2. ASSUME TargetOf(j) = None PROVE status'[j] = "absent" /\ passedOver'[j[1]] = {}
    <3>1. \A i \in ended : i[1] # j[1]
      BY <1>2, <2>1, <2>2 DEF TargetOf
    <3>2. j \notin spawned /\ status[j] = "absent" /\ j \notin done \cup failed \cup retried
      BY <1>1, <1>2, <2>1, <2>2 DEF Behind, Active
    <3>3. status'[j] = "absent"
      BY <1>4, <3>2
    <3>5. \A k : k \notin passedOver'[j[1]]
      BY <1>5, <1>9a, <2>1, <2>2, <3>1
    <3>6. passedOver'[j[1]] = {}
      BY <3>5
    <3> QED
      BY <3>3, <3>6
  <2>3. ASSUME status'[j] # "absent"
        PROVE  TargetOf(j) \in Days <=> KindOf(j) = "daily_summary"
    <3>1. CASE j \in spawned
      BY <1>1, <2>1, <3>1 DEF Behind, Active, Switches
    <3>2. CASE j \notin spawned
      BY <1>2, <1>4, <2>1, <2>3, <3>2
    <3> QED
      BY <3>1, <3>2
  <2> QED
    BY <2>2, <2>3
<1>12. RecordingMirrorsJob'
  <2> SUFFICES ASSUME NEW r \in Recordings PROVE RecordingMirrors(r)'
    BY DEF RecordingMirrorsJob
  <2>0. RecordingMirrors(r)
    BY DEF TableInv, RecordingMirrorsJob
  <2>1. CASE \E j \in done \cup failed \cup retried : KindOf(j) = "full" /\ TargetOf(j) = r
    <3>1. PICK j \in done \cup failed \cup retried : KindOf(j) = "full" /\ TargetOf(j) = r
      BY <2>1
    <3>2. \A i \in Jobs : TargetOf(i) = r /\ Active(i) => i = j
      BY <1>2, <1>6, <3>1
    <3>3. recStatus'[r] = IF j \in done THEN "completed" ELSE IF j \in failed THEN "failed" ELSE "queued"
      BY <1>2, <1>4, <3>1, <3>2 DEF FullOf
    <3>4. ASSUME NEW i \in Jobs, TargetOf(i) = r, Active(i)'
          PROVE  \/ i = j /\ j \in retried
                 \/ KindOf(i) # "full" /\ j \in done
      <4>1. CASE i \in spawned
        BY <1>1, <1>2, <3>1, <3>2, <3>4, <4>1 DEF Behind, Switches
      <4>2. CASE i \notin spawned
        <5>1. Active(i) /\ i \notin done \cup failed
          BY <1>5, <3>4, <4>2
        <5>2. i = j
          BY <3>2, <3>4, <5>1
        <5> QED
          BY <3>1, <5>1, <5>2
      <4> QED
        BY <4>1, <4>2
    <3>5. ASSUME NEW s \in {"queued", "processing"}
          PROVE  recStatus'[r] = s
                   <=> \E i \in Jobs : TargetOf(i)' = r /\ KindOf(i) = "full" /\ status'[i] = s
      <4>1. ASSUME NEW i \in Jobs, TargetOf(i)' = r, KindOf(i) = "full", status'[i] = s
            PROVE  recStatus'[r] = s
        BY <1>2, <1>3, <1>4, <1>5, <3>3, <3>4, <4>1 DEF Active
      <4>2. ASSUME recStatus'[r] = s
            PROVE  \E i \in Jobs : TargetOf(i)' = r /\ KindOf(i) = "full" /\ status'[i] = s
        BY <1>2, <1>4, <1>5, <3>1, <3>3, <4>2
      <4> QED
        BY <4>1, <4>2
    <3>6. ASSUME NEW i \in Jobs, TargetOf(i)' = r, Active(i)', KindOf(i) # "full"
          PROVE  recStatus'[r] = "completed"
      BY <1>5, <3>1, <3>3, <3>4, <3>6
    <3> QED
      BY <3>5, <3>6 DEF RecordingMirrors, KindOf
  <2>2. CASE ~\E j \in done \cup failed \cup retried : KindOf(j) = "full" /\ TargetOf(j) = r
    <3>1. recStatus'[r] = recStatus[r]
      BY <1>4, <2>2 DEF FullOf
    <3>2. \A i \in Jobs : TargetOf(i) = r /\ KindOf(i) = "full" => status'[i] = status[i]
      BY <1>3, <1>4, <2>2 DEF Switches
    <3>3. ASSUME NEW i \in Jobs, TargetOf(i) = r, Active(i)', KindOf(i) # "full"
          PROVE  recStatus[r] = "completed"
      <4>1. CASE i \in spawned
        <5>1. PICK p \in ended : Behind(p, i)
          BY <1>1, <4>1
        <5>2. KindOf(p) # "full"
          BY <1>2, <2>2, <3>3, <5>1 DEF Behind
        <5> QED
          BY <2>0, <3>3, <5>1, <5>2 DEF Behind, RecordingMirrors
      <4>2. CASE i \notin spawned
        BY <1>5, <2>0, <3>3, <4>2 DEF RecordingMirrors
      <4> QED
        BY <4>1, <4>2
    <3> QED
      BY <1>5, <2>0, <3>1, <3>2, <3>3 DEF RecordingMirrors, KindOf
  <2> QED
    BY <2>1, <2>2
<1>13. \A i \in Jobs : Active(i) => \A p \in ended : p[1] = i[1] => p = i
  BY <1>2, <1>5, <1>6 DEF TargetOf
<1>14. \A j \in Jobs : /\ status[j] \in {"completed", "deleted"} => status'[j] = status[j]
                       /\ status'[j] = "absent" <=> status[j] = "absent" /\ j \notin spawned
                       /\ status'[j] = "completed" <=> status[j] = "completed" \/ j \in done
  BY <1>2, <1>3, <1>4 DEF Active
<1>15. ChainPending'
  <2> SUFFICES ASSUME NEW j \in Jobs PROVE ChainPendingAt(j)'
    BY DEF ChainPending
  <2> DEFINE full == <<j[1], "full">>
  <2>0. ChainPendingAt(j) /\ full \in Jobs /\ KindOf(full) = "full" /\ TargetOf(full) = TargetOf(j)
        /\ ChainPendingAt(full)
    BY <1>5, <1>10 DEF TableInv, ChainPending, Kinds, KindOf
  <2>1. CASE j \in spawned
    <3>1. PICK p \in ended : Behind(p, j)
      BY <1>1, <2>1
    <3>2. /\ p[1] = j[1] /\ followUp'[j] = Chained(KindOf(j))
          /\ KindOf(j) = NextStep(followUp[p]) /\ ChainPendingAt(p)
      BY <1>4, <2>1, <3>1 DEF Behind, KindOf, TableInv, ChainPending
    <3>3. KindOf(j) # "full"
      BY <1>3, <2>1 DEF Switches
    <3>4. ASSUME KindOf(j) = "analysis"
          PROVE  /\ status'[<<j[1], "translation">>] = "absent"
                 /\ "translation" \notin passedOver'[j[1]]
                 /\ status'[full] \in {"completed", "deleted"}
      <4>1. followUp[p] = "analysis" /\ KindOf(p) = "full" /\ p \in done
        BY <3>1, <3>4 DEF Behind, ChainFrom, Switches, Chained, None
      <4>2. p = full
        BY <1>5, <3>1, <3>2, <4>1 DEF Behind, KindOf
      <4>3. <<j[1], "translation">> \in Jobs /\ status[<<j[1], "translation">>] = "absent"
            /\ "translation" \notin passedOver[j[1]]
        BY <1>5, <1>10, <3>1, <3>2, <4>1 DEF Behind, ChainPendingAt, ChainFrom, Switches, Kinds
      <4>4. \A q \in ended : q[1] = j[1] => q = p
        BY <1>13, <3>1, <3>2 DEF Behind
      <4>5. <<j[1], "translation">> \notin spawned
        <5>1. ASSUME NEW q \in ended, Behind(q, <<j[1], "translation">>) PROVE FALSE
          BY <3>2, <3>4, <4>4, <5>1 DEF Behind
        <5> QED
          BY <1>1, <5>1
      <4>6. Skips(followUp[p]) = {}
        BY <3>2, <3>4, <4>1 DEF Skips, ChainFrom
      <4>7. "translation" \notin passedOver'[j[1]]
        BY <1>5, <1>9a, <4>3, <4>4, <4>6
      <4> QED
        BY <1>2, <1>4, <1>14, <4>1, <4>2, <4>3, <4>5, <4>7
    <3> QED
      BY <1>3, <2>1, <3>2, <3>3, <3>4 DEF ChainPendingAt, KindOf, Chained, ChainFrom, Switches, None
  <2>2. CASE j \notin spawned
    <3>1. followUp'[j] = followUp[j]
      BY <1>4, <2>2
    <3>2. Active(j)' => Active(j) /\ j \notin ended
      BY <1>2, <1>5, <2>2
    <3>3. ASSUME Active(j)', NEW kind \in ChainFrom(followUp[j])
          PROVE  status'[<<j[1], kind>>] = "absent" /\ kind \notin passedOver'[j[1]]
      <4>1. \A q \in ended : q[1] # j[1]
        BY <1>13, <3>2, <3>3
      <4>2. kind \in Kinds
        BY DEF ChainFrom, Switches, Kinds
      <4>3. status[<<j[1], kind>>] = "absent" /\ kind \notin passedOver[j[1]]
        BY <2>0, <3>2, <3>3 DEF ChainPendingAt
      <4>4. <<j[1], kind>> \notin spawned
        <5>1. ASSUME NEW q \in ended, Behind(q, <<j[1], kind>>) PROVE FALSE
          BY <4>1, <5>1 DEF Behind
        <5> QED
          BY <1>1, <5>1
      <4> QED
        BY <1>5, <1>9a, <1>10, <1>14, <4>1, <4>2, <4>3, <4>4
    <3>4. followUp[j] = "translation" => status'[full] \in {"completed", "deleted"}
      BY <1>14, <2>0 DEF ChainPendingAt
    <3>5. ASSUME Active(j)', KindOf(j) = "analysis", status'[full] = "completed"
          PROVE  followUp[j] = "translation"
      <4>1. full \notin done
        BY <1>2, <1>6, <2>0, <3>2, <3>5
      <4>2. status[full] = "completed"
        BY <1>14, <2>0, <3>5, <4>1
      <4> QED
        BY <2>0, <3>2, <3>5, <4>2 DEF ChainPendingAt
    <3> QED
      BY <2>0, <3>1, <3>2, <3>3, <3>4, <3>5 DEF ChainPendingAt, KindOf, ChainFrom, Chained
  <2> QED
    BY <2>1, <2>2
<1>16. ChainAccounted'
  <2> SUFFICES ASSUME NEW root \in Roots, NEW kind \in Switches
               PROVE  /\ status'[<<root, "full">>] = "completed" =>
                           \/ status'[<<root, kind>>] # "absent"
                           \/ kind \in passedOver'[root]
                           \/ kind = "translation" /\ Active(<<root, "analysis">>)'
                      /\ kind \in passedOver'[root] => status'[<<root, kind>>] = "absent"
    BY DEF ChainAccounted, Active
  <2> DEFINE full == <<root, "full">>
             analysis == <<root, "analysis">>
             job == <<root, kind>>
  <2>0. /\ full \in Jobs /\ analysis \in Jobs /\ job \in Jobs
        /\ KindOf(full) = "full" /\ KindOf(analysis) = "analysis" /\ KindOf(job) = kind
        /\ ChainPendingAt(full) /\ ChainPendingAt(analysis)
    BY <1>10 DEF Kinds, Switches, KindOf, TableInv, ChainPending
  <2>1. ASSUME NEW p \in ended, p[1] = root, NextStep(followUp[p]) # None
        PROVE  <<root, NextStep(followUp[p])>> \in spawned
    BY <2>1 DEF spawned, Spawned
  <2>2. ASSUME status'[full] = "completed"
        PROVE  \/ status'[job] # "absent"
               \/ kind \in passedOver'[root]
               \/ kind = "translation" /\ Active(analysis)'
    <3>1. CASE full \in done
      <4>1. followUp[full] = "analysis" /\ full \in ended
        BY <1>2, <2>0, <3>1 DEF ChainPendingAt, ended, HandOff
      <4>2. CASE NextStep("analysis") = "analysis"
        <5>1. analysis \in spawned
          BY <2>1, <4>1, <4>2 DEF None
        <5> QED
          BY <1>5, <1>14, <2>0, <5>1 DEF Switches
      <4>3. CASE NextStep("analysis") = "translation"
        <5>1. <<root, "translation">> \in spawned
          BY <2>1, <4>1, <4>3 DEF None
        <5>2. "analysis" \in Skips("analysis")
          BY <4>3 DEF Skips, ChainFrom, Switches
        <5> QED
          BY <1>9a, <1>14, <2>0, <4>1, <5>1, <5>2 DEF Switches
      <4>4. CASE NextStep("analysis") = None
        <5>1. Skips("analysis") = Switches
          BY <4>4 DEF Skips, ChainFrom, Switches, None
        <5> QED
          BY <1>9a, <4>1, <5>1
      <4> QED
        BY <4>2, <4>3, <4>4 DEF NextStep
    <3>2. CASE full \notin done
      <4>1. status[full] = "completed"
        BY <1>14, <2>0, <2>2, <3>2
      <4>2. \/ status[job] # "absent"
            \/ kind \in passedOver[root]
            \/ kind = "translation" /\ Active(analysis)
        BY <4>1 DEF TableInv, ChainAccounted
      <4>3. CASE status[job] # "absent" \/ kind \in passedOver[root]
        BY <1>9a, <1>14, <2>0, <4>3
      <4>4. CASE kind = "translation" /\ Active(analysis)
        <5>1. followUp[analysis] = "translation"
          BY <2>0, <4>1, <4>4 DEF ChainPendingAt
        <5>2. CASE analysis \notin done \cup failed
          BY <1>5, <2>0, <4>4, <5>2
        <5>3. CASE analysis \in done \cup failed
          <6>1. analysis \in ended
            BY <2>0, <5>3 DEF ended, HandOff
          <6>2. CASE NextStep("translation") = "translation"
            BY <1>14, <2>0, <2>1, <4>4, <5>1, <6>1, <6>2 DEF None
          <6>3. CASE NextStep("translation") = None
            <7>1. "translation" \in Skips("translation")
              BY <6>3 DEF Skips, ChainFrom, None
            <7> QED
              BY <1>9a, <4>4, <5>1, <6>1, <7>1
          <6> QED
            BY <6>2, <6>3 DEF NextStep
        <5> QED
          BY <5>2, <5>3
      <4> QED
        BY <4>2, <4>3, <4>4
    <3> QED
      BY <3>1, <3>2
  <2>3. ASSUME kind \in passedOver'[root] PROVE status'[job] = "absent"
    <3>1. CASE kind \in passedOver[root]
      <4>1. status[job] = "absent"
        BY <3>1 DEF TableInv, ChainAccounted
      <4>2. job \notin spawned
        <5>1. ASSUME NEW q \in ended, Behind(q, job) PROVE FALSE
          BY <2>0, <3>1, <5>1 DEF Behind
        <5> QED
          BY <1>1, <5>1
      <4> QED
        BY <1>14, <2>0, <4>1, <4>2
    <3>2. CASE kind \notin passedOver[root]
      <4>1. PICK p \in ended : p[1] = root /\ kind \in Skips(followUp[p])
        BY <1>9a, <2>3, <3>2
      <4>2. p \in Jobs /\ Active(p)
        BY <1>2
      <4>3. status[job] = "absent"
        BY <4>1, <4>2 DEF TableInv, ChainPending, ChainPendingAt, Skips
      <4>4. job \notin spawned
        <5>1. ASSUME NEW q \in ended, Behind(q, job) PROVE FALSE
          <6>1. q = p
            BY <1>13, <4>1, <4>2, <5>1 DEF Behind
          <6>2. kind = NextStep(followUp[p])
            BY <5>1, <6>1 DEF Behind
          <6> QED
            BY <4>1, <6>2 DEF Skips, ChainFrom, Switches
        <5> QED
          BY <1>1, <5>1
      <4> QED
        BY <1>14, <2>0, <4>3, <4>4
    <3> QED
      BY <3>1, <3>2
  <2> QED
    BY <2>2, <2>3
<1>17. ManualRunsAlone'
  <2> SUFFICES ASSUME NEW i \in Jobs, NEW j \in Jobs, i[1] = j[1], i # j,
                      "absent" \notin {status'[i], status'[j]}
               PROVE  status'[<<i[1], "full">>] \in {"completed", "deleted"}
    BY DEF ManualRunsAlone
  <2>0. <<i[1], "full">> \in Jobs
    BY <1>5, <1>10 DEF Kinds
  <2>1. ASSUME NEW s \in spawned PROVE status'[<<s[1], "full">>] \in {"completed", "deleted"}
    <3>1. PICK p \in ended : Behind(p, s)
      BY <1>1
    <3>2. CASE KindOf(p) = "full"
      <4>1. p \in done /\ p = <<s[1], "full">>
        BY <1>5, <3>1, <3>2 DEF Behind, KindOf
      <4> QED
        BY <1>4, <3>1, <4>1 DEF Behind
    <3>3. CASE KindOf(p) = "analysis"
      <4>1. followUp[p] = "translation" /\ p[1] = s[1]
        BY <3>1, <3>3 DEF Behind, Chained
      <4>2. status[<<s[1], "full">>] \in {"completed", "deleted"}
        BY <3>1, <4>1 DEF Behind, TableInv, ChainPending, ChainPendingAt
      <4> QED
        BY <1>3, <1>5, <1>10, <1>14, <4>2 DEF Kinds
    <3> QED
      BY <3>1, <3>2, <3>3 DEF Behind
  <2>2. CASE i \in spawned \/ j \in spawned
    BY <2>1, <2>2
  <2>3. CASE i \notin spawned /\ j \notin spawned
    <3>1. "absent" \notin {status[i], status[j]}
      BY <1>14, <2>3
    <3> QED
      BY <1>14, <2>0, <3>1 DEF TableInv, ManualRunsAlone
  <2> QED
    BY <2>2, <2>3
<1> QED
  BY <1>7, <1>8, <1>9, <1>11, <1>12, <1>15, <1>16, <1>17 DEF TableInv

LEMMA StepTable == ASSUME IInv, [Next]_vars PROVE TableInv'
  BY StepCases, QuietTable, InsertTable, DeleteTable, ClaimTable, SettleTable DEF IInv
--------------------------------------------------------------------------------
(* Types. *)

LEMMA LeaveType ==
  ASSUME TypeOK, NEW w \in Workers,
         NEW next \in {"down", "starting", "idle", "busy", "saving", "failing"},
         Leave(w, next)
  PROVE  /\ phase' \in [Workers -> {"down", "starting", "idle", "busy", "saving", "failing"}]
         /\ claim' \in [Workers -> (Jobs \X (1..MaxAttempts)) \cup {NoClaim}]
         /\ step' \in [Workers -> 0..(Len(FullStages) + 1)]
         /\ lost' \in [Workers -> BOOLEAN]
         /\ retryable' \in [Workers -> BOOLEAN]
  BY SMTT(30), BoundsAssumption DEF TypeOK, Leave

LEMMA GoFailType ==
  ASSUME TypeOK, NEW w \in Workers, NEW b \in BOOLEAN, GoFail(w, b)
  PROVE  /\ phase' \in [Workers -> {"down", "starting", "idle", "busy", "saving", "failing"}]
         /\ claim' \in [Workers -> (Jobs \X (1..MaxAttempts)) \cup {NoClaim}]
         /\ step' \in [Workers -> 0..(Len(FullStages) + 1)]
         /\ lost' \in [Workers -> BOOLEAN]
         /\ retryable' \in [Workers -> BOOLEAN]
  BY DEF TypeOK, GoFail

LEMMA StepType == ASSUME IInv, [Next]_vars PROVE TypeOK'
<1> USE DEF IInv, recVars, jobVars, history, workerVars
<1>0. MaxAttempts \in Nat \ {0} /\ Lease \in Nat /\ MaxDelay \in Nat /\ Len(FullStages) \in Nat
  BY BoundsAssumption
<1>17. Lease \in 0..Lease
  BY <1>0
<1>1. ASSUME NEW root \in Roots, NEW t \in Targets, NEW kind \in Kinds, NEW next \in Switches \cup {None},
             Enqueue(root, t, kind, next),
             recStatus' \in [Recordings -> RecordingStatus \cup {"absent", "deleted"}]
      PROVE  TypeOK'
  BY <1>1 DEF Enqueue, TypeOK, JobStatus
<1>2. ASSUME NEW root \in Roots, NEW r \in Recordings, Ingest(root, r) PROVE TypeOK'
  <2>1. recStatus' \in [Recordings -> RecordingStatus \cup {"absent", "deleted"}]
    BY <1>2 DEF Ingest, TypeOK, RecordingStatus
  <2> QED
    BY <1>1, <1>2, <2>1 DEF Ingest, Targets, Kinds, Chained, Switches
<1>3. ASSUME NEW root \in Roots, NEW r \in Recordings,
             NEW kind \in {"full", "analysis", "translation"}, Reprocess(root, r, kind)
      PROVE  TypeOK'
  <2>1. recStatus' \in [Recordings -> RecordingStatus \cup {"absent", "deleted"}]
    BY <1>3 DEF Reprocess, TypeOK, RecordingStatus
  <2> QED
    BY <1>1, <1>3, <2>1 DEF Reprocess, Targets, Kinds, Chained, Switches
<1>4. ASSUME NEW root \in Roots, NEW d \in Days, QueueSummary(root, d) PROVE TypeOK'
  BY <1>1, <1>4 DEF QueueSummary, Targets, Kinds, TypeOK
<1>5. ASSUME NEW r \in Recordings, DeleteRecording(r) PROVE TypeOK'
  BY <1>5 DEF DeleteRecording, TypeOK
<1>6. ASSUME NEW switches \in [Switches -> BOOLEAN], UpdateSettings(switches) PROVE TypeOK'
  BY <1>6 DEF UpdateSettings, TypeOK
<1>7. ASSUME NEW w \in Workers, Start(w) PROVE TypeOK'
  BY <1>7 DEF Start, TypeOK
<1>8. ASSUME NEW w \in Workers, NEW j \in Jobs, ClaimNext(w, j) PROVE TypeOK'
  <2>1. attempts[j] + 1 \in 1..MaxAttempts
    BY <1>0, <1>8 DEF ClaimNext, TypeOK, TableInv, QueuedHasAttempts
  <2>2. ClaimedStage(KindOf(j)) \in Stages
    BY StageFacts DEF Jobs, KindOf
  <2>3. recStatus' \in [Recordings -> RecordingStatus \cup {"absent", "deleted"}]
    BY <1>8 DEF ClaimNext, TypeOK, RecordingStatus
  <2>4. /\ attempts' \in [Jobs -> 0..MaxAttempts] /\ token' \in [Jobs -> 0..MaxAttempts]
        /\ claim' \in [Workers -> (Jobs \X (1..MaxAttempts)) \cup {NoClaim}]
    BY <1>0, <1>8, <2>1 DEF ClaimNext, TypeOK
  <2>5. leaseLeft' \in [Jobs -> 0..Lease]
    BY <1>8, <1>17 DEF ClaimNext, TypeOK
  <2> QED
    BY <1>8, <2>2, <2>3, <2>4, <2>5 DEF ClaimNext, TypeOK, JobStatus
<1>9. ASSUME NEW w \in Workers, Heartbeat(w) PROVE TypeOK'
  <2>1. leaseLeft' \in [Jobs -> 0..Lease]
    BY <1>9, <1>17 DEF Heartbeat, TypeOK
  <2> QED
    BY <1>9, <2>1 DEF Heartbeat, TypeOK
<1>10. ASSUME NEW w \in Workers, Progress(w) PROVE TypeOK'
  <2>1. step[w] \in Nat /\ (step[w] < Len(FullStages) => FullStages[step[w] + 1] \in Stages)
    BY <1>0, StageFacts DEF TypeOK
  <2>2. CASE Owns(w) /\ ~lost[w]
    <3>1. leaseLeft' \in [Jobs -> 0..Lease]
      BY <1>10, <1>17, <2>2 DEF Progress, TypeOK
    <3>2. step' \in [Workers -> 0..(Len(FullStages) + 1)]
      <4>1. step[w] + 1 \in 0..(Len(FullStages) + 1)
        BY <1>0, <1>10, <2>1 DEF Progress
      <4> QED
        BY <1>10, <2>2, <4>1 DEF Progress, TypeOK
    <3>3. stage' \in [Jobs -> Stages]
      BY <1>10, <2>1, <2>2 DEF Progress, TypeOK
    <3> QED
      BY <1>10, <2>2, <3>1, <3>2, <3>3 DEF Progress, TypeOK
  <2>3. CASE ~(Owns(w) /\ ~lost[w])
    BY <1>10, <2>3, LeaveType DEF Progress, TypeOK
  <2> QED
    BY <2>2, <2>3
<1>11. ASSUME NEW w \in Workers, Finish(w) PROVE TypeOK'
  <2>1. CASE lost[w]
    BY <1>11, <2>1, LeaveType DEF Finish, TypeOK
  <2>2. CASE ~lost[w]
    BY <1>11, <2>2 DEF Finish, TypeOK
  <2> QED
    BY <2>1, <2>2
<1>12. ASSUME NEW w \in Workers, NEW b \in BOOLEAN, ProcessorFails(w, b) \/ SaveFails(w, b)
       PROVE  TypeOK'
  <2>1. GoFail(w, b)
    BY <1>12 DEF ProcessorFails, SaveFails
  <2> QED
    BY SMTT(30), <1>12, <2>1, GoFailType DEF ProcessorFails, SaveFails, TypeOK
<1>13. ASSUME NEW w \in Workers, Discard(w) \/ Crash(w) PROVE TypeOK'
  BY <1>13, LeaveType DEF Discard, Crash, TypeOK
<1>14. ASSUME NEW w \in Workers,
              \/ \E S \in SUBSET Expired : RecoverExpired(w, S)
              \/ Complete(w)
              \/ Fail(w)
       PROVE  TypeOK'
  <2>1. \E done, failed, retried \in SUBSET Jobs : Settles(done, failed, retried)
    BY <1>14, SettleCases
  <2>2. Leave(w, "idle") \/ GoFail(w, TRUE)
    BY <1>14 DEF RecoverExpired, Complete, Fail
  <2> QED
    BY <2>1, <2>2, SettleType, LeaveType, GoFailType DEF TypeOK, TableInv
<1>15. ASSUME Tick PROVE TypeOK'
  <2>1. leaseLeft' \in [Jobs -> 0..Lease]
    BY <1>0, <1>15 DEF Tick, TypeOK
  <2>2. availableIn' \in [Jobs -> 0..MaxDelay]
    BY <1>0, <1>15 DEF Tick, TypeOK
  <2> QED
    BY <1>15, <2>1, <2>2 DEF Tick, TypeOK
<1>16. ASSUME UNCHANGED vars PROVE TypeOK'
  BY <1>16 DEF vars, TypeOK
<1> QED
  BY <1>2, <1>3, <1>4, <1>5, <1>6, <1>7, <1>8, <1>9, <1>10, <1>11, <1>12, <1>13, <1>14, <1>15, <1>16
     DEF Next, Request, Worker, Work
--------------------------------------------------------------------------------
(* One row at a time: the steps a job can take. *)

RowStep(j) ==
  \/ /\ status'[j] = status[j] /\ attempts'[j] = attempts[j]
     /\ commits'[j] = commits[j] /\ token'[j] = token[j]
  \/ /\ status[j] = "absent" /\ status'[j] = "queued" /\ attempts[j] = 0
     /\ attempts'[j] = 0 /\ commits'[j] = commits[j] /\ token'[j] = token[j]
  \/ /\ status[j] = "queued" /\ status'[j] = "processing" /\ attempts[j] < MaxAttempts
     /\ attempts'[j] = attempts[j] + 1 /\ commits'[j] = commits[j]
     /\ token'[j] = attempts[j] + 1
  \/ /\ status[j] = "processing" /\ attempts'[j] = attempts[j] /\ token'[j] = 0
     /\ \/ status'[j] = "completed" /\ commits'[j] = commits[j] + 1
        \/ status'[j] = "failed" /\ commits'[j] = commits[j]
        \/ status'[j] = "queued" /\ commits'[j] = commits[j] /\ attempts[j] < MaxAttempts
  \/ /\ status[j] \in {"completed", "failed"} /\ status'[j] = "deleted"
     /\ attempts'[j] = attempts[j] /\ commits'[j] = commits[j] /\ token'[j] = token[j]

LEMMA RowSteps == ASSUME IInv, [Next]_vars, NEW j \in Jobs PROVE RowStep(j)
<1> USE DEF IInv
<1>1. CASE Quiet
  BY <1>1 DEF Quiet, RowStep
<1>2. ASSUME NEW root \in Roots, NEW t \in Targets, NEW kind \in Kinds, Inserts(root, t, kind)
      PROVE  RowStep(j)
  <2>1. j = <<root, kind>> => status[j] = "absent" /\ attempts[j] = 0
    BY <1>2, NamesAssumption
       DEF Inserts, Enqueue, TableInv, RootsFit, AttemptsCounted, TargetOf
  <2> QED
    BY <1>2, <2>1 DEF Inserts, Enqueue, RowStep, TypeOK, history
<1>3. ASSUME NEW r \in Recordings, DeleteRecording(r) PROVE RowStep(j)
  <2>1. TargetOf(j) = r => ~Active(j)
    BY <1>3 DEF DeleteRecording, ActiveOn
  <2> QED
    BY <1>3, <2>1 DEF DeleteRecording, RowStep, TypeOK, history, Active, JobStatus
<1>4. ASSUME NEW w \in Workers, NEW i \in Jobs, ClaimNext(w, i) PROVE RowStep(j)
  <2>1. status[i] = "queued" /\ attempts[i] < MaxAttempts
    BY <1>4 DEF ClaimNext, TableInv, QueuedHasAttempts
  <2> QED
    BY <1>4, <2>1 DEF ClaimNext, RowStep, TypeOK, history
<1>5. ASSUME NEW done \in SUBSET Jobs, NEW failed \in SUBSET Jobs, NEW retried \in SUBSET Jobs,
             Settles(done, failed, retried)
      PROVE  RowStep(j)
  <2> DEFINE spawned == Spawned(HandOff(done, failed))
  <2>1. j \in spawned => status[j] = "absent"
    BY <1>5, SpawnFacts
  <2>2. j \in spawned => attempts[j] = 0
    BY <2>1 DEF TableInv, AttemptsCounted
  <2>3. j \in done \cup failed \cup retried =>
          /\ status[j] = "processing" /\ j \notin spawned
          /\ j \in retried => attempts[j] < MaxAttempts
    BY <1>5, <2>1 DEF Settles
  <2>4. done \cap failed = {} /\ done \cap retried = {} /\ failed \cap retried = {}
    BY <1>5 DEF Settles
  <2>5. /\ status'[j] = IF j \in done THEN "completed"
                        ELSE IF j \in failed THEN "failed"
                        ELSE IF j \in retried \cup spawned THEN "queued"
                        ELSE status[j]
        /\ attempts'[j] = IF j \in spawned THEN 0 ELSE attempts[j]
        /\ token'[j] = IF j \in done \cup failed \cup retried THEN 0 ELSE token[j]
        /\ commits'[j] = IF j \in done THEN commits[j] + 1 ELSE commits[j]
    BY <1>5 DEF Settles, Settle
  <2> HIDE DEF spawned
  <2> QED
    BY <2>1, <2>2, <2>3, <2>4, <2>5 DEF RowStep
<1> QED
  BY StepCases, <1>1, <1>2, <1>3, <1>4, <1>5

\* A token that was handed out once is never handed out again: whoever owns a row
\* after a step with a token it already had owned the row before the step.
LEMMA TokensPass ==
  ASSUME IInv, [Next]_vars, NEW j \in Jobs
  PROVE  /\ attempts'[j] >= attempts[j]
         /\ \A t \in 1..attempts[j] : OwnsRow(j, t)' => OwnsRow(j, t)
<1>1. attempts[j] \in Nat
  BY DEF IInv, TypeOK
<1> QED
  BY <1>1, RowSteps DEF RowStep, OwnsRow

\* The stage of a row that stays with its owner changes only by a report.
LEMMA StageKept ==
  ASSUME IInv, [Next]_vars, NEW j \in Jobs, NEW t \in 1..attempts[j],
         OwnsRow(j, t), OwnsRow(j, t)'
  PROVE  \/ stage'[j] = stage[j]
         \/ \E v \in Workers : Progress(v) /\ Owns(v) /\ Job(v) = j
<1> USE DEF IInv
<1> DEFINE Goal == \/ stage'[j] = stage[j]
                   \/ \E v \in Workers : Progress(v) /\ Owns(v) /\ Job(v) = j
<1>1. status[j] = "processing" /\ status'[j] = "processing"
  BY DEF OwnsRow
<1>2. ASSUME Request \/ Tick \/ UNCHANGED vars PROVE Goal
  BY <1>2 DEF Request, Ingest, Reprocess, QueueSummary, Enqueue, DeleteRecording, UpdateSettings,
              Tick, vars, jobVars
<1>3. ASSUME NEW v \in Workers, Progress(v) PROVE Goal
  <2>1. CASE Owns(v) /\ Job(v) = j
    BY <1>3, <2>1
  <2>2. CASE ~(Owns(v) /\ Job(v) = j)
    BY <1>3, <2>2 DEF Progress, TypeOK
  <2> QED
    BY <2>1, <2>2
<1>4. ASSUME NEW v \in Workers, NEW i \in Jobs, ClaimNext(v, i) PROVE Goal
  BY <1>1, <1>4 DEF ClaimNext, TypeOK
<1>5. ASSUME NEW v \in Workers,
             (\E S \in SUBSET Expired : RecoverExpired(v, S)) \/ Complete(v) \/ Fail(v)
      PROVE  Goal
  <2>1. PICK done \in SUBSET Jobs, failed \in SUBSET Jobs, retried \in SUBSET Jobs :
               Settles(done, failed, retried)
    BY <1>5, SettleCases
  <2>2. j \notin Spawned(HandOff(done, failed))
    BY <1>1, <2>1, SpawnFacts
  <2> QED
    BY <1>1, <2>1, <2>2 DEF Settles, Settle
<1>6. ASSUME NEW v \in Workers,
             \/ Start(v) \/ Heartbeat(v) \/ Finish(v) \/ Discard(v) \/ Crash(v)
             \/ \E b \in BOOLEAN : ProcessorFails(v, b) \/ SaveFails(v, b)
      PROVE  Goal
  BY <1>6 DEF Start, Heartbeat, Finish, Discard, Crash, ProcessorFails, SaveFails, jobVars
<1> QED
  BY <1>2, <1>3, <1>4, <1>5, <1>6 DEF Next, Worker, Work
--------------------------------------------------------------------------------
(* The workers: what they hold stays consistent with the job table. *)

\* A worker that is not claiming keeps its claim or drops everything about it;
\* claim_lost is raised only by its own heartbeat, on a claim that is gone.
Keeps(w) ==
  /\ claim'[w] = claim[w]
  /\ InJob(w)' <=> InJob(w)
  /\ step'[w] = step[w] \/ (Progress(w) /\ Owns(w) /\ step'[w] = step[w] + 1)
  /\ lost'[w] => lost[w] \/ (InJob(w) /\ ~Owns(w) /\ Heartbeat(w))
  /\ ~InJob(w) => lost'[w] = lost[w] /\ step'[w] = step[w]
Drops(w) == ~InJob(w)' /\ claim'[w] = NoClaim /\ ~lost'[w] /\ step'[w] = 0

LEMMA LeaveDrops ==
  ASSUME TypeOK, NEW w \in Workers, NEW v \in Workers, NEW next \in {"down", "idle"},
         Leave(v, next)
  PROVE  Keeps(w) \/ Drops(w)
<1>1. CASE w = v
  BY <1>1 DEF Leave, Drops, InJob, TypeOK
<1>2. CASE w # v
  BY <1>2 DEF Leave, Keeps, InJob, TypeOK
<1> QED
  BY <1>1, <1>2

LEMMA GoFailKeeps ==
  ASSUME TypeOK, NEW w \in Workers, NEW v \in Workers, NEW b \in BOOLEAN, InJob(v), GoFail(v, b)
  PROVE  Keeps(w)
  BY DEF GoFail, Keeps, InJob, TypeOK

LEMMA WorkerCases ==
  ASSUME IInv, [Next]_vars, NEW w \in Workers
  PROVE  \/ Keeps(w)
         \/ Drops(w)
         \/ \E j \in Jobs : ClaimNext(w, j)
<1> USE DEF IInv
<1> DEFINE Goal == Keeps(w) \/ Drops(w) \/ \E j \in Jobs : ClaimNext(w, j)
<1>1. ASSUME UNCHANGED workerVars PROVE Goal
  BY <1>1 DEF workerVars, Keeps, InJob
<1>2. ASSUME Request \/ Tick \/ UNCHANGED vars PROVE Goal
  <2>1. UNCHANGED workerVars
    BY <1>2 DEF Request, Ingest, Reprocess, QueueSummary, Enqueue, DeleteRecording,
                UpdateSettings, Tick, vars, workerVars
  <2> QED
    BY <1>1, <2>1
<1>3. ASSUME NEW v \in Workers, Start(v) PROVE Goal
  BY <1>3 DEF Start, Keeps, InJob, TypeOK
<1>4. ASSUME NEW v \in Workers, NEW j \in Jobs, ClaimNext(v, j) PROVE Goal
  <2>1. CASE w = v
    BY <1>4, <2>1
  <2>2. CASE w # v
    BY <1>4, <2>2 DEF ClaimNext, Keeps, InJob, TypeOK
  <2> QED
    BY <2>1, <2>2
<1>5. ASSUME NEW v \in Workers, Heartbeat(v) PROVE Goal
  BY <1>5 DEF Heartbeat, Keeps, InJob, TypeOK
<1>6. ASSUME NEW v \in Workers, Progress(v) PROVE Goal
  <2>1. CASE Owns(v) /\ ~lost[v]
    <3>1. InJob(v)
      BY <2>1 DEF Owns
    <3> QED
      BY <1>6, <2>1, <3>1 DEF Progress, Keeps, InJob, TypeOK
  <2>2. CASE ~(Owns(v) /\ ~lost[v])
    BY <1>6, <2>2, LeaveDrops DEF Progress
  <2> QED
    BY <2>1, <2>2
<1>7. ASSUME NEW v \in Workers, Finish(v) PROVE Goal
  <2>1. CASE lost[v]
    BY <1>7, <2>1, LeaveDrops DEF Finish
  <2>2. CASE ~lost[v]
    BY <1>7, <2>2 DEF Finish, Keeps, InJob, TypeOK
  <2> QED
    BY <2>1, <2>2
<1>8. ASSUME NEW v \in Workers, NEW b \in BOOLEAN, ProcessorFails(v, b) \/ SaveFails(v, b)
      PROVE  Goal
  BY <1>8, GoFailKeeps DEF ProcessorFails, SaveFails, InJob
<1>9. ASSUME NEW v \in Workers, Complete(v) PROVE Goal
  BY <1>9, LeaveDrops, GoFailKeeps DEF Complete, InJob
<1>10. ASSUME NEW v \in Workers,
              (\E S \in SUBSET Expired : RecoverExpired(v, S)) \/ Fail(v) \/ Discard(v) \/ Crash(v)
       PROVE  Goal
  BY <1>10, LeaveDrops DEF RecoverExpired, Fail, Discard, Crash
<1> QED
  BY <1>2, <1>3, <1>4, <1>5, <1>6, <1>7, <1>8, <1>9, <1>10 DEF Next, Worker, Work

\* Claims with the same token are the same claim, and that is one worker's.
LEMMA OwnerUnique == ASSUME IInv PROVE OneOwner
<1> SUFFICES ASSUME NEW v \in Workers, NEW w \in Workers, Owns(v), Owns(w), Job(v) = Job(w)
             PROVE  v = w
  BY DEF OneOwner
<1>1. InJob(v) /\ InJob(w) /\ claim[v][2] = claim[w][2] /\ claim[v][1] = claim[w][1]
  BY DEF Owns, OwnsRow, Job
<1>2. claim[v] \in Jobs \X (1..MaxAttempts) /\ claim[w] \in Jobs \X (1..MaxAttempts)
  BY <1>1 DEF IInv, TypeOK, WorkerInv, ClaimsLive
<1>3. claim[v] = claim[w]
  BY <1>1, <1>2
<1> QED
  BY <1>1, <1>3 DEF IInv, WorkerInv, ClaimsDistinct

\* Whoever owns a row after a step and kept its claim owned it before.
LEMMA OwnedBefore ==
  ASSUME IInv, [Next]_vars, NEW w \in Workers, Keeps(w), Owns(w)'
  PROVE  /\ Owns(w) /\ Job(w) \in Jobs /\ Job(w)' = Job(w)
         /\ claim[w][2] \in 1..attempts[Job(w)]
         /\ OwnsRow(Job(w), claim[w][2])'
<1>1. InJob(w) /\ claim'[w] = claim[w]
  BY DEF Keeps, Owns
<1>2. claim[w] # NoClaim
  BY <1>1 DEF IInv, WorkerInv, ClaimsLive
<1>3. claim[w] \in Jobs \X (1..MaxAttempts)
  BY <1>2 DEF IInv, TypeOK
<1>4. Job(w) \in Jobs /\ claim[w][2] \in 1..attempts[Job(w)]
  BY <1>1, <1>3 DEF Job, IInv, WorkerInv, ClaimsLive, TypeOK
<1>5. OwnsRow(Job(w), claim[w][2])' /\ Job(w)' = Job(w)
  BY <1>1 DEF Owns, Job, OwnsRow
<1> QED
  BY <1>1, <1>4, <1>5, TokensPass DEF Owns

LEMMA StepWorkers == ASSUME IInv, [Next]_vars PROVE WorkerInv'
<1> USE DEF IInv
<1>0. TypeOK' /\ TableInv'
  BY StepType, StepTable
<1>1. ClaimsLive'
  <2> SUFFICES ASSUME NEW w \in Workers
               PROVE  /\ InJob(w)' <=> claim'[w] # NoClaim
                      /\ InJob(w)' => claim'[w][2] <= attempts'[claim'[w][1]]
                      /\ ~InJob(w)' => ~lost'[w] /\ step'[w] = 0
    BY DEF ClaimsLive, Job
  <2>0. /\ InJob(w) <=> claim[w] # NoClaim
        /\ InJob(w) => claim[w][2] <= attempts[Job(w)]
        /\ ~InJob(w) => ~lost[w] /\ step[w] = 0
    BY DEF WorkerInv, ClaimsLive
  <2>1. CASE Keeps(w)
    <3>1. ASSUME InJob(w) PROVE claim[w][2] <= attempts'[claim[w][1]]
      <4>1. claim[w] \in Jobs \X (1..MaxAttempts)
        BY <2>0, <3>1 DEF TypeOK
      <4>2. PICK j \in Jobs : j = claim[w][1]
        BY <4>1
      <4>3. attempts'[j] >= attempts[j]
        BY TokensPass
      <4>4. attempts[j] \in Nat /\ attempts'[j] \in Nat /\ claim[w][2] \in Nat
        BY <1>0, <4>1 DEF TypeOK
      <4>5. claim[w][2] <= attempts[j]
        BY <2>0, <3>1, <4>2 DEF Job
      <4> QED
        BY <4>2, <4>3, <4>4, <4>5
    <3> QED
      BY <2>0, <2>1, <3>1 DEF Keeps
  <2>2. CASE Drops(w)
    BY <2>2 DEF Drops
  <2>3. ASSUME NEW j \in Jobs, ClaimNext(w, j)
        PROVE  /\ InJob(w)' /\ claim'[w] # NoClaim
               /\ claim'[w][2] <= attempts'[claim'[w][1]]
    <3>1. claim'[w] = <<j, attempts[j] + 1>> /\ attempts'[j] = attempts[j] + 1 /\ InJob(w)'
      BY <2>3 DEF ClaimNext, TypeOK, InJob
    <3>2. attempts[j] \in Nat
      BY DEF TypeOK
    <3> QED
      BY <3>1, <3>2 DEF NoClaim
  <2> QED
    BY <2>1, <2>2, <2>3, WorkerCases
<1>2. ClaimsDistinct'
  <2>1. ASSUME NEW v \in Workers, NEW w \in Workers, NEW j \in Jobs, v # w, ClaimNext(v, j),
               InJob(w)'
        PROVE  claim'[v] # claim'[w]
    <3>1. claim'[v] = <<j, attempts[j] + 1>> /\ claim'[w] = claim[w] /\ InJob(w)
      BY <2>1 DEF ClaimNext, TypeOK, InJob
    <3>2. claim[w][2] <= attempts[claim[w][1]] /\ attempts[j] \in Nat
      BY <3>1 DEF WorkerInv, ClaimsLive, Job, TypeOK
    <3> QED
      BY <3>1, <3>2
  <2>2. ASSUME NEW v \in Workers, NEW w \in Workers, Keeps(v), Keeps(w), InJob(v)', InJob(w)',
               claim'[v] = claim'[w]
        PROVE  v = w
    BY <2>2 DEF Keeps, WorkerInv, ClaimsDistinct
  <2> SUFFICES ASSUME NEW v \in Workers, NEW w \in Workers, InJob(v)', InJob(w)',
                      claim'[v] = claim'[w]
               PROVE  v = w
    BY DEF ClaimsDistinct
  <2>3. /\ Keeps(v) \/ \E j \in Jobs : ClaimNext(v, j)
        /\ Keeps(w) \/ \E j \in Jobs : ClaimNext(w, j)
    BY WorkerCases DEF Drops
  <2> QED
    BY <2>1, <2>2, <2>3
<1>3. LostIsLost'
  <2> SUFFICES ASSUME NEW w \in Workers, lost'[w], Owns(w)' PROVE FALSE
    BY DEF LostIsLost
  <2>1. CASE Keeps(w)
    <3>1. Owns(w)
      BY <2>1, OwnedBefore
    <3> QED
      BY <2>1, <3>1 DEF Keeps, WorkerInv, LostIsLost
  <2>2. CASE \E j \in Jobs : ClaimNext(w, j)
    <3>1. lost'[w] = lost[w] /\ ~InJob(w)
      BY <2>2 DEF ClaimNext, InJob
    <3> QED
      BY <3>1 DEF WorkerInv, ClaimsLive
  <2> QED
    BY <2>1, <2>2, WorkerCases DEF Drops
<1>4. StageIsOwners'
  <2> DEFINE Last(n) == IF n < Len(FullStages) THEN n ELSE Len(FullStages)
             Shown(n) == FullStages[IF Last(n) = 0 THEN 1 ELSE Last(n)]
  <2> SUFFICES ASSUME NEW w \in Workers, Owns(w)', KindOf(Job(w)') = "full"
               PROVE  stage'[Job(w)'] = Shown(step'[w])
    BY DEF StageIsOwners, KindOf, Job
  <2>0. Len(FullStages) \in Nat \ {0}
    BY BoundsAssumption
  <2>1. CASE Keeps(w)
    <3>1. /\ Owns(w) /\ Job(w) \in Jobs /\ Job(w)' = Job(w)
          /\ claim[w][2] \in 1..attempts[Job(w)]
          /\ OwnsRow(Job(w), claim[w][2]) /\ OwnsRow(Job(w), claim[w][2])'
      BY <2>1, OwnedBefore DEF Owns
    <3>2. stage[Job(w)] = Shown(step[w])
      BY <3>1 DEF WorkerInv, StageIsOwners
    <3>3. step[w] \in Nat
      BY DEF TypeOK
    <3>4. CASE \E v \in Workers : Progress(v) /\ Owns(v) /\ Job(v) = Job(w)
      <4>1. Progress(w)
        BY <3>1, <3>4, OwnerUnique DEF OneOwner
      <4>2. ~lost[w]
        BY <3>1 DEF WorkerInv, LostIsLost
      <4>3. /\ step[w] <= Len(FullStages) /\ step'[w] = step[w] + 1
            /\ stage' = IF step[w] < Len(FullStages)
                        THEN [stage EXCEPT ![Job(w)] = FullStages[step[w] + 1]] ELSE stage
        BY <3>1, <4>1, <4>2 DEF Progress, TypeOK
      <4>4. CASE step[w] < Len(FullStages)
        <5>1. stage'[Job(w)] = FullStages[step[w] + 1]
          BY <3>1, <4>3, <4>4 DEF TypeOK
        <5>2. Last(step[w] + 1) = step[w] + 1
          BY <2>0, <3>3, <4>4
        <5> QED
          BY <3>1, <3>3, <4>3, <5>1, <5>2
      <4>5. CASE step[w] = Len(FullStages)
        BY <2>0, <3>1, <3>2, <4>3, <4>5
      <4> QED
        BY <2>0, <3>3, <4>3, <4>4, <4>5
    <3>5. CASE ~ \E v \in Workers : Progress(v) /\ Owns(v) /\ Job(v) = Job(w)
      <4>1. stage'[Job(w)] = stage[Job(w)]
        <5>1. PICK j \in Jobs, t \in 1..attempts[Job(w)] : j = Job(w) /\ t = claim[w][2]
          BY <3>1
        <5>2. OwnsRow(j, t) /\ OwnsRow(j, t)'
          BY <2>1, <3>1, <5>1 DEF OwnsRow, Keeps
        <5>3. stage'[j] = stage[j]
          BY <3>5, <5>1, <5>2, StageKept
        <5> QED
          BY <5>1, <5>3
      <4>2. step'[w] = step[w]
        BY <2>1, <3>5 DEF Keeps
      <4> QED
        BY <3>1, <3>2, <4>1, <4>2
    <3> QED
      BY <3>4, <3>5
  <2>2. ASSUME NEW j \in Jobs, ClaimNext(w, j) PROVE stage'[Job(w)'] = Shown(step'[w])
    <3>1. step'[w] = 0 /\ Job(w)' = j
      BY <2>2 DEF ClaimNext, InJob, WorkerInv, ClaimsLive, Job, TypeOK
    <3>2. stage'[j] = FullStages[1]
      BY <2>2, <3>1 DEF ClaimNext, ClaimedStage, TypeOK
    <3>3. Last(0) = 0
      BY <2>0
    <3> QED
      BY <3>1, <3>2, <3>3
  <2> QED
    BY <2>1, <2>2, WorkerCases DEF Drops, Owns
<1> QED
  BY <1>1, <1>2, <1>3, <1>4 DEF WorkerInv
--------------------------------------------------------------------------------
(* The invariant. *)

LEMMA InitWorkers == Init => WorkerInv
  BY DEF Init, WorkerInv, ClaimsLive, ClaimsDistinct, LostIsLost, StageIsOwners, InJob, Owns

\* The strengthening that the safety theorems rest on: a row's token is the count
\* of its claims, every claim a worker holds is older than the next token, and
\* what is still to come behind an unfinished job is untouched.
THEOREM InductiveInvariant == Spec => []IInv
<1>1. Init => IInv
  BY InitType, InitTable, InitWorkers DEF IInv
<1>2. IInv /\ [Next]_vars => IInv'
  BY StepType, StepTable, StepWorkers DEF IInv
<1> QED
  BY <1>1, <1>2, PTL DEF Spec

\* Every column and every worker keeps its type; above all no job's attempt count
\* passes max_attempts and no table of delays is read outside it (claim_next,
\* RetryPolicy.delay_after).
THEOREM TypeCorrect == Spec => []TypeOK
<1>1. IInv => TypeOK
  BY DEF IInv
<1> QED
  BY <1>1, InductiveInvariant, PTL

\* At most one unfinished job per recording and per day, whatever requests,
\* hand-offs, retries and recoveries interleave (_queue_follow_up, the partial
\* unique indexes of models.py).
THEOREM OneActive == Spec => []OneActivePerTarget
<1>1. IInv => OneActivePerTarget
  BY DEF IInv, TableInv
<1> QED
  BY <1>1, InductiveInvariant, PTL

\* A recording's processing_status agrees with its transcription job in every
\* state (complete, fail, recover_expired, claim_next and reprocess write both).
THEOREM RecordingMirrored == Spec => []RecordingMirrorsJob
<1>1. IInv => RecordingMirrorsJob
  BY DEF IInv, TableInv
<1> QED
  BY <1>1, InductiveInvariant, PTL

\* The claim token fences: at most one worker passes _lock_owned_job for a job.
THEOREM SingleOwner == Spec => []OneOwner
<1>1. IInv => OneOwner
  BY OwnerUnique
<1> QED
  BY <1>1, InductiveInvariant, PTL

\* complete() persists a job's results at most once, and only of a job that ends
\* completed.
THEOREM SingleResult == Spec => []OneResult
<1>1. IInv => OneResult
  BY DEF IInv, TableInv
<1> QED
  BY <1>1, InductiveInvariant, PTL

\* _queue_follow_up loses no step of a chain and runs none that was switched off.
THEOREM ChainsAccounted == Spec => []ChainAccounted
<1>1. IInv => ChainAccounted
  BY DEF IInv, TableInv
<1> QED
  BY <1>1, InductiveInvariant, PTL

\* A job asked for by hand (reprocess_analysis, reprocess_translation,
\* queue_summary) chains nothing.
THEOREM ManualAlone == Spec => []ManualRunsAlone
<1>1. IInv => ManualRunsAlone
  BY DEF IInv, TableInv
<1> QED
  BY <1>1, InductiveInvariant, PTL

\* advance_stage: a job shows the stage its current owner reported last.
THEOREM StagesOwned == Spec => []StageIsOwners
<1>1. IInv => StageIsOwners
  BY DEF IInv, WorkerInv
<1> QED
  BY <1>1, InductiveInvariant, PTL

\* The heartbeat thread never gives up a claim that is still its worker's.
THEOREM LossIsReal == Spec => []LostIsLost
<1>1. IInv => LostIsLost
  BY DEF IInv, WorkerInv
<1> QED
  BY <1>1, InductiveInvariant, PTL

\* No job waits in the queue with its attempts used up: claim_next does not look at
\* the count and would start it once too often (fail and recover_expired end it).
THEOREM AttemptsLeft == Spec => []QueuedHasAttempts
<1>1. IInv => QueuedHasAttempts
  BY DEF IInv, TableInv
<1> QED
  BY <1>1, InductiveInvariant, PTL
--------------------------------------------------------------------------------
(* What a step may never do. *)

LEMMA SettledRow ==
  ASSUME TypeOK, TableInv,
         NEW done \in SUBSET Jobs, NEW failed \in SUBSET Jobs, NEW retried \in SUBSET Jobs,
         Settles(done, failed, retried), NEW j \in Jobs, EndsRun(j)
  PROVE  /\ j \in done \cup failed \cup retried
         /\ status'[j] = "failed" => j \in failed
<1>1. j \notin Spawned(HandOff(done, failed))
  BY SpawnFacts DEF EndsRun
<1> QED
  BY <1>1 DEF Settles, Settle, EndsRun

LEMMA RunEnds ==
  ASSUME IInv, [Next]_vars, NEW j \in Jobs, EndsRun(j)
  PROVE  /\ leaseLeft[j] = 0 \/ EndedByOwner(j)
         /\ status'[j] = "failed" => attempts[j] = MaxAttempts \/ RefusedByOwner(j)
<1> USE DEF IInv
<1> DEFINE Goal == /\ leaseLeft[j] = 0 \/ EndedByOwner(j)
                   /\ status'[j] = "failed" => attempts[j] = MaxAttempts \/ RefusedByOwner(j)
<1>0. MaxAttempts \in Nat /\ attempts[j] \in 0..MaxAttempts
  BY BoundsAssumption DEF TypeOK
<1>1. ASSUME NEW v \in Workers, NEW S \in SUBSET Expired, RecoverExpired(v, S) PROVE Goal
  <2> DEFINE R == {i \in S : CanRetry(i, TRUE)}
  <2>1. /\ S \in SUBSET Jobs /\ R \in SUBSET Jobs /\ S \ R \in SUBSET Jobs /\ {} \in SUBSET Jobs
        /\ \A i \in S : status[i] = "processing" /\ leaseLeft[i] = 0
    BY DEF Expired
  <2>2. Settles({}, S \ R, R)
    BY <1>1, <2>1 DEF RecoverExpired, Settles, CanRetry
  <2>3. j \in S /\ (status'[j] = "failed" => j \in S \ R)
    BY <2>1, <2>2, SettledRow
  <2>4. j \in S \ R => attempts[j] = MaxAttempts
    BY <1>0 DEF CanRetry
  <2> QED
    BY <2>1, <2>3, <2>4
<1>2. ASSUME NEW v \in Workers, Complete(v) PROVE Goal
  <2>1. Owns(v) /\ Job(v) \in Jobs /\ status[Job(v)] = "processing"
    BY <1>2 DEF Complete, WorkerInv, ClaimsLive, TypeOK, Owns, OwnsRow, Job
  <2>2. Settles({Job(v)}, {}, {})
    BY <1>2, <2>1 DEF Complete, Settles
  <2>3. j = Job(v) /\ status'[j] # "failed"
    BY <2>1, <2>2, SettledRow
  <2>4. phase'[v] # phase[v]
    BY <1>2 DEF Complete, Leave, GoFail, TypeOK
  <2> QED
    BY <2>1, <2>3, <2>4 DEF EndedByOwner
<1>3. ASSUME NEW v \in Workers, Fail(v) PROVE Goal
  <2>1. Owns(v) /\ Job(v) \in Jobs /\ status[Job(v)] = "processing"
    BY <1>3 DEF Fail, WorkerInv, ClaimsLive, TypeOK, Owns, OwnsRow, Job
  <2>2. phase[v] = "failing" /\ phase'[v] # phase[v]
    BY <1>3 DEF Fail, Leave, TypeOK
  <2>3. CASE CanRetry(Job(v), retryable[v])
    <3>1. Settles({}, {}, {Job(v)})
      BY <1>3, <2>1, <2>3 DEF Fail, Settles, CanRetry
    <3>2. j = Job(v) /\ status'[j] # "failed"
      BY <2>1, <3>1, SettledRow
    <3> QED
      BY <2>1, <2>2, <3>2 DEF EndedByOwner
  <2>4. CASE ~CanRetry(Job(v), retryable[v])
    <3>1. Settles({}, {Job(v)}, {})
      BY <1>3, <2>1, <2>4 DEF Fail, Settles
    <3>2. j = Job(v)
      BY <2>1, <3>1, SettledRow
    <3>3. retryable[v] => attempts[j] = MaxAttempts
      BY <1>0, <2>4, <3>2 DEF CanRetry
    <3> QED
      BY <2>1, <2>2, <3>2, <3>3 DEF EndedByOwner, RefusedByOwner
  <2> QED
    BY <2>3, <2>4
<1>4. ASSUME NEW v \in Workers, NEW i \in Jobs, ClaimNext(v, i) PROVE FALSE
  BY <1>4 DEF ClaimNext, EndsRun, TypeOK
<1>5. ASSUME NEW root \in Roots, NEW t \in Targets, NEW kind \in Kinds, Inserts(root, t, kind)
      PROVE  FALSE
  <2>1. j = <<root, kind>> => status[j] = "absent"
    BY <1>5, NamesAssumption DEF Inserts, Enqueue, TableInv, RootsFit, TargetOf
  <2> QED
    BY <1>5, <2>1 DEF Inserts, Enqueue, EndsRun, TypeOK
<1>6. ASSUME NEW r \in Recordings, DeleteRecording(r) PROVE FALSE
  BY <1>6 DEF DeleteRecording, ActiveOn, Active, EndsRun, TypeOK
<1>7. ASSUME Quiet PROVE FALSE
  BY <1>7 DEF Quiet, EndsRun
<1> QED
  BY <1>1, <1>2, <1>3, <1>4, <1>5, <1>6, <1>7, StepKinds

\* Until a lease has run out, no recovery takes the job from the worker that holds
\* it: only that worker's complete() or fail() ends the run.
THEOREM LeasesHonoured == Spec => LeaseHonoured
<1>1. IInv /\ [Next]_vars =>
        [\A j \in Jobs : EndsRun(j) => leaseLeft[j] = 0 \/ EndedByOwner(j)]_vars
  BY RunEnds
<1> QED
  BY <1>1, InductiveInvariant, PTL DEF Spec, LeaseHonoured

\* A job fails for good only after max_attempts claims, or because its owner
\* reported a permanent failure (fail, recover_expired, RetryPolicy.can_retry).
THEOREM FailuresEarned == Spec => NoPrematureFailure
<1>1. ASSUME IInv, [Next]_vars, NEW j \in Jobs, GivesUp(j)
      PROVE  attempts[j] = MaxAttempts \/ RefusedByOwner(j)
  <2>1. status[j] = "processing"
    BY <1>1, RowSteps DEF RowStep, GivesUp
  <2> QED
    BY <1>1, <2>1, RunEnds DEF GivesUp, EndsRun
<1>2. IInv /\ [Next]_vars =>
        [\A j \in Jobs : GivesUp(j) => attempts[j] = MaxAttempts \/ RefusedByOwner(j)]_vars
  BY <1>1
<1> QED
  BY <1>2, InductiveInvariant, PTL DEF Spec, NoPrematureFailure
--------------------------------------------------------------------------------
(* The queue keeps the ledger's promise. *)

LEMMA LedgerInit == Init => Ledger!Init
<1> SUFFICES ASSUME Init PROVE Ledger!Init
  OBVIOUS
<1>1. \A j \in Jobs : TargetOf(j) = None /\ status[j] = "absent"
  BY DEF Init, TargetOf, Jobs
<1>2. [j \in Jobs |-> TargetOf(j)] \in [Jobs -> Targets \cup {None}]
  BY <1>1
<1>3. [j \in Jobs |-> LedgerState[status[j]]] = [j \in Jobs |-> "none"]
  BY <1>1 DEF LedgerState
<1> QED
  BY <1>2, <1>3 DEF Ledger!Init, Init

LEMMA LedgerStates ==
  /\ LedgerState["absent"] = "none" /\ LedgerState["queued"] = "waiting"
  /\ LedgerState["processing"] = "running" /\ LedgerState["completed"] = "done"
  /\ LedgerState["failed"] = "given_up" /\ LedgerState["deleted"] = "forgotten"
  BY DEF LedgerState

\* What a job is about is settled when it is inserted.
LEMMA TargetSettled ==
  ASSUME IInv, [Next]_vars, NEW j \in Jobs, status[j] # "absent"
  PROVE  TargetOf(j)' = TargetOf(j)
<1>1. ASSUME NEW root \in Roots, NEW t \in Targets, NEW kind \in Kinds, Inserts(root, t, kind)
      PROVE  TargetOf(j)' = TargetOf(j)
  <2>1. target[root] = None /\ target' = [target EXCEPT ![root] = t]
    BY <1>1 DEF Inserts, Enqueue
  <2>2. j[1] # root
    BY <2>1 DEF IInv, TableInv, RootsFit, TargetOf
  <2> QED
    BY <2>1, <2>2 DEF TargetOf, IInv, TypeOK, Jobs
<1>2. ASSUME UNCHANGED target PROVE TargetOf(j)' = TargetOf(j)
  BY <1>2 DEF TargetOf
<1>3. \/ UNCHANGED target
      \/ \E root \in Roots, t \in Targets, kind \in Kinds : Inserts(root, t, kind)
  <2>1. ASSUME Quiet PROVE UNCHANGED target
    BY <2>1 DEF Quiet
  <2>2. ASSUME NEW r \in Recordings, DeleteRecording(r) PROVE UNCHANGED target
    BY <2>2 DEF DeleteRecording
  <2>3. ASSUME NEW w \in Workers, NEW i \in Jobs, ClaimNext(w, i) PROVE UNCHANGED target
    BY <2>3 DEF ClaimNext
  <2>4. ASSUME NEW done \in SUBSET Jobs, NEW failed \in SUBSET Jobs,
               NEW retried \in SUBSET Jobs, Settles(done, failed, retried)
        PROVE  UNCHANGED target
    BY <2>4 DEF Settles, Settle
  <2> QED
    BY <2>1, <2>2, <2>3, <2>4, StepCases
<1> QED
  BY <1>1, <1>2, <1>3

LEMMA LedgerRow == ASSUME IInv, [Next]_vars, NEW j \in Jobs PROVE Ledger!JobStep(j)
<1> DEFINE about == [i \in Jobs |-> TargetOf(i)]
           state == [i \in Jobs |-> LedgerState[status[i]]]
<1>1. /\ state[j] = LedgerState[status[j]] /\ state'[j] = LedgerState[status'[j]]
      /\ about[j] = TargetOf(j) /\ about'[j] = TargetOf(j)'
  OBVIOUS
<1>2. attempts[j] \in Nat /\ commits[j] \in Nat
  BY DEF IInv, TypeOK
<1>3. state[j] # "none" => about'[j] = about[j]
  <2>1. state[j] # "none" => status[j] # "absent"
    BY <1>1, LedgerStates
  <2> QED
    BY <1>1, <2>1, TargetSettled
<1>4. /\ attempts[j] + 0 = attempts[j] /\ commits[j] + 0 = commits[j]
  BY <1>2
<1> HIDE DEF about, state
<1>5. \/ Ledger!Submit(j) \/ Ledger!Begin(j) \/ Ledger!GiveBack(j) \/ Ledger!Finish(j)
      \/ Ledger!GiveUp(j) \/ Ledger!Forget(j) \/ Ledger!Rest(j)
  <2> USE DEF Ledger!Goes, Ledger!Counts, state
  <2>1. CASE /\ status'[j] = status[j] /\ attempts'[j] = attempts[j]
             /\ commits'[j] = commits[j] /\ token'[j] = token[j]
    BY <1>4, <2>1 DEF Ledger!Rest
  <2>2. CASE /\ status[j] = "absent" /\ status'[j] = "queued" /\ attempts[j] = 0
             /\ attempts'[j] = 0 /\ commits'[j] = commits[j] /\ token'[j] = token[j]
    BY <1>4, <2>2, LedgerStates DEF Ledger!Submit
  <2>3. CASE /\ status[j] = "queued" /\ status'[j] = "processing" /\ attempts[j] < MaxAttempts
             /\ attempts'[j] = attempts[j] + 1 /\ commits'[j] = commits[j]
             /\ token'[j] = attempts[j] + 1
    BY <1>4, <2>3, LedgerStates DEF Ledger!Begin
  <2>4. CASE /\ status[j] = "processing" /\ attempts'[j] = attempts[j] /\ token'[j] = 0
             /\ \/ status'[j] = "completed" /\ commits'[j] = commits[j] + 1
                \/ status'[j] = "failed" /\ commits'[j] = commits[j]
                \/ status'[j] = "queued" /\ commits'[j] = commits[j] /\ attempts[j] < MaxAttempts
    BY <1>4, <2>4, LedgerStates DEF Ledger!Finish, Ledger!GiveUp, Ledger!GiveBack
  <2>5. CASE /\ status[j] \in {"completed", "failed"} /\ status'[j] = "deleted"
             /\ attempts'[j] = attempts[j] /\ commits'[j] = commits[j] /\ token'[j] = token[j]
    BY <1>4, <2>5, LedgerStates DEF Ledger!Forget
  <2> QED
    BY <2>1, <2>2, <2>3, <2>4, <2>5, RowSteps DEF RowStep
<1> QED
  BY <1>3, <1>5 DEF Ledger!JobStep, about, state

LEMMA LedgerStep == ASSUME IInv, [Next]_vars PROVE [Ledger!Next]_(Ledger!vars)
<1> DEFINE about == [j \in Jobs |-> TargetOf(j)]
           state == [j \in Jobs |-> LedgerState[status[j]]]
<1>0. TypeOK' /\ TableInv'
  BY StepType, StepTable
<1>1. about' \in [Jobs -> Targets \cup {None}]
  BY <1>0 DEF TypeOK, TargetOf, Jobs
<1>2. state' \in [Jobs -> Ledger!States]
  <2>1. \A s \in JobStatus \cup {"absent", "deleted"} : LedgerState[s] \in Ledger!States
    BY LedgerStates DEF JobStatus, Ledger!States, Ledger!Unfinished
  <2> QED
    BY <1>0, <2>1 DEF TypeOK
<1>3. \A j \in Jobs : Ledger!JobStep(j)
  BY LedgerRow
<1>4. \A i, j \in Jobs :
        about'[i] = about'[j] /\ {state'[i], state'[j]} \subseteq Ledger!Unfinished => i = j
  <2> SUFFICES ASSUME NEW i \in Jobs, NEW j \in Jobs, TargetOf(i)' = TargetOf(j)',
                      LedgerState[status'[i]] \in Ledger!Unfinished,
                      LedgerState[status'[j]] \in Ledger!Unfinished
               PROVE  i = j
    OBVIOUS
  <2>1. \A s \in JobStatus \cup {"absent", "deleted"} :
          LedgerState[s] \in Ledger!Unfinished => s \in {"queued", "processing"}
    BY LedgerStates DEF JobStatus, Ledger!Unfinished
  <2>2. status'[i] \in {"queued", "processing"} /\ status'[j] \in {"queued", "processing"}
    BY <1>0, <2>1 DEF TypeOK
  <2> QED
    BY <1>0, <2>2 DEF TableInv, OneActivePerTarget, Active
<1> QED
  BY <1>1, <1>2, <1>3, <1>4 DEF Ledger!Next

\* The detailed queue implements the ledger: with leases, tokens and workers hidden,
\* every job is tried at most MaxAttempts times, ends once, leaves one result or
\* none, and shares its recording or day with no other unfinished job.
THEOREM QueueImplementsLedger == Spec => ImplementsLedger
<1>1. Init => Ledger!Init
  BY LedgerInit
<1>2. IInv /\ [Next]_vars => [Ledger!Next]_(Ledger!vars)
  BY LedgerStep
<1> QED
  BY <1>1, <1>2, InductiveInvariant, PTL DEF Spec, ImplementsLedger, Ledger!Spec
================================================================================
