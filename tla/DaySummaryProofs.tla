--------------------------- MODULE DaySummaryProofs ----------------------------
(***************************************************************************)
(* Theorems about DaySummary, for any recordings and workers.              *)
(***************************************************************************)
EXTENDS DaySummary, TLAPS

LEMMA CollectedFacts ==
  ASSUME TypeOK, Counted
  PROVE  /\ Collected \in Readings /\ Subjects(Collected) \subseteq alive
         /\ \A p, q \in Collected : p[1] = q[1] => p = q
         /\ \A p \in Collected : p[3] = revision[p[1]]
<1>1. ASSUME NEW r \in Analysed
      PROVE  /\ r \in alive /\ r \in Recordings
             /\ revision[r] \in 1..MaxRevision /\ upload[r] \in 1..MaxUploads
  <2>1. /\ r \in Recordings /\ revision[r] \in 0..MaxRevision /\ upload[r] \in 0..MaxUploads
        /\ analysis[r] # "absent" /\ r \in alive
    BY DEF TypeOK, Analysed
  <2> QED
    BY <2>1, DayAssumption DEF Counted
<1> QED
  BY <1>1 DEF Collected, Subjects, Readings

\* What Keys sees of a set of readings.
LEMMA KeyFacts ==
  ASSUME NEW S, NEW T, Keys(S) \subseteq Keys(T)
  PROVE  \A p \in S : \E q \in T : q[1] = p[1] /\ q[3] = p[3]
<1> SUFFICES ASSUME NEW p \in S PROVE \E q \in T : q[1] = p[1] /\ q[3] = p[3]
  OBVIOUS
<1>1. Key(p) \in Keys(T)
  BY DEF Keys
<1>2. PICK q \in T : Key(q) = Key(p)
  BY <1>1 DEF Keys
<1> QED
  BY <1>2 DEF Key

LEMMA DayInit == Init => IInv
  BY DayAssumption
     DEF Init, IInv, TypeOK, Readings, NothingDeletedIsQuoted, Subjects, OneEach, OwnerRuns,
         SaverHolds, NoneFromTheFuture, Counted

\* A step of a recording that nobody is saving a summary of: its revision grows, or
\* the summary goes, and no other recording's changes.
LEMMA FreeStep ==
  ASSUME IInv, NEW r \in Recordings, Day(r)
  PROVE  /\ TypeOK' /\ Counted' /\ UNCHANGED jobVars
         /\ \/ /\ summary' = summary /\ alive \subseteq alive'
               /\ \A q \in Recordings : revision'[q] >= revision[q]
            \/ summary' = {}
         /\ \A q \in Recordings : q \in Locked => /\ revision'[q] = revision[q]
                                                  /\ q \in alive => q \in alive'
                                                  /\ analysis'[q] = analysis[q]
<1> USE DEF IInv, Rest, jobVars, dayVars
<1>0. /\ MaxRevision \in Nat /\ MaxUploads \in Nat
      /\ revision \in [Recordings -> 0..MaxRevision] /\ upload \in [Recordings -> 0..MaxUploads]
      /\ \A q \in Recordings : revision[q] \in Nat /\ upload[q] \in Nat
      /\ alive \subseteq Recordings
  BY DayAssumption DEF TypeOK
<1>1. CASE Upload(r)
  <2>1. upload[r] + 1 \in 1..MaxUploads
    BY <1>0, <1>1 DEF Upload
  <2>2. /\ upload' \in [Recordings -> 0..MaxUploads]
        /\ \A q \in Recordings : upload'[q] = IF q = r THEN upload[r] + 1 ELSE upload[q]
    BY <1>0, <1>1, <2>1 DEF Upload
  <2>3. TypeOK'
    BY <1>1, <2>2 DEF Upload, TypeOK
  <2>4. Counted'
    BY <1>0, <1>1, <2>1, <2>2 DEF Upload, Counted
  <2> QED
    BY <1>0, <1>1, <2>3, <2>4 DEF Upload
<1>2. CASE Reprocess(r)
  BY <1>0, <1>2 DEF Reprocess, Free, TypeOK, Counted
<1>3. ASSUME NEW reading \in {"completed", "other"}, Rewrites(r, reading), r \notin Locked,
             alive' = alive, working' \subseteq working, Rest
      PROVE  /\ TypeOK' /\ Counted'
             /\ \A q \in Recordings : revision'[q] >= revision[q]
             /\ \A q \in Recordings : q \in Locked => /\ revision'[q] = revision[q]
                                                      /\ q \in alive => q \in alive'
                                                      /\ analysis'[q] = analysis[q]
  <2>1. revision[r] + 1 \in 1..MaxRevision
    BY <1>0, <1>3 DEF Rewrites
  <2>2. /\ revision' \in [Recordings -> 0..MaxRevision]
        /\ analysis' \in [Recordings -> {"absent", "completed", "other"}]
        /\ \A q \in Recordings : revision'[q] = IF q = r THEN revision[r] + 1 ELSE revision[q]
        /\ \A q \in Recordings : analysis'[q] = IF q = r THEN reading ELSE analysis[q]
    BY <1>0, <1>3, <2>1 DEF Rewrites, TypeOK
  <2>3. TypeOK'
    BY <1>3, <2>2 DEF TypeOK
  <2>4. Counted'
    BY <1>3, <2>1, <2>2 DEF Counted
  <2> QED
    BY <1>0, <1>3, <2>2, <2>3, <2>4
<1>4. ASSUME UNCHANGED <<alive, analysis, revision>>, working' \subseteq working, Rest
      PROVE  TypeOK' /\ Counted' /\ \A q \in Recordings : revision'[q] >= revision[q]
  BY <1>0, <1>4 DEF TypeOK, Counted
<1>5. ASSUME JobOf(r) PROVE working' \subseteq working
  BY <1>5 DEF JobOf
<1>6. CASE Analyse(r)
  BY <1>3, <1>4, <1>5, <1>6 DEF Analyse, Free
<1>7. CASE Transcribe(r)
  BY <1>3, <1>4, <1>5, <1>7 DEF Transcribe, Free
<1>8. CASE EndJob(r)
  BY <1>4, <1>5, <1>8 DEF EndJob
<1>9. CASE EditTranscript(r)
  BY <1>3, <1>4, <1>9 DEF EditTranscript, Free
<1>10. CASE EditAnalysis(r)
  BY <1>3, <1>4, <1>10 DEF EditAnalysis, Free
<1>11. CASE Delete(r)
  <2>1. /\ revision' \in [Recordings -> 0..MaxRevision]
        /\ analysis' \in [Recordings -> {"absent", "completed", "other"}]
        /\ \A q \in Recordings : q # r => revision'[q] = revision[q] /\ analysis'[q] = analysis[q]
        /\ analysis'[r] = "absent"
    BY <1>0, <1>11 DEF Delete, TypeOK
  <2>2. TypeOK'
    BY <1>11, <2>1 DEF Delete, Free, TypeOK, Readings
  <2>3. Counted'
    BY <1>11, <2>1 DEF Delete, Counted
  <2> QED
    BY <1>11, <2>1, <2>2, <2>3 DEF Delete, Free
<1> QED
  BY <1>1, <1>2, <1>6, <1>7, <1>8, <1>9, <1>10, <1>11 DEF Day

LEMMA DayStep == ASSUME IInv, NEW r \in Recordings, Day(r) PROVE IInv'
<1> USE DEF IInv
<1>1. /\ TypeOK' /\ Counted' /\ UNCHANGED jobVars
      /\ \/ /\ summary' = summary /\ alive \subseteq alive'
            /\ \A q \in Recordings : revision'[q] >= revision[q]
         \/ summary' = {}
  BY FreeStep
<1>2. NothingDeletedIsQuoted' /\ OneEach' /\ OwnerRuns'
  BY <1>1 DEF NothingDeletedIsQuoted, Subjects, OneEach, OwnerRuns, jobVars
<1>3. SaverHolds'
  <2> SUFFICES ASSUME NEW w \in Workers, phase[w] = "saving"
               PROVE  owner = w /\ job = "running" /\ Keys(snapshot[w]) \subseteq Keys(Collected')
    BY <1>1 DEF SaverHolds, jobVars, Keys
  <2>1. owner = w /\ job = "running" /\ Keys(snapshot[w]) \subseteq Keys(Collected)
    BY DEF SaverHolds
  <2>2. ASSUME NEW p \in snapshot[w] PROVE Key(p) \in Keys(Collected')
    <3>1. PICK c \in Collected : c[1] = p[1] /\ c[3] = p[3]
      BY <2>1, KeyFacts
    <3>2. PICK q \in Analysed : c = <<q, upload[q], revision[q]>>
      BY DEF Collected
    <3>3. q = p[1] /\ q \in Recordings /\ q \in Locked
      BY <3>1, <3>2 DEF Locked, Subjects, Analysed, TypeOK
    <3>4. q \in Analysed' /\ revision'[q] = revision[q]
      BY <3>2, <3>3, FreeStep DEF Analysed
    <3>5. <<q, upload'[q], revision'[q]>> \in Collected'
      BY <3>4 DEF Collected
    <3>6. Key(<<q, upload'[q], revision'[q]>>) = Key(p)
      BY <3>1, <3>2, <3>3, <3>4 DEF Key
    <3> QED
      BY <3>5, <3>6 DEF Keys
  <2> QED
    BY <2>1, <2>2 DEF Keys
<1>4. NoneFromTheFuture'
  <2>1. CASE summary' = {}
    BY <2>1 DEF NoneFromTheFuture
  <2>2. CASE summary' = summary /\ \A q \in Recordings : revision'[q] >= revision[q]
    <3> SUFFICES ASSUME NEW p \in summary PROVE p[3] <= revision'[p[1]]
      BY <2>2 DEF NoneFromTheFuture
    <3>1. p[1] \in Recordings /\ p[3] \in Int
      BY DayAssumption DEF TypeOK, Readings
    <3>2. revision[p[1]] \in Int /\ revision'[p[1]] \in Int
      BY <1>1, <3>1 DEF TypeOK
    <3>3. p[3] <= revision[p[1]] /\ revision'[p[1]] >= revision[p[1]]
      BY <2>2, <3>1 DEF NoneFromTheFuture
    <3> QED
      BY <3>1, <3>2, <3>3
  <2> QED
    BY <1>1, <2>1, <2>2
<1> QED
  BY <1>1, <1>2, <1>3, <1>4

\* A step of the summary job leaves the recordings alone.  Only Save writes a
\* summary, and only Lock lets a worker save.
LEMMA JobStep ==
  ASSUME IInv, Ask \/ (\E w \in Workers : Worker(w)) \/ Recover
  PROVE  IInv'
<1> USE DEF IInv, dayVars
<1>1. UNCHANGED dayVars
  BY DEF Ask, Recover, Worker, Claim, Collect, Lock, Save, Skip, Raise, Fail, Abandon
<1>2. Collected' = Collected /\ Collected \in Readings
  <2>1. Collected' = Collected
    BY <1>1 DEF Collected, Analysed
  <2> QED
    BY <2>1, CollectedFacts
<1>3. Counted'
  BY <1>1 DEF Counted
<1>4. /\ summary' = summary \/ \E w \in Workers : phase[w] = "saving" /\ summary' = snapshot[w]
      /\ \A w \in Workers : snapshot'[w] \in {snapshot[w], {}, Collected}
  BY DEF Ask, Recover, Worker, Claim, Collect, Lock, Save, Skip, Raise, Fail, Abandon, Leave, TypeOK
<1>5. TypeOK'
  <2>1. summary' \in Readings
    BY <1>4 DEF TypeOK
  <2>2. {} \in Readings
    BY DEF Readings
  <2>3. CASE Ask
    BY <2>3 DEF Ask, TypeOK
  <2>4. CASE Recover
    BY <2>4 DEF Recover, EndClaim, TypeOK
  <2>5. ASSUME NEW w \in Workers, Worker(w) PROVE TypeOK'
    BY <1>1, <1>2, <2>1, <2>2, <2>5
       DEF Worker, Claim, Collect, Lock, Save, Skip, Raise, Fail, Abandon, Leave, EndClaim, TypeOK
  <2> QED
    BY <2>3, <2>4, <2>5
<1>6. SaverHolds'
  <2> DEFINE Holds(v) == owner' = v /\ job' = "running" /\ Keys(snapshot'[v]) \subseteq Keys(Collected)
  <2> SUFFICES ASSUME NEW v \in Workers, phase'[v] = "saving" PROVE Holds(v)
    BY <1>2 DEF SaverHolds, Keys
  <2>0. phase[v] = "saving" => owner = v /\ job = "running" /\ Keys(snapshot[v]) \subseteq Keys(Collected)
    BY DEF SaverHolds
  <2>1. CASE Ask
    BY <2>0, <2>1 DEF Ask
  <2>2. CASE Recover
    BY <2>2 DEF Recover
  <2>3. ASSUME NEW w \in Workers, Worker(w) PROVE Holds(v)
    <3>0. phase \in [Workers -> {"idle", "claimed", "writing", "saving", "failing"}]
          /\ snapshot \in [Workers -> Readings] /\ w # None
      BY DayAssumption DEF TypeOK
    <3>1. CASE Lock(w)
      <4>1. owner = w /\ job = "running" /\ owner' = w /\ job' = "running"
        BY <3>0, <3>1 DEF Lock, OwnerRuns
      <4>2. CASE v = w
        BY <3>1, <4>1, <4>2 DEF Lock
      <4>3. CASE v # w
        BY <2>0, <3>0, <3>1, <4>1, <4>3 DEF Lock
      <4> QED
        BY <4>2, <4>3
    <3>2. CASE Claim(w)
      BY <2>0, <3>0, <3>2 DEF Claim
    <3>3. CASE Collect(w)
      BY <2>0, <3>0, <3>3 DEF Collect
    <3>4. CASE Save(w)
      <4>1. owner = w
        BY <3>4 DEF Save, SaverHolds
      <4> QED
        BY <2>0, <3>0, <3>4, <4>1 DEF Save, Leave
    <3>5. CASE Skip(w)
      BY <2>0, <3>0, <3>5 DEF Skip, Leave
    <3>6. CASE Raise(w)
      BY <2>0, <3>0, <3>6 DEF Raise
    <3>7. CASE Fail(w)
      BY <2>0, <3>0, <3>7 DEF Fail, Leave
    <3>8. CASE Abandon(w)
      BY <2>0, <3>0, <3>8 DEF Abandon, Leave
    <3> QED
      BY <2>3, <3>1, <3>2, <3>3, <3>4, <3>5, <3>6, <3>7, <3>8 DEF Worker
  <2> QED
    BY <2>1, <2>2, <2>3
<1>7. OwnerRuns'
  BY DayAssumption
     DEF OwnerRuns, Ask, Recover, Worker, Claim, Collect, Lock, Save, Skip, Raise, Fail, Abandon,
         Leave, EndClaim
\* What is saved, if anything is.
<1>8. ASSUME NEW w \in Workers, phase[w] = "saving", NEW p \in snapshot[w]
      PROVE  p[1] \in alive /\ p[3] <= revision[p[1]]
  <2>1. PICK c \in Collected : c[1] = p[1] /\ c[3] = p[3]
    BY <1>8, KeyFacts DEF SaverHolds
  <2>2. c[1] \in alive /\ c[3] = revision[c[1]] /\ c[3] \in Int
    BY <1>2, CollectedFacts, DayAssumption DEF Subjects, Readings
  <2> QED
    BY <2>1, <2>2
<1>9. NothingDeletedIsQuoted'
  <2>1. \A p \in summary' : p[1] \in alive
    BY <1>4, <1>8 DEF NothingDeletedIsQuoted, Subjects
  <2> QED
    BY <1>1, <2>1 DEF NothingDeletedIsQuoted, Subjects
<1>10. NoneFromTheFuture'
  BY <1>1, <1>4, <1>8 DEF NoneFromTheFuture
<1>11. OneEach'
  <2>1. \A p, q \in Collected : p[1] = q[1] => p = q
    BY CollectedFacts
  <2> QED
    BY <1>4, <2>1 DEF OneEach
<1> QED
  BY <1>3, <1>5, <1>6, <1>7, <1>9, <1>10, <1>11

LEMMA SummaryStep == ASSUME IInv, [Next]_vars PROVE IInv'
<1>1. ASSUME UNCHANGED vars PROVE IInv'
  BY <1>1 DEF vars, IInv, TypeOK, NothingDeletedIsQuoted, Subjects, OneEach, OwnerRuns,
              SaverHolds, NoneFromTheFuture, Counted, Collected, Analysed, Keys
<1> QED
  BY <1>1, DayStep, JobStep DEF Next

\* Between the comparison and the commit nothing that a summary says can change.
THEOREM SummaryInvariant == Spec => []IInv
<1> QED
  BY DayInit, SummaryStep, PTL DEF Spec

\* The columns, the owner of the job and the workers' snapshots keep their types whatever happens to
\* the day: a recording under a job is there, and its revision counts its rewrites (DaySummary.TypeOK).
THEOREM TypeCorrect == Spec => []TypeOK
<1>1. IInv => TypeOK
  BY DEF IInv
<1> QED BY <1>1, SummaryInvariant, PTL

\* delete_recording and _daily_summary_persister: whatever was collected, whoever
\* comes home late, no summary quotes a recording that was deleted.
THEOREM DeletedStaysDeleted == Spec => []NothingDeletedIsQuoted
<1>1. IInv => NothingDeletedIsQuoted
  BY DEF IInv
<1> QED
  BY <1>1, SummaryInvariant, PTL

\* The only step that writes a summary is a commit under the locks.
LEMMA OnlySaves ==
  ASSUME IInv, [Next]_vars, Writes
  PROVE  Keys(summary') \subseteq Keys(Collected)
<1>1. ASSUME NEW r \in Recordings, Day(r) PROVE FALSE
  BY <1>1, FreeStep DEF Writes
<1>2. ASSUME NEW w \in Workers, Save(w) PROVE Keys(summary') \subseteq Keys(Collected)
  BY <1>2 DEF IInv, Save, SaverHolds
<1> QED
  BY <1>1, <1>2
     DEF Writes, Next, Ask, Recover, Worker, Claim, Collect, Lock, Skip, Raise, Fail, Abandon, vars

\* matches_revisions: each analysis a summary is saved with is its recording's own.
THEOREM SummariesAreCurrent == Spec => SavedFromCurrent
<1>1. IInv /\ [Next]_vars => [Writes => Keys(summary') \subseteq Keys(Collected)]_vars
  BY OnlySaves
<1> QED
  BY <1>1, SummaryInvariant, PTL DEF Spec, SavedFromCurrent

\* Run after run, a day's summary only moves forward, recording by recording.
THEOREM SummariesMoveOn == Spec => NeverOlder
<1>1. ASSUME IInv, [Next]_vars, NEW p \in summary, NEW q \in summary', p[1] = q[1]
      PROVE  q[3] >= p[3]
  <2>0. p[3] \in Int
    BY <1>1, DayAssumption DEF IInv, TypeOK, Readings
  <2>1. CASE summary' = summary
    <3>1. p = q
      BY <1>1, <2>1 DEF IInv, OneEach
    <3> QED
      BY <2>0, <3>1
  <2>2. CASE summary' # summary
    <3>1. Keys(summary') \subseteq Keys(Collected)
      BY <1>1, <2>2, OnlySaves DEF Writes
    <3>2. PICK c \in Collected : c[1] = q[1] /\ c[3] = q[3]
      BY <1>1, <3>1, KeyFacts
    <3>3. c[3] = revision[c[1]] /\ c[3] \in Int /\ p[3] <= revision[p[1]]
      BY <1>1, CollectedFacts, DayAssumption DEF IInv, NoneFromTheFuture, Readings
    <3> QED
      BY <1>1, <2>0, <3>2, <3>3
  <2> QED
    BY <2>1, <2>2
<1>2. IInv /\ [Next]_vars => [\A p \in summary, q \in summary' : p[1] = q[1] => q[3] >= p[3]]_vars
  BY <1>1
<1> QED
  BY <1>2, SummaryInvariant, PTL DEF Spec, NeverOlder
================================================================================
