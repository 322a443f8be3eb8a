----------------------------- MODULE ResultsProofs -----------------------------
(***************************************************************************)
(* What Results guarantees for any tabs and any number of writes.  The     *)
(* argument: every change raises the revision that vouches for it, so an   *)
(* answer whose revision is still current is still right.                  *)
(***************************************************************************)
EXTENDS Results, TLAPS

\* What a step may do to the stored parts and their revisions.
Raised ==
  /\ \A p \in Parts : rev[p] <= rev'[p]
  /\ rev'["words"] = rev["words"] => words' = words
  /\ rev'["rows"] = rev["rows"] => rows' = rows /\ (words' = words \/ rows = 0)
  /\ rev'["analysis"] = rev["analysis"] => analysis' = analysis
--------------------------------------------------------------------------------
(* Types. *)

LEMMA BumpedRaises ==
  ASSUME rev \in [Parts -> Nat], NEW parts \in SUBSET Parts, Bumped(parts)
  PROVE  /\ rev' \in [Parts -> Nat]
         /\ \A p \in Parts : rev[p] <= rev'[p]
         /\ \A p \in parts : rev'[p] # rev[p]
BY DEF Bumped, Parts

LEMMA Records ==
  /\ NoTranscript \in Transcripts /\ [NoTranscript EXCEPT !.step = "asked"] \in Transcripts
  /\ NoReading \in Readings /\ [NoReading EXCEPT !.step = "asked"] \in Readings
  /\ NoChoice \in Choices
BY DEF Transcripts, Readings, Choices, NoTranscript, NoReading, NoChoice

LEMMA InitType == Init => TypeOK
<1> SUFFICES ASSUME Init PROVE TypeOK
  OBVIOUS
<1>1. /\ words \in Nat /\ rows \in Nat /\ analysis \in Nat /\ about \in Nat /\ writes \in Nat
      /\ status \in Statuses /\ good \in BOOLEAN
  BY DEF Init, Statuses
<1>2. rev \in [Parts -> Nat] /\ job \in [kind : Kinds, loaded : Nat]
  BY DEF Init, Kinds
<1>3. /\ transcript \in [Tabs -> Transcripts] /\ reading \in [Tabs -> Readings]
      /\ transcriptDraft \in [Tabs -> Transcripts]
      /\ translationDraft \in [Tabs -> Choices] /\ analysisDraft \in [Tabs -> Nat]
  BY Records DEF Init
<1> QED
  BY <1>1, <1>2, <1>3 DEF TypeOK

LEMMA StepType == ASSUME TypeOK, [Next]_vars PROVE TypeOK'
<1>1. ASSUME NEW k \in Kinds, Ask(k) PROVE TypeOK'
  BY <1>1 DEF Ask, TypeOK, stored, tabVars
<1>2. ASSUME Load \/ FailJob PROVE TypeOK'
  BY <1>2 DEF Load, FailJob, HandOff, TypeOK, stored, tabVars, Kinds
<1>3. ASSUME PersistTranscript PROVE TypeOK'
  <2>1. rev' \in [Parts -> Nat]
    BY <1>3, BumpedRaises DEF PersistTranscript, TypeOK, Parts
  <2> QED
    BY <1>3, <2>1 DEF PersistTranscript, HandOff, Writing, New, TypeOK, tabVars, Kinds, Statuses
<1>4. ASSUME PersistAnalysis PROVE TypeOK'
  <2>1. rev' \in [Parts -> Nat] /\ job' \in [kind : Kinds, loaded : Nat]
    BY <1>4, BumpedRaises DEF PersistAnalysis, HandOff, TypeOK, Parts, Kinds
  <2>2. analysis' \in Nat /\ about' \in Nat /\ writes' \in Nat /\ status' \in Statuses
    BY <1>4 DEF PersistAnalysis, Writing, New, TypeOK, Statuses
  <2>3. good' \in BOOLEAN
    BY <1>4 DEF PersistAnalysis, TypeOK
  <2> QED
    BY <1>4, <2>1, <2>2, <2>3 DEF PersistAnalysis, TypeOK, tabVars
<1>5. ASSUME PersistTranslation PROVE TypeOK'
  <2>1. rev' \in [Parts -> Nat]
    BY <1>5, BumpedRaises DEF PersistTranslation, TypeOK, Parts
  <2> QED
    BY <1>5, <2>1 DEF PersistTranslation, HandOff, Writing, New, TypeOK, tabVars, Kinds
<1>6. ASSUME NEW t \in Tabs, AskTranscript(t) PROVE TypeOK'
  BY <1>6, Records DEF AskTranscript, TypeOK, stored, drafts
<1>7. ASSUME NEW t \in Tabs, ReadTranscript(t) PROVE TypeOK'
  <2>1. transcript'[t] \in Transcripts
    <3>1. transcript[t] \in Transcripts /\ rev["words"] \in Nat /\ rev["rows"] \in Nat
          /\ words \in Nat /\ rows \in Nat
      BY DEF TypeOK, Parts
    <3>2. \/ transcript'[t] = NoTranscript
          \/ transcript'[t] = [transcript[t] EXCEPT !.step = "revs", !.wordsRev = rev["words"],
                                                    !.rowsRev = rev["rows"]]
          \/ transcript'[t] = [transcript[t] EXCEPT !.step = "words", !.words = words]
          \/ transcript'[t] = [transcript[t] EXCEPT !.step = "ready", !.rows = rows]
      BY <1>7 DEF ReadTranscript, TypeOK
    <3> QED
      BY <3>1, <3>2, Records DEF Transcripts
  <2> QED
    BY <1>7, <2>1 DEF ReadTranscript, TypeOK, stored, drafts
<1>8. ASSUME NEW t \in Tabs, AskReading(t) PROVE TypeOK'
  BY <1>8, Records DEF AskReading, TypeOK, stored, drafts
<1>9. ASSUME NEW t \in Tabs, ReadReading(t) PROVE TypeOK'
  <2>1. reading'[t] \in Readings
    BY <1>9, Records DEF ReadReading, TypeOK, Readings, Parts
  <2> QED
    BY <1>9, <2>1 DEF ReadReading, TypeOK, stored, drafts
<1>10. ASSUME NEW t \in Tabs, EditTranscript(t) \/ CancelTranscript(t) PROVE TypeOK'
  BY <1>10, Records DEF EditTranscript, CancelTranscript, TypeOK, stored
<1>11. ASSUME NEW t \in Tabs, EditTranslations(t) \/ CancelTranslations(t) PROVE TypeOK'
  <2>1. Shown(t) \in Transcripts
    BY DEF Shown, TypeOK
  <2>2. [open |-> TRUE, rev |-> Shown(t).rowsRev, rows |-> Shown(t).rows, words |-> Shown(t).words,
         typed |-> Shown(t).typed] \in Choices
    BY <2>1 DEF Transcripts, Choices
  <2> QED
    BY <1>11, <2>2, Records DEF EditTranslations, CancelTranslations, TypeOK, stored
<1>12. ASSUME NEW t \in Tabs, EditAnalysis(t) \/ CancelAnalysis(t) PROVE TypeOK'
  <2>1. reading[t].row \in Nat
    BY DEF TypeOK, Readings
  <2> QED
    BY <1>12, <2>1 DEF EditAnalysis, CancelAnalysis, TypeOK, stored
<1>13. ASSUME NEW t \in Tabs, SaveTranscript(t) PROVE TypeOK'
  <2>1. rev' \in [Parts -> Nat]
    BY <1>13, BumpedRaises DEF SaveTranscript, TypeOK, Parts
  <2>2. words' \in Nat /\ rows' \in Nat /\ writes' \in Nat /\ status' \in Statuses
    BY <1>13 DEF SaveTranscript, Writing, New, TypeOK, Statuses
  <2>3. [NoTranscript EXCEPT !.step = "words", !.words = New,
                             !.wordsRev = rev'["words"], !.rowsRev = rev'["rows"]] \in Transcripts
    <3>1. New \in Nat /\ rev'["words"] \in Nat /\ rev'["rows"] \in Nat
      BY <2>1 DEF New, TypeOK, Parts
    <3> HIDE DEF New
    <3> QED
      BY <3>1, Records DEF Transcripts
  <2> QED
    BY <1>13, <2>1, <2>2, <2>3, Records DEF SaveTranscript, TypeOK, tabVars
<1>14. ASSUME NEW t \in Tabs, SaveTranslations(t) PROVE TypeOK'
  <2>1. rev' \in [Parts -> Nat]
    BY <1>14, BumpedRaises DEF SaveTranslations, TypeOK, Parts
  <2> QED
    BY <1>14, <2>1, Records DEF SaveTranslations, Writing, New, TypeOK
<1>15. ASSUME NEW t \in Tabs, SaveAnalysis(t) PROVE TypeOK'
  <2>1. rev' \in [Parts -> Nat]
    BY <1>15, BumpedRaises DEF SaveAnalysis, TypeOK, Parts
  <2>2. [step |-> "ready", rev |-> rev'["analysis"], row |-> New, good |-> TRUE] \in Readings
    BY <2>1 DEF New, TypeOK, Readings, Parts
  <2>3. good' \in BOOLEAN /\ status' \in Statuses
    BY <1>15 DEF SaveAnalysis, Statuses
  <2>4. analysis' \in Nat /\ about' \in Nat /\ writes' \in Nat /\ New \in Nat
    BY <1>15 DEF SaveAnalysis, Writing, New, TypeOK
  <2> DEFINE answer == [step |-> "ready", rev |-> rev'["analysis"], row |-> New, good |-> TRUE]
  <2>5. reading' \in [Tabs -> Readings] /\ analysisDraft' \in [Tabs -> Nat]
    <3>1. /\ reading' = [reading EXCEPT ![t] = answer] \/ reading' = reading
          /\ analysisDraft' = [analysisDraft EXCEPT ![t] = 0] \/ analysisDraft' = [analysisDraft EXCEPT ![t] = New]
      BY <1>15 DEF SaveAnalysis
    <3>2. answer \in Readings /\ New \in Nat
      BY <2>2, <2>4
    <3> HIDE DEF answer
    <3> QED
      BY <3>1, <3>2 DEF TypeOK
  <2>6. UNCHANGED <<words, rows, job, transcript, transcriptDraft, translationDraft>>
    BY <1>15 DEF SaveAnalysis
  <2> QED
    BY <2>1, <2>3, <2>4, <2>5, <2>6 DEF TypeOK
<1>16. ASSUME UNCHANGED vars PROVE TypeOK'
  BY <1>16 DEF vars, TypeOK
<1>17. ASSUME NEW t \in Tabs, TypeTranscript(t) PROVE TypeOK'
  <2>1. PICK changed \in BOOLEAN : transcriptDraft' = [transcriptDraft EXCEPT ![t].typed = changed]
    <3>1. (~transcriptDraft[t].typed) \in BOOLEAN
      OBVIOUS
    <3> QED
      BY <1>17, <3>1 DEF TypeTranscript
  <2>2. PICK seen \in BOOLEAN : translationDraft' = [translationDraft EXCEPT ![t].typed = seen]
    <3>1. (translationDraft[t].open /\ (translationDraft[t].typed \/ ~transcriptDraft[t].typed))
            \in BOOLEAN
      OBVIOUS
    <3> QED
      BY <1>17, <3>1 DEF TypeTranscript
  <2>3. transcriptDraft' \in [Tabs -> Transcripts]
    BY <2>1 DEF TypeOK, Transcripts
  <2>4. translationDraft' \in [Tabs -> Choices]
    BY <2>2 DEF TypeOK, Choices
  <2>5. UNCHANGED <<stored, job, transcript, reading, analysisDraft>>
    BY <1>17 DEF TypeTranscript
  <2> QED
    BY <2>3, <2>4, <2>5 DEF TypeOK, stored
<1> QED
  BY <1>1, <1>2, <1>3, <1>4, <1>5, <1>6, <1>7, <1>8, <1>9, <1>10, <1>11, <1>12, <1>13, <1>14, <1>15, <1>16,
     <1>17
     DEF Next, Work, Tab
--------------------------------------------------------------------------------
(* Revisions. *)

LEMMA StepRaises == ASSUME TypeOK, [Next]_vars PROVE Raised
<1> USE DEF Raised
<1>1. ASSUME UNCHANGED stored PROVE Raised
  BY <1>1 DEF stored, TypeOK
<1>2. ASSUME PersistTranscript PROVE Raised
  <2>1. PICK parts \in SUBSET Parts : Bumped(parts) /\ "words" \in parts /\ "rows" \in parts
    BY <1>2 DEF PersistTranscript, Parts
  <2> QED
    BY <1>2, <2>1, BumpedRaises DEF PersistTranscript, TypeOK
<1>3. ASSUME PersistAnalysis PROVE Raised
  BY <1>3, BumpedRaises DEF PersistAnalysis, TypeOK, Parts
<1>4. ASSUME PersistTranslation PROVE Raised
  BY <1>4, BumpedRaises DEF PersistTranslation, TypeOK, Parts
<1>5. ASSUME NEW t \in Tabs, SaveTranscript(t) PROVE Raised
  <2>1. PICK parts \in SUBSET Parts :
          Bumped(parts) /\ "words" \in parts /\ (rows # 0 => "rows" \in parts)
    BY <1>5 DEF SaveTranscript, Parts
  <2> QED
    BY <1>5, <2>1, BumpedRaises DEF SaveTranscript, TypeOK
<1>6. ASSUME NEW t \in Tabs, SaveTranslations(t) PROVE Raised
  BY <1>6, BumpedRaises DEF SaveTranslations, TypeOK, Parts
<1>7. ASSUME NEW t \in Tabs, SaveAnalysis(t) PROVE Raised
  BY <1>7, BumpedRaises DEF SaveAnalysis, TypeOK, Parts
<1> QED
  BY <1>1, <1>2, <1>3, <1>4, <1>5, <1>6, <1>7
     DEF Next, Work, Tab, vars, Ask, Load, FailJob, AskTranscript, ReadTranscript, AskReading, ReadReading,
         EditTranscript, TypeTranscript, EditTranslations, EditAnalysis, CancelTranscript, CancelTranslations,
         CancelAnalysis, stored

(* What was read stays right while its revision is current. *)

\* The parts that a step of one tab leaves to the others.
LEMMA StillTell ==
  ASSUME TypeOK, TypeOK', IInv, Raised, NEW t \in Tabs
  PROVE  /\ transcript'[t] = transcript[t] => Tells(transcript[t])'
         /\ transcriptDraft'[t] = transcriptDraft[t] => Tells(transcriptDraft[t])'
         /\ reading'[t] = reading[t] => ReadingTells(t)'
         /\ translationDraft'[t] = translationDraft[t] => ChoiceTells(t)'
<1>1. transcript[t] \in Transcripts /\ transcriptDraft[t] \in Transcripts /\ reading[t] \in Readings
      /\ translationDraft[t] \in Choices /\ rev \in [Parts -> Nat] /\ rev' \in [Parts -> Nat]
  BY DEF TypeOK
<1>2. /\ rev["words"] \in Nat /\ rev["rows"] \in Nat /\ rev["analysis"] \in Nat
      /\ rev'["words"] \in Nat /\ rev'["rows"] \in Nat /\ rev'["analysis"] \in Nat
      /\ rev["words"] <= rev'["words"] /\ rev["rows"] <= rev'["rows"]
      /\ rev["analysis"] <= rev'["analysis"]
  BY <1>1 DEF Raised, Parts
<1>3. ASSUME transcript'[t] = transcript[t] PROVE Tells(transcript[t])'
  BY <1>1, <1>2, <1>3 DEF IInv, TranscriptsTell, Tells, Raised, Transcripts
<1>4. ASSUME transcriptDraft'[t] = transcriptDraft[t] PROVE Tells(transcriptDraft[t])'
  BY <1>1, <1>2, <1>4 DEF IInv, TranscriptsTell, Tells, Raised, Transcripts
<1>5. ASSUME reading'[t] = reading[t] PROVE ReadingTells(t)'
  BY <1>1, <1>2, <1>5 DEF IInv, ReadingsTell, ReadingTells, Raised, Readings
<1>6. ASSUME translationDraft'[t] = translationDraft[t] PROVE ChoiceTells(t)'
  BY <1>1, <1>2, <1>6 DEF IInv, ChoicesTell, ChoiceTells, Raised, Choices
<1> QED
  BY <1>3, <1>4, <1>5, <1>6

LEMMA OthersTell ==
  ASSUME IInv, TypeOK', Raised, NEW t \in Tabs
  PROVE  /\ (\A o \in Tabs \ {t} : transcript'[o] = transcript[o]) /\ Tells(transcript[t])'
            /\ (\A o \in Tabs \ {t} : transcriptDraft'[o] = transcriptDraft[o]) /\ Tells(transcriptDraft[t])'
              => TranscriptsTell'
         /\ (\A o \in Tabs \ {t} : reading'[o] = reading[o]) /\ ReadingTells(t)' => ReadingsTell'
         /\ (\A o \in Tabs \ {t} : translationDraft'[o] = translationDraft[o]) /\ ChoiceTells(t)'
              => ChoicesTell'
<1>1. TypeOK
  BY DEF IInv
<1>2. ASSUME \A o \in Tabs \ {t} : transcript'[o] = transcript[o], Tells(transcript[t])',
             \A o \in Tabs \ {t} : transcriptDraft'[o] = transcriptDraft[o], Tells(transcriptDraft[t])'
      PROVE  TranscriptsTell'
  <2> SUFFICES ASSUME NEW o \in Tabs PROVE Tells(transcript[o])' /\ Tells(transcriptDraft[o])'
    BY DEF TranscriptsTell
  <2>1. CASE o = t
    BY <2>1, <1>2
  <2>2. CASE o # t
    BY <2>2, <1>1, <1>2, StillTell
  <2> QED
    BY <2>1, <2>2
<1>3. ASSUME \A o \in Tabs \ {t} : reading'[o] = reading[o], ReadingTells(t)' PROVE ReadingsTell'
  <2> SUFFICES ASSUME NEW o \in Tabs PROVE ReadingTells(o)'
    BY DEF ReadingsTell
  <2>1. CASE o = t
    BY <2>1, <1>3
  <2>2. CASE o # t
    BY <2>2, <1>1, <1>3, StillTell
  <2> QED
    BY <2>1, <2>2
<1>4. ASSUME \A o \in Tabs \ {t} : translationDraft'[o] = translationDraft[o], ChoiceTells(t)' PROVE ChoicesTell'
  <2> SUFFICES ASSUME NEW o \in Tabs PROVE ChoiceTells(o)'
    BY DEF ChoicesTell
  <2>1. CASE o = t
    BY <2>1, <1>4
  <2>2. CASE o # t
    BY <2>2, <1>1, <1>4, StillTell
  <2> QED
    BY <2>1, <2>2
<1> QED
  BY <1>2, <1>3, <1>4

LEMMA StepTells == ASSUME IInv, TypeOK', Raised, [Next]_vars
                   PROVE  TranscriptsTell' /\ ReadingsTell' /\ ChoicesTell'
<1> USE DEF IInv
<1>1. ASSUME UNCHANGED tabVars PROVE TranscriptsTell' /\ ReadingsTell' /\ ChoicesTell'
  BY <1>1, StillTell DEF tabVars, TranscriptsTell, ReadingsTell, ChoicesTell
<1>2. ASSUME NEW t \in Tabs, AskTranscript(t) \/ ReadTranscript(t)
      PROVE  TranscriptsTell' /\ ReadingsTell' /\ ChoicesTell'
  <2>1. /\ UNCHANGED <<stored, reading, drafts>>
        /\ \A o \in Tabs \ {t} : transcript'[o] = transcript[o]
    BY <1>2 DEF AskTranscript, ReadTranscript, TypeOK
  <2>2. Tells(transcript[t])'
    <3>1. transcript[t] \in Transcripts /\ rev \in [Parts -> Nat] /\ Tells(transcript[t])
      BY DEF TypeOK, TranscriptsTell
    <3>2. rev["words"] \in Nat /\ rev["rows"] \in Nat
      BY <3>1 DEF Parts
    <3>3. CASE AskTranscript(t)
      BY <3>2, <3>3 DEF AskTranscript, Tells, NoTranscript, stored, TypeOK
    <3>4. CASE ReadTranscript(t)
      <4>1. UNCHANGED stored /\ transcript \in [Tabs -> Transcripts]
        BY <2>1 DEF TypeOK
      <4>2. \/ transcript'[t] = NoTranscript
            \/ transcript'[t] = [transcript[t] EXCEPT !.step = "revs", !.wordsRev = rev["words"],
                                                      !.rowsRev = rev["rows"]]
            \/ /\ transcript[t].step = "revs"
               /\ transcript'[t] = [transcript[t] EXCEPT !.step = "words", !.words = words]
            \/ /\ transcript[t].step = "words"
               /\ transcript'[t] = [transcript[t] EXCEPT !.step = "ready", !.rows = rows]
        BY <3>4, <4>1 DEF ReadTranscript
      <4>3. CASE transcript'[t] = NoTranscript
        BY <3>2, <4>1, <4>3 DEF Tells, NoTranscript, stored
      <4>4. CASE transcript'[t] = [transcript[t] EXCEPT !.step = "revs", !.wordsRev = rev["words"],
                                                        !.rowsRev = rev["rows"]]
        BY <3>1, <3>2, <4>1, <4>4 DEF Tells, stored, Transcripts
      <4>5. CASE /\ transcript[t].step = "revs"
                 /\ transcript'[t] = [transcript[t] EXCEPT !.step = "words", !.words = words]
        BY <3>1, <3>2, <4>1, <4>5 DEF Tells, stored, Transcripts
      <4>6. CASE /\ transcript[t].step = "words"
                 /\ transcript'[t] = [transcript[t] EXCEPT !.step = "ready", !.rows = rows]
        BY <3>1, <3>2, <4>1, <4>6 DEF Tells, stored, Transcripts
      <4> QED
        BY <4>2, <4>3, <4>4, <4>5, <4>6
    <3> QED
      BY <1>2, <3>3, <3>4
  <2> QED
    BY <2>1, <2>2, OthersTell, StillTell DEF drafts
<1>3. ASSUME NEW t \in Tabs, AskReading(t) \/ ReadReading(t)
      PROVE  TranscriptsTell' /\ ReadingsTell' /\ ChoicesTell'
  <2>1. /\ UNCHANGED <<stored, transcript, drafts>>
        /\ \A o \in Tabs \ {t} : reading'[o] = reading[o]
    BY <1>3 DEF AskReading, ReadReading, TypeOK
  <2>2. ReadingTells(t)'
    <3>1. reading[t] \in Readings /\ rev \in [Parts -> Nat] /\ ReadingTells(t)
      BY DEF TypeOK, ReadingsTell
    <3>2. rev["analysis"] \in Nat
      BY <3>1 DEF Parts
    <3>3. CASE AskReading(t)
      BY <3>2, <3>3 DEF AskReading, ReadingTells, NoReading, stored, TypeOK
    <3>4. CASE ReadReading(t)
      BY <3>1, <3>2, <3>4 DEF ReadReading, ReadingTells, NoReading, stored, TypeOK, Readings
    <3> QED
      BY <1>3, <3>3, <3>4
  <2> QED
    BY <2>1, <2>2, OthersTell, StillTell DEF drafts
<1>4. ASSUME NEW t \in Tabs, EditTranscript(t) \/ CancelTranscript(t)
      PROVE  TranscriptsTell' /\ ReadingsTell' /\ ChoicesTell'
  <2>1. /\ UNCHANGED <<stored, transcript, reading, translationDraft>>
        /\ \A o \in Tabs \ {t} : transcriptDraft'[o] = transcriptDraft[o]
    BY <1>4 DEF EditTranscript, CancelTranscript, TypeOK
  <2>2. transcriptDraft'[t] \in {transcript[t], NoTranscript}
    BY <1>4 DEF EditTranscript, CancelTranscript, TypeOK
  <2>3. Tells(transcriptDraft[t])'
    <3>1. rev \in [Parts -> Nat] /\ Tells(transcript[t])
      BY DEF TypeOK, TranscriptsTell
    <3>2. rev["words"] \in Nat /\ rev["rows"] \in Nat
      BY <3>1 DEF Parts
    <3> QED
      BY <2>1, <2>2, <3>1, <3>2 DEF Tells, NoTranscript, stored
  <2> QED
    BY <2>1, <2>3, OthersTell, StillTell
<1>5. ASSUME NEW t \in Tabs, EditTranslations(t) \/ CancelTranslations(t)
      PROVE  TranscriptsTell' /\ ReadingsTell' /\ ChoicesTell'
  <2>1. /\ UNCHANGED <<stored, transcript, reading, transcriptDraft>>
        /\ \A o \in Tabs \ {t} : translationDraft'[o] = translationDraft[o]
    BY <1>5 DEF EditTranslations, CancelTranslations, TypeOK
  <2>2. ChoiceTells(t)'
    <3>1. Tells(Shown(t)) /\ Shown(t) \in Transcripts
      BY DEF Shown, TranscriptsTell, TypeOK
    <3>2. CASE EditTranslations(t)
      <4>1. /\ Shown(t).step = "ready" /\ Shown(t).rows # 0
            /\ translationDraft'[t] = [open |-> TRUE, rev |-> Shown(t).rowsRev, rows |-> Shown(t).rows,
                                       words |-> Shown(t).words, typed |-> Shown(t).typed]
        BY <3>2 DEF EditTranslations, TypeOK
      <4> QED
        BY <2>1, <3>1, <4>1 DEF Tells, ChoiceTells, stored
    <3>3. CASE CancelTranslations(t)
      BY <3>3 DEF CancelTranslations, TypeOK, ChoiceTells, NoChoice
    <3> QED
      BY <1>5, <3>2, <3>3
  <2> QED
    BY <2>1, <2>2, OthersTell, StillTell
<1>6. ASSUME NEW t \in Tabs, SaveTranscript(t)
      PROVE  TranscriptsTell' /\ ReadingsTell' /\ ChoicesTell'
  <2>1. CASE UNCHANGED tabVars
    BY <2>1, <1>1
  <2>2. CASE ~UNCHANGED tabVars
    <3>1. /\ words' = New /\ UNCHANGED translationDraft
          /\ transcript' = [transcript EXCEPT ![t] =
                 [NoTranscript EXCEPT !.step = "words", !.words = New,
                                      !.wordsRev = rev'["words"], !.rowsRev = rev'["rows"]]]
          /\ reading' = [reading EXCEPT ![t] = NoReading]
          /\ transcriptDraft' = [transcriptDraft EXCEPT ![t] = NoTranscript]
      BY <1>6, <2>2 DEF SaveTranscript
    <3>2. rev'["words"] \in Nat /\ rev'["rows"] \in Nat /\ rev'["analysis"] \in Nat
      BY DEF TypeOK, Parts
    <3>3. Tells(transcript[t])' /\ Tells(transcriptDraft[t])'
      BY <3>1, <3>2 DEF Tells, NoTranscript, TypeOK
    <3>4. ReadingTells(t)'
      BY <3>1, <3>2 DEF ReadingTells, NoReading, TypeOK
    <3>5. \A o \in Tabs \ {t} : /\ transcript'[o] = transcript[o] /\ reading'[o] = reading[o]
                                /\ transcriptDraft'[o] = transcriptDraft[o]
      BY <3>1 DEF TypeOK
    <3> QED
      BY <3>1, <3>3, <3>4, <3>5, OthersTell, StillTell
  <2> QED
    BY <2>1, <2>2
<1>7. ASSUME NEW t \in Tabs, SaveTranslations(t)
      PROVE  TranscriptsTell' /\ ReadingsTell' /\ ChoicesTell'
  <2>1. UNCHANGED <<reading, transcriptDraft>>
    BY <1>7 DEF SaveTranslations
  <2>2. CASE UNCHANGED <<transcript, translationDraft>>
    BY <2>1, <2>2, StillTell DEF TranscriptsTell, ReadingsTell, ChoicesTell
  <2>3. CASE ~UNCHANGED <<transcript, translationDraft>>
    <3>1. /\ transcript' = [transcript EXCEPT ![t] = [NoTranscript EXCEPT !.step = "asked"]]
          /\ translationDraft' = [translationDraft EXCEPT ![t] = NoChoice]
      BY <1>7, <2>3 DEF SaveTranslations
    <3>2. rev'["words"] \in Nat /\ rev'["rows"] \in Nat
      BY DEF TypeOK, Parts
    <3>3. Tells(transcript[t])' /\ ChoiceTells(t)'
      BY <3>1, <3>2 DEF Tells, NoTranscript, ChoiceTells, NoChoice, TypeOK
    <3>4. \A o \in Tabs \ {t} : /\ transcript'[o] = transcript[o]
                                /\ translationDraft'[o] = translationDraft[o]
      BY <3>1 DEF TypeOK
    <3> QED
      BY <2>1, <3>3, <3>4, OthersTell, StillTell
  <2> QED
    BY <2>2, <2>3
<1>8. ASSUME NEW t \in Tabs, SaveAnalysis(t)
      PROVE  TranscriptsTell' /\ ReadingsTell' /\ ChoicesTell'
  <2>1. UNCHANGED <<transcript, transcriptDraft, translationDraft>>
    BY <1>8 DEF SaveAnalysis
  <2>2. CASE UNCHANGED reading
    BY <2>1, <2>2, StillTell DEF TranscriptsTell, ReadingsTell, ChoicesTell
  <2>3. CASE ~UNCHANGED reading
    <3>1. /\ analysis' = New
          /\ reading' = [reading EXCEPT ![t] =
               [step |-> "ready", rev |-> rev'["analysis"], row |-> New, good |-> TRUE]]
      BY <1>8, <2>3 DEF SaveAnalysis
    <3>2. rev'["analysis"] \in Nat
      BY DEF TypeOK, Parts
    <3>3. ReadingTells(t)'
      BY <3>1, <3>2 DEF ReadingTells, TypeOK
    <3>4. \A o \in Tabs \ {t} : reading'[o] = reading[o]
      BY <3>1 DEF TypeOK
    <3> QED
      BY <2>1, <3>3, <3>4, OthersTell, StillTell
  <2> QED
    BY <2>2, <2>3
<1>9. ASSUME NEW t \in Tabs, EditAnalysis(t) \/ CancelAnalysis(t)
      PROVE  TranscriptsTell' /\ ReadingsTell' /\ ChoicesTell'
  <2>1. UNCHANGED <<transcript, transcriptDraft, translationDraft, reading>>
    BY <1>9 DEF EditAnalysis, CancelAnalysis
  <2> QED
    BY <2>1, StillTell DEF TranscriptsTell, ReadingsTell, ChoicesTell
<1>10. ASSUME Work \/ UNCHANGED vars PROVE UNCHANGED tabVars
  BY <1>10 DEF Work, vars, tabVars, Ask, Load, FailJob, PersistTranscript, PersistAnalysis, PersistTranslation
<1>11. ASSUME NEW t \in Tabs, TypeTranscript(t)
       PROVE  TranscriptsTell' /\ ReadingsTell' /\ ChoicesTell'
  <2>1. /\ UNCHANGED <<stored, transcript, reading>>
        /\ \A o \in Tabs \ {t} : /\ transcriptDraft'[o] = transcriptDraft[o]
                                /\ translationDraft'[o] = translationDraft[o]
    BY <1>11 DEF TypeTranscript, TypeOK
  <2>2. Tells(transcriptDraft[t])'
    BY <1>11, <2>1 DEF TypeTranscript, TypeOK, Transcripts, TranscriptsTell, Tells, stored
  <2>3. ChoiceTells(t)'
    BY <1>11, <2>1 DEF TypeTranscript, TypeOK, Choices, ChoicesTell, ChoiceTells, stored
  <2> QED
    BY <2>1, <2>2, <2>3, OthersTell, StillTell
<1> QED
  BY <1>1, <1>2, <1>3, <1>4, <1>5, <1>6, <1>7, <1>8, <1>9, <1>10, <1>11 DEF Next, Tab

\* What a tab shows never falls behind what its editors were opened on.
LEMMA StepAdvances == ASSUME IInv, TypeOK', Raised, [Next]_vars PROVE ScreensAdvance'
<1> USE DEF IInv
<1>1. ASSUME NEW t \in Tabs, UNCHANGED <<transcript[t], transcriptDraft[t], translationDraft[t]>>
      PROVE  NotOlder(t)'
  BY <1>1 DEF ScreensAdvance, NotOlder
<1>2. ASSUME NEW t \in Tabs
      PROVE  /\ transcript[t] \in Transcripts /\ transcriptDraft[t] \in Transcripts
             /\ translationDraft[t] \in Choices
             /\ rev["rows"] \in Nat /\ rev'["rows"] \in Nat /\ rev["rows"] <= rev'["rows"]
             /\ transcriptDraft[t].rowsRev <= rev["rows"]
             /\ translationDraft[t].open => translationDraft[t].rev <= rev["rows"]
             /\ NotOlder(t)
  BY DEF TypeOK, Raised, Parts, TranscriptsTell, Tells, ChoicesTell, ChoiceTells, ScreensAdvance
<1>3. ASSUME NEW t \in Tabs, \A o \in Tabs \ {t} : UNCHANGED <<transcript[o], transcriptDraft[o], translationDraft[o]>>,
             NotOlder(t)'
      PROVE  ScreensAdvance'
  <2> SUFFICES ASSUME NEW o \in Tabs PROVE NotOlder(o)'
    BY DEF ScreensAdvance
  <2> QED
    BY <1>1, <1>3
<1>4. ASSUME NEW t \in Tabs, AskTranscript(t) \/ ReadTranscript(t) PROVE ScreensAdvance'
  <2>1. /\ UNCHANGED <<transcriptDraft, translationDraft>>
        /\ \A o \in Tabs \ {t} : transcript'[o] = transcript[o]
    BY <1>4 DEF AskTranscript, ReadTranscript, TypeOK, drafts
  <2>2. \/ transcript'[t].step \in {"idle", "asked"}
        \/ transcript'[t].rowsRev = rev["rows"]
        \/ /\ transcript[t].step \in {"revs", "words", "ready"}
           /\ transcript'[t].rowsRev = transcript[t].rowsRev
    BY <1>2, <1>4 DEF AskTranscript, ReadTranscript, TypeOK, NoTranscript, Transcripts
  <2>3. NotOlder(t)'
    BY <1>2, <2>1, <2>2 DEF NotOlder
  <2> QED
    BY <1>3, <2>1, <2>3
<1>5. ASSUME NEW t \in Tabs, EditTranscript(t) \/ CancelTranscript(t) PROVE ScreensAdvance'
  <2>1. /\ UNCHANGED <<transcript, translationDraft>>
        /\ \A o \in Tabs \ {t} : transcriptDraft'[o] = transcriptDraft[o]
    BY <1>5 DEF EditTranscript, CancelTranscript, TypeOK
  <2>2. \/ transcript[t].step = "ready" /\ transcriptDraft'[t] = transcript[t]
        \/ transcriptDraft'[t].step = "idle"
    BY <1>5 DEF EditTranscript, CancelTranscript, TypeOK, NoTranscript
  <2>3. NotOlder(t)'
    BY <1>2, <2>1, <2>2 DEF NotOlder, Transcripts
  <2> QED
    BY <1>3, <2>1, <2>3
<1>6. ASSUME NEW t \in Tabs, TypeTranscript(t) PROVE ScreensAdvance'
  <2>1. /\ UNCHANGED transcript
        /\ \A o \in Tabs \ {t} : /\ transcriptDraft'[o] = transcriptDraft[o]
                                /\ translationDraft'[o] = translationDraft[o]
    BY <1>6 DEF TypeTranscript, TypeOK
  <2>2. /\ transcriptDraft'[t].step = transcriptDraft[t].step
        /\ transcriptDraft'[t].rowsRev = transcriptDraft[t].rowsRev
        /\ translationDraft'[t].open = translationDraft[t].open
        /\ translationDraft'[t].rev = translationDraft[t].rev
    BY <1>6 DEF TypeTranscript, TypeOK, Transcripts, Choices
  <2>3. NotOlder(t)'
    BY <1>2, <2>1, <2>2 DEF NotOlder
  <2> QED
    BY <1>3, <2>1, <2>3
<1>7. ASSUME NEW t \in Tabs, EditTranslations(t) \/ CancelTranslations(t) PROVE ScreensAdvance'
  <2>1. /\ UNCHANGED <<transcript, transcriptDraft>>
        /\ \A o \in Tabs \ {t} : translationDraft'[o] = translationDraft[o]
    BY <1>7 DEF EditTranslations, CancelTranslations, TypeOK
  <2>2. \/ Shown(t).step = "ready" /\ translationDraft'[t].rev = Shown(t).rowsRev
        \/ ~translationDraft'[t].open
    BY <1>7 DEF EditTranslations, CancelTranslations, TypeOK, NoChoice
  <2>3. NotOlder(t)'
    BY <1>2, <2>1, <2>2 DEF NotOlder, Shown, Transcripts
  <2> QED
    BY <1>3, <2>1, <2>3
<1>8. ASSUME NEW t \in Tabs, SaveTranscript(t), ~UNCHANGED tabVars PROVE ScreensAdvance'
  <2>1. /\ UNCHANGED translationDraft
        /\ transcript' = [transcript EXCEPT ![t] =
               [NoTranscript EXCEPT !.step = "words", !.words = New,
                                    !.wordsRev = rev'["words"], !.rowsRev = rev'["rows"]]]
        /\ transcriptDraft' = [transcriptDraft EXCEPT ![t] = NoTranscript]
    BY <1>8 DEF SaveTranscript
  <2>2. /\ transcript'[t].rowsRev = rev'["rows"] /\ transcriptDraft'[t].step = "idle"
        /\ \A o \in Tabs \ {t} : /\ transcript'[o] = transcript[o]
                                /\ transcriptDraft'[o] = transcriptDraft[o]
    BY <2>1 DEF TypeOK, NoTranscript
  <2>3. NotOlder(t)'
    BY <1>2, <2>1, <2>2 DEF NotOlder, Choices
  <2> QED
    BY <1>3, <2>1, <2>2, <2>3
<1>9. ASSUME NEW t \in Tabs, SaveTranslations(t), ~UNCHANGED <<transcript, translationDraft>>
      PROVE  ScreensAdvance'
  <2>1. /\ UNCHANGED transcriptDraft
        /\ transcript' = [transcript EXCEPT ![t] = [NoTranscript EXCEPT !.step = "asked"]]
        /\ translationDraft' = [translationDraft EXCEPT ![t] = NoChoice]
    BY <1>9 DEF SaveTranslations
  <2>2. /\ transcript'[t].step = "asked" /\ ~translationDraft'[t].open
        /\ \A o \in Tabs \ {t} : /\ transcript'[o] = transcript[o]
                                /\ translationDraft'[o] = translationDraft[o]
    BY <2>1 DEF TypeOK, NoTranscript, NoChoice
  <2>3. NotOlder(t)'
    BY <2>2 DEF NotOlder
  <2> QED
    BY <1>3, <2>1, <2>2, <2>3
<1>10. ASSUME UNCHANGED <<transcript, transcriptDraft, translationDraft>> PROVE ScreensAdvance'
  BY <1>1, <1>10 DEF ScreensAdvance
<1>11. ASSUME Work \/ UNCHANGED vars
       PROVE  UNCHANGED <<transcript, transcriptDraft, translationDraft>>
  BY <1>11 DEF Work, vars, tabVars, Ask, Load, FailJob, PersistTranscript, PersistAnalysis, PersistTranslation
<1>12. ASSUME NEW t \in Tabs, AskReading(t) \/ ReadReading(t) \/ EditAnalysis(t) \/ CancelAnalysis(t) \/ SaveAnalysis(t)
       PROVE  UNCHANGED <<transcript, transcriptDraft, translationDraft>>
  BY <1>12 DEF AskReading, ReadReading, EditAnalysis, CancelAnalysis, SaveAnalysis, drafts
<1>13. ASSUME NEW t \in Tabs, SaveTranscript(t), UNCHANGED tabVars PROVE ScreensAdvance'
  BY <1>10, <1>13 DEF tabVars
<1>14. ASSUME NEW t \in Tabs, SaveTranslations(t), UNCHANGED <<transcript, translationDraft>> PROVE ScreensAdvance'
  BY <1>10, <1>14 DEF SaveTranslations
<1> QED
  BY <1>4, <1>5, <1>6, <1>7, <1>8, <1>9, <1>10, <1>11, <1>12, <1>13, <1>14 DEF Next, Tab
--------------------------------------------------------------------------------
(* No words change under a job that has read them. *)

LEMMA StepFresh == ASSUME IInv, [Next]_vars PROVE JobReadsCurrent' /\ FreshIsCurrent'
<1> USE DEF IInv, JobReadsCurrent, FreshIsCurrent
<1>0. job.loaded \in Nat /\ job.kind \in Kinds /\ words \in Nat /\ status \in Statuses
  BY DEF TypeOK
<1>1. ASSUME NEW k \in Kinds, Ask(k) PROVE JobReadsCurrent' /\ FreshIsCurrent'
  BY <1>1 DEF Ask, stored
<1>2. ASSUME Load PROVE JobReadsCurrent' /\ FreshIsCurrent'
  <2>1. job'.kind = job.kind /\ job'.loaded = words /\ UNCHANGED stored
    BY <1>2 DEF Load, TypeOK
  <2> QED
    BY <1>2, <2>1 DEF Load, stored
<1>3. ASSUME FailJob PROVE JobReadsCurrent' /\ FreshIsCurrent'
  <2>1. job'.loaded = 0 /\ UNCHANGED stored
    BY <1>3 DEF FailJob, HandOff, TypeOK
  <2> QED
    BY <2>1 DEF stored
<1>4. ASSUME PersistTranscript PROVE JobReadsCurrent' /\ FreshIsCurrent'
  <2>1. job'.loaded = 0 /\ status' # "completed"
    BY <1>4 DEF PersistTranscript, HandOff
  <2> QED
    BY <2>1
<1>5. ASSUME PersistAnalysis PROVE JobReadsCurrent' /\ FreshIsCurrent'
  <2>1. job'.loaded = 0
    BY <1>5 DEF PersistAnalysis, HandOff
  <2>2. job.loaded = words /\ UNCHANGED words
    BY <1>5 DEF PersistAnalysis
  <2>3. about' = job.loaded \/ (UNCHANGED <<about, status>>)
    BY <1>5 DEF PersistAnalysis
  <2> QED
    BY <2>1, <2>2, <2>3
<1>6. ASSUME PersistTranslation PROVE JobReadsCurrent' /\ FreshIsCurrent'
  BY <1>6 DEF PersistTranslation, HandOff
<1>7. ASSUME NEW t \in Tabs, SaveTranscript(t) PROVE JobReadsCurrent' /\ FreshIsCurrent'
  <2>1. job.loaded = 0 /\ UNCHANGED job
    BY <1>7, <1>0 DEF SaveTranscript, Accepts, Idle
  <2>2. status' # "completed"
    BY <1>7 DEF SaveTranscript, NoneYet
  <2> QED
    BY <2>1, <2>2
<1>8. ASSUME NEW t \in Tabs, SaveTranslations(t) PROVE JobReadsCurrent' /\ FreshIsCurrent'
  BY <1>8 DEF SaveTranslations
<1>9. ASSUME NEW t \in Tabs, SaveAnalysis(t) PROVE JobReadsCurrent' /\ FreshIsCurrent'
  BY <1>9 DEF SaveAnalysis
<1>10. ASSUME UNCHANGED <<stored, job>> PROVE JobReadsCurrent' /\ FreshIsCurrent'
  BY <1>10 DEF stored
<1> QED
  BY <1>1, <1>2, <1>3, <1>4, <1>5, <1>6, <1>7, <1>8, <1>9, <1>10
     DEF Next, Work, Tab, vars, AskTranscript, ReadTranscript, AskReading, ReadReading,
         EditTranscript, TypeTranscript, EditTranslations, EditAnalysis, CancelTranscript, CancelTranslations,
         CancelAnalysis, stored

LEMMA StepNoneYet == ASSUME IInv, [Next]_vars PROVE NoneYet'
<1> USE DEF IInv, NoneYet
<1>1. ASSUME PersistAnalysis PROVE NoneYet'
  BY <1>1 DEF PersistAnalysis, Writing, New, TypeOK
<1>2. ASSUME NEW t \in Tabs, SaveAnalysis(t) PROVE NoneYet'
  BY <1>2 DEF SaveAnalysis, Writing, New, TypeOK
<1>3. ASSUME PersistTranscript \/ PersistTranslation PROVE NoneYet'
  BY <1>3 DEF PersistTranscript, PersistTranslation
<1>4. ASSUME NEW t \in Tabs, SaveTranscript(t) \/ SaveTranslations(t) PROVE NoneYet'
  BY <1>4 DEF SaveTranscript, SaveTranslations
<1>5. ASSUME UNCHANGED stored PROVE NoneYet'
  BY <1>5 DEF stored
<1> QED
  BY <1>1, <1>2, <1>3, <1>4, <1>5
     DEF Next, Work, Tab, vars, Ask, Load, FailJob, AskTranscript, ReadTranscript, AskReading, ReadReading,
         EditTranscript, TypeTranscript, EditTranslations, EditAnalysis, CancelTranscript, CancelTranslations,
         CancelAnalysis, stored
--------------------------------------------------------------------------------
(* The theorems. *)

LEMMA InitInv == Init => IInv
<1>1. Init => TypeOK
  BY InitType
<1> QED
  BY <1>1 DEF Init, IInv, TranscriptsTell, Tells, NoTranscript, ReadingsTell, ReadingTells, NoReading,
     ChoicesTell, ChoiceTells, NoChoice, ScreensAdvance, NotOlder, JobReadsCurrent, NoneYet, FreshIsCurrent, Parts

\* The invariant is inductive: whatever tabs and jobs do, what was read under a revision
\* that is still current is still what is stored.
THEOREM ResultsInvariant == Spec => []IInv
<1>1. ASSUME IInv, [Next]_vars PROVE IInv'
  <2>1. TypeOK'
    BY <1>1, StepType DEF IInv
  <2>2. Raised
    BY <1>1, StepRaises DEF IInv
  <2> QED
    BY <1>1, <2>1, <2>2, StepTells, StepAdvances, StepFresh, StepNoneYet DEF IInv
<1> QED
  BY <1>1, InitInv, PTL DEF Spec

\* The row of a recording, its job and what the tabs and editors hold keep their types through every
\* write, read and save (Results.TypeOK).
THEOREM TypeCorrect == Spec => []TypeOK
<1>1. IInv => TypeOK
  BY DEF IInv
<1> QED BY <1>1, ResultsInvariant, PTL

\* A revision that is current tells that the tab shows what is stored, although a GET
\* reads it in another statement than the rows.
THEOREM RevisionsTellContent == Spec => []RevisionTellsContent
<1>1. IInv => RevisionTellsContent
  BY DEF IInv, TranscriptsTell, Tells, ReadingsTell, ReadingTells, RevisionTellsContent
<1> QED
  BY <1>1, ResultsInvariant, PTL

\* A completed analysis is about the words there are now: an edit or a transcription
\* flags it, and none comes between a job's reading and its result.
THEOREM FreshAnalysisIsCurrent == Spec => []FreshIsCurrent
<1>1. IInv => FreshIsCurrent
  BY DEF IInv
<1> QED
  BY <1>1, ResultsInvariant, PTL

\* The saves of the transcript and of the translations replace what their editors were
\* opened on, and nothing newer.
THEOREM NothingOverwrittenSilently == Spec => NoSilentOverwrite
<1>1. ASSUME IInv, [Next]_vars
      PROVE  [\A t \in Tabs :
                /\ SaveTranscript(t) => transcriptDraft[t].words = words
                /\ SaveTranslations(t) => translationDraft[t].rows = rows]_vars
  <2> SUFFICES ASSUME NEW t \in Tabs
               PROVE  /\ SaveTranscript(t) => transcriptDraft[t].words = words
                      /\ SaveTranslations(t) => translationDraft[t].rows = rows
    OBVIOUS
  <2>1. Tells(transcriptDraft[t]) /\ ChoiceTells(t)
    BY <1>1 DEF IInv, TranscriptsTell, ChoicesTell
  <2> QED
    BY <2>1 DEF Tells, ChoiceTells, SaveTranscript, SaveTranslations, Accepts
<1> QED
  BY <1>1, ResultsInvariant, PTL DEF Spec, NoSilentOverwrite

\* A rendering that is saved by hand is recorded with the words it was shown with, from the
\* opening of its editor to the save, unless words that are only typed were shown meanwhile.
THEOREM RenderingsMatchTheWordsRead == Spec => WordsWereRead
<1>1. ASSUME IInv, [Next]_vars
      PROVE  [\A t \in Tabs :
                SaveTranslations(t) /\ ~translationDraft[t].typed =>
                  translationDraft[t].words = words /\ Shown(t).words = words]_vars
  <2> SUFFICES ASSUME NEW t \in Tabs, SaveTranslations(t)
               PROVE  translationDraft[t].words = words /\ Shown(t).words = words
    OBVIOUS
  <2>1. /\ translationDraft[t].open /\ translationDraft[t].rev = rev["rows"]
        /\ Shown(t).step = "ready"
    BY DEF SaveTranslations, Accepts
  <2>2. translationDraft[t].words = words /\ rows # 0
    BY <1>1, <2>1 DEF IInv, ChoicesTell, ChoiceTells
  <2>3. Tells(Shown(t)) /\ Shown(t) \in Transcripts /\ rev["rows"] \in Nat
    BY <1>1 DEF IInv, TranscriptsTell, Shown, TypeOK, Parts
  <2>4. translationDraft[t].rev <= Shown(t).rowsRev
    BY <1>1, <2>1 DEF IInv, ScreensAdvance, NotOlder, Shown
  <2>5. Shown(t).rowsRev = rev["rows"]
    BY <2>1, <2>3, <2>4 DEF Tells, Transcripts
  <2> QED
    BY <2>1, <2>2, <2>3, <2>5 DEF Tells
<1> QED
  BY <1>1, ResultsInvariant, PTL DEF Spec, WordsWereRead

\* A run that gives no reading never takes the place of one that did.
THEOREM LastGoodReadingStands == Spec => GoodReadingStands
<1>1. TypeOK /\ [Next]_vars => [good /\ analysis' # analysis => good' /\ status' = "completed"]_vars
  <2> SUFFICES ASSUME TypeOK, Next, good, analysis' # analysis PROVE good' /\ status' = "completed"
    OBVIOUS
  <2>1. CASE PersistAnalysis
    BY <2>1 DEF PersistAnalysis
  <2>2. ASSUME NEW t \in Tabs, SaveAnalysis(t) PROVE good' /\ status' = "completed"
    BY <2>2 DEF SaveAnalysis
  <2>3. PersistAnalysis \/ \E t \in Tabs : SaveAnalysis(t)
    BY DEF Next, Work, Tab, Ask, Load, FailJob, PersistTranscript, PersistTranslation, AskTranscript,
       ReadTranscript, AskReading, ReadReading, EditTranscript, TypeTranscript, EditTranslations, EditAnalysis,
       CancelTranscript, CancelTranslations, CancelAnalysis, SaveTranscript, SaveTranslations, stored
  <2> QED
    BY <2>1, <2>2, <2>3
<1>2. IInv => TypeOK
  BY DEF IInv
<1> QED
  BY <1>1, <1>2, ResultsInvariant, PTL DEF Spec, GoodReadingStands
================================================================================
