-------------------------- MODULE IngestStorageProofs --------------------------
(***************************************************************************)
(* What IngestStorage guarantees for any uploads and deletions: theorems   *)
(* about its invariants, by induction over one action at a time.           *)
(***************************************************************************)
EXTENDS IngestStorage, TLAPS

(* Facts about the state. *)

\* Under guarded audio, what is at the key of an upload is the upload's.
LEMMA SameKey ==
  ASSUME IInv, NEW u \in Issued, NEW v \in Issued, Key[u] = Key[v], Guarded(u)
  PROVE  Id[u] = Id[v] /\ Audio[u] = Audio[v] /\ Guarded(v)
BY UploadAssumption DEF IInv, OneAudio, Guarded, Issued

LEMMA InFlightIssued == \A u \in Uploads : InFlight(u) => u \in Issued
BY DEF InFlight, Issued

LEMMA RowsIssued == ASSUME IInv PROVE rows \subseteq Issued
BY DEF IInv, TypeOK, InsertedOnce, Issued
--------------------------------------------------------------------------------
(* Types. *)

LEMMA InitType == Init => TypeOK
BY UploadAssumption DEF Init, TypeOK, Keys, Audios, Steps, Replies, Phases

LEMMA StepType == ASSUME TypeOK, InsertedOnce, NoJobs, [Next]_vars PROVE TypeOK'
<1>1. ASSUME NEW u \in Uploads PROVE Key[u] \in Keys /\ Audio[u] \in Audios
  BY DEF Keys, Audios
<1>2. ASSUME NEW u \in Uploads, Look(u) PROVE TypeOK'
  BY <1>2, <1>1 DEF TypeOK, Look, To, End, Reply, Steps, Replies, dbVars, deleteVars, AtRisk,
     Found, SameId, SameAudio, Clashing, Issued
<1>3. ASSUME NEW u \in Uploads, Put(u) PROVE TypeOK'
  BY <1>3, <1>1 DEF TypeOK, Put, To, End, Reply, Steps, Replies, dbVars, deleteVars, Published, Here
<1>4. ASSUME NEW u \in Uploads, Insert(u) \/ LoseAnswer(u) PROVE TypeOK'
  BY <1>4, <1>1 DEF TypeOK, Insert, LoseAnswer, Inserted, GiveUp, To, End, Reply, Steps, Replies,
     dbVars, deleteVars
<1>5. ASSUME NEW u \in Uploads, Fails(u) PROVE TypeOK'
  BY <1>5, <1>1 DEF TypeOK, Fails, GiveUp, To, Steps, Replies, dbVars, deleteVars, Published,
     Unlinked, Here
<1>6. ASSUME NEW u \in Uploads, LookAgain(u) PROVE TypeOK'
  BY <1>6 DEF TypeOK, LookAgain, To, End, Reply, Steps, Replies, dbVars, deleteVars
<1>7. ASSUME NEW u \in Uploads, Check(u) \/ Unlink(u) \/ Undo(u) PROVE TypeOK'
  BY <1>7, <1>1 DEF TypeOK, Check, Unlink, Undo, Conclude, Unlinked, Here, To, End, Reply, Steps,
     Replies, dbVars, deleteVars
<1>8. ASSUME NEW u \in Uploads, EndJob(u) \/ Reprocess(u) PROVE TypeOK'
  BY <1>8 DEF TypeOK, EndJob, Reprocess, uploadVars, deleteVars
<1>9. ASSUME NEW d \in Deletions, NEW u \in Uploads, Stage(d, u) \/ StageFails(d, u) PROVE TypeOK'
  BY <1>9, <1>1 DEF TypeOK, Stage, StageFails, Moved, Advance, Phases, dbVars, uploadVars
<1>10. ASSUME NEW d \in Deletions, Commit(d) \/ RollBack(d) \/ Restore(d) \/ Finalize(d)
       PROVE  TypeOK'
  BY <1>10, <1>1 DEF TypeOK, Commit, RollBack, Restore, Finalize, Advance, Phases, dbVars,
     uploadVars, Keys, InsertedOnce, NoJobs
<1>11. ASSUME Crash PROVE TypeOK'
  BY <1>11 DEF TypeOK, Crash, Steps, Replies, Phases, dbVars
<1>12. ASSUME UNCHANGED vars PROVE TypeOK'
  BY <1>12 DEF TypeOK, vars
<1> QED
  BY <1>2, <1>3, <1>4, <1>5, <1>6, <1>7, <1>8, <1>9, <1>10, <1>11, <1>12
     DEF Next, Upload, Delete
--------------------------------------------------------------------------------
(* What a step may do to each part of the state: the facts that the proof of each *)
(* part of the invariant needs, and that StepEffects proves of each action. *)

\* How the steps of an upload follow each other.
Moves ==
  ({"new"} \X {"publishing", "adopting", "ended"}) \cup ({"publishing"} \X {"saving", "ended"})
    \cup ({"adopting"} \X {"ended"}) \cup ({"saving"} \X {"refused", "undoing", "ended"})
    \cup ({"refused"} \X {"checking", "undoing", "ended"})
    \cup ({"checking"} \X {"unlinking", "undoing", "ended"})
    \cup ({"unlinking"} \X {"undoing", "ended"}) \cup ({"undoing"} \X {"ended"})
UploadsMove ==
  /\ \A u \in Uploads : pc'[u] = pc[u] \/ <<pc[u], pc'[u]>> \in Moves
  /\ \A u \in Uploads : pc[u] # "new" \/ pc'[u] \in {"new", "publishing"} => at'[u] = at[u]
  /\ unguarded \subseteq unguarded'
\* A first look marks the audio it puts at risk.
LookMarks ==
  \A u \in Uploads : pc[u] = "new" /\ pc'[u] # "new" =>
    /\ \A v \in Uploads \ {u} : pc'[v] = pc[v]
    /\ \A v \in Clashing(u) : Audio[u] \in unguarded' /\ Audio[v] \in unguarded'
    /\ Deleting(Audio[u]) => Audio[u] \in unguarded'
    /\ UNCHANGED <<rows, phase, target>>
    /\ pc'[u] = "adopting" => at'[u] \in rows /\ Audio[at'[u]] = Audio[u]
\* What an upload has seen when it goes on.
UploadsSee ==
  \A u \in Uploads : pc'[u] # pc[u] =>
    /\ pc'[u] = "refused" => Taken(u) /\ rows' = rows
    /\ pc'[u] = "checking" =>
         /\ rows' = rows
         /\ Conflict(u) \/ Found(u) = {} \/ \E v \in Found(u) : Key[v] # Key[u]
    /\ pc'[u] = "unlinking" => rows' = rows
    /\ pc'[u] = "saving" => file'[Here(u)] = Audio[u] /\ rows' = rows
    /\ pc'[u] = "undoing" => u \in Web /\ (u \in rows' => u \in rows \/ Audio[u] \in unguarded')
\* An upload that published is done when its file is gone, or is a recording's.
UploadsEnd ==
  \A u \in Unfinished :
    u \in Unfinished' \/ file'[Key[u]] = None \/ \E v \in rows' : Key[v] = Key[u]
RowsChange ==
  \/ rows' = rows
  \/ \E u \in Uploads : /\ pc[u] = "saving" /\ pc'[u] \in {"undoing", "ended"}
                        /\ ~Taken(u) /\ rows' = rows \cup {u}
                        /\ UNCHANGED <<file, phase, target, quarantine>>
  \/ \E d \in Deletions : /\ phase[d] = "staged" /\ rows' = rows \ {target[d]}
                          /\ UNCHANGED <<file, pc, target, quarantine, unguarded>>
FileChanges ==
  \A k \in Keys : file'[k] # file[k] => /\ rows' = rows
    /\ \/ \E u \in Uploads : /\ pc[u] \in {"publishing", "adopting"} /\ Here(u) = k
                             /\ file[k] = None /\ file'[k] = Audio[u]
                             /\ pc[u] = "publishing" => u \in Unfinished'
       \/ \E u \in Uploads : /\ pc[u] \in {"unlinking", "undoing"} /\ Here(u) = k
                             /\ file'[k] = None
       \/ \E u \in rows, d \in Deletions :
            /\ Key[u] = k /\ file'[k] = None
            /\ phase[d] = "new" /\ target'[d] = u /\ quarantine'[d] = file[k]
       \/ \E d \in Deletions :
            /\ phase[d] = "restoring" /\ phase'[d] = "failed" /\ Key[target[d]] = k
            /\ quarantine[d] # None /\ file[k] = None /\ file'[k] = quarantine[d]
DeletionsMove ==
  \A d \in Deletions :
    /\ phase'[d] = "new" => phase[d] = "new" /\ quarantine'[d] = quarantine[d]
    /\ target'[d] # target[d] => phase[d] = "new" /\ phase'[d] # "new"
    /\ phase[d] = "new" /\ phase'[d] # "new" =>
         /\ target'[d] \in rows /\ target'[d] \notin active' /\ UNCHANGED <<rows, pc>>
         /\ quarantine'[d] \in {None, file[Key[target'[d]]]}
         /\ phase'[d] = "staged" =>
              /\ file'[Key[target'[d]]] = None
              /\ Uploading(Audio[target'[d]]) => Audio[target'[d]] \in unguarded'
    /\ phase'[d] = "staged" => phase[d] \in {"new", "staged"}
    /\ phase[d] = "failed" => phase'[d] = "failed"
    /\ phase'[d] = "committed" =>
         phase[d] = "committed" \/ (phase[d] = "staged" /\ rows' = rows \ {target[d]})
    /\ quarantine'[d] # quarantine[d] =>
         \/ phase[d] = "new"
         \/ /\ quarantine'[d] = None
            /\ phase[d] = "committed" \/ file'[Key[target[d]]] = quarantine[d]
    /\ phase[d] = "staged" /\ target[d] \in active' => target[d] \in active \/ pc[target[d]] = "saving"

Effects ==
  /\ UploadsMove /\ LookMarks /\ UploadsSee /\ UploadsEnd
  /\ RowsChange /\ FileChanges /\ DeletionsMove

LEMMA LookEffects ==
  ASSUME TypeOK, AtHome, NEW u \in Uploads, Look(u)
  PROVE  Effects
<1>1. /\ pc[u] = "new" /\ pc'[u] \in {"publishing", "adopting", "ended"}
      /\ \A v \in Uploads \ {u} : pc'[v] = pc[v] /\ at'[v] = at[v] /\ reply'[v] = reply[v]
      /\ pc'[u] = "publishing" => at'[u] = at[u]
      /\ pc'[u] = "adopting" => at'[u] \in Found(u) /\ ~Conflict(u)
      /\ unguarded' = unguarded \cup AtRisk(u)
      /\ UNCHANGED <<file, rows, active, phase, target, quarantine>>
  BY DEF Look, To, End, Reply, TypeOK, dbVars, deleteVars, Found, SameId, SameAudio
<1>2. UploadsMove
  BY <1>1 DEF UploadsMove, Moves
<1>3. LookMarks
  <2>1. pc'[u] = "adopting" => at'[u] \in rows /\ Audio[at'[u]] = Audio[u]
    BY <1>1 DEF Found, SameId, SameAudio, Conflict
  <2> QED
    BY <1>1, <2>1 DEF LookMarks, AtRisk
<1>4. UploadsSee /\ RowsChange /\ FileChanges
  BY <1>1 DEF UploadsSee, RowsChange, FileChanges
<1>5. UploadsEnd
  BY <1>1 DEF UploadsEnd, Unfinished, InFlight
<1>6. DeletionsMove
  BY <1>1 DEF DeletionsMove
<1> QED
  BY <1>2, <1>3, <1>4, <1>5, <1>6 DEF Effects

LEMMA PutEffects ==
  ASSUME TypeOK, AtHome, NEW u \in Uploads, Put(u)
  PROVE  Effects
<1>1. /\ pc[u] \in {"publishing", "adopting"} /\ pc'[u] \in {"saving", "ended"}
      /\ pc'[u] = "saving" => pc[u] = "publishing"
      /\ \A v \in Uploads \ {u} : pc'[v] = pc[v] /\ reply'[v] = reply[v]
      /\ UNCHANGED <<rows, active, at, phase, target, quarantine, unguarded>>
  BY DEF Put, To, End, Reply, TypeOK, dbVars, deleteVars
<1>2. \/ file' = file /\ pc'[u] = "ended"
      \/ /\ Fits(u) /\ file' = [file EXCEPT ![Here(u)] = Audio[u]]
         /\ pc[u] = "publishing" => pc'[u] = "saving"
  BY DEF Put, To, End, Reply, TypeOK, Published
<1>3. Here(u) \in Keys
  BY DEF Here, Keys, TypeOK
<1>4. UploadsMove /\ LookMarks /\ RowsChange /\ DeletionsMove
  BY <1>1 DEF UploadsMove, Moves, LookMarks, RowsChange, DeletionsMove
<1>5. UploadsSee
  BY <1>1, <1>2, <1>3 DEF UploadsSee, TypeOK
<1>6. UploadsEnd
  BY <1>1 DEF UploadsEnd, Unfinished, InFlight
<1>7. FileChanges
  BY <1>1, <1>2, <1>3 DEF FileChanges, Fits, TypeOK, Unfinished, InFlight
<1> QED
  BY <1>4, <1>5, <1>6, <1>7 DEF Effects

LEMMA InsertEffects ==
  ASSUME TypeOK, AtHome, InsertedOnce, NEW u \in Uploads, Insert(u) \/ LoseAnswer(u)
  PROVE  Effects
<1>1. /\ pc[u] = "saving"
      /\ \A v \in Uploads \ {u} : pc'[v] = pc[v] /\ reply'[v] = reply[v]
      /\ UNCHANGED <<file, at, phase, target, quarantine>> /\ unguarded \subseteq unguarded'
      /\ u \notin rows
  BY DEF Insert, LoseAnswer, GiveUp, To, End, Reply, TypeOK, dbVars, deleteVars, InsertedOnce
<1>2. \/ /\ ~Taken(u) /\ pc'[u] \in {"undoing", "ended"}
         /\ rows' = rows \cup {u} /\ active' = active \cup {u}
         /\ pc'[u] = "undoing" => u \in Web /\ Audio[u] \in unguarded'
      \/ Taken(u) /\ pc'[u] = "refused" /\ UNCHANGED <<rows, active>>
  BY <1>1 DEF Insert, LoseAnswer, GiveUp, To, End, Reply, TypeOK, dbVars, Inserted
<1>3. UploadsMove /\ LookMarks
  BY <1>1, <1>2 DEF UploadsMove, Moves, LookMarks
<1>4. UploadsSee /\ RowsChange /\ FileChanges
  BY <1>1, <1>2 DEF UploadsSee, RowsChange, FileChanges
<1>5. UploadsEnd
  BY <1>1, <1>2 DEF UploadsEnd, Unfinished, InFlight
<1>6. DeletionsMove
  BY <1>1, <1>2 DEF DeletionsMove
<1> QED
  BY <1>3, <1>4, <1>5, <1>6 DEF Effects

LEMMA FailsEffects ==
  ASSUME TypeOK, AtHome, InsertedOnce, NEW u \in Uploads, Fails(u)
  PROVE  Effects
<1>1. /\ pc[u] \notin {"new", "ended"} /\ pc'[u] \in {"undoing", "ended"} /\ reply'[u] = "error"
      /\ pc'[u] = "undoing" => u \in Web /\ pc[u] \in {"saving", "refused", "checking", "unlinking"}
      /\ \A v \in Uploads \ {u} : pc'[v] = pc[v] /\ reply'[v] = reply[v]
      /\ UNCHANGED <<rows, active, at, phase, target, quarantine, unguarded>>
      /\ pc'[u] = "undoing" => u \notin rows
  BY DEF Fails, InFlight, GiveUp, To, TypeOK, dbVars, deleteVars, InsertedOnce
<1>2. \/ file' = file
      \/ /\ pc[u] \in {"publishing", "adopting"}
         /\ Fits(u) /\ file' = [file EXCEPT ![Here(u)] = Audio[u]]
      \/ pc[u] \in {"unlinking", "undoing"} /\ file' = [file EXCEPT ![Here(u)] = None]
  BY DEF Fails, Published, Unlinked
<1>3. Here(u) \in Keys
  BY DEF Here, Keys, TypeOK
<1>4. UploadsMove /\ LookMarks /\ UploadsSee /\ RowsChange /\ DeletionsMove
  BY <1>1, SMTT(30) DEF UploadsMove, Moves, LookMarks, UploadsSee, RowsChange, DeletionsMove, TypeOK, Steps
<1>5. UploadsEnd
  BY <1>1 DEF UploadsEnd, Unfinished, InFlight
<1>6. FileChanges
  BY <1>1, <1>2, <1>3 DEF FileChanges, Fits, TypeOK, Unfinished, InFlight
<1> QED
  BY <1>4, <1>5, <1>6 DEF Effects

LEMMA LookAgainEffects ==
  ASSUME TypeOK, AtHome, NEW u \in Uploads, LookAgain(u)
  PROVE  Effects
<1>1. /\ pc[u] = "refused" /\ pc'[u] \in {"checking", "ended"}
      /\ \A v \in Uploads \ {u} : pc'[v] = pc[v] /\ reply'[v] = reply[v]
      /\ UNCHANGED <<file, rows, active, at, phase, target, quarantine, unguarded>>
  BY DEF LookAgain, To, End, Reply, TypeOK, dbVars, deleteVars
<1>2. /\ pc'[u] = "checking" => Conflict(u) \/ Found(u) = {} \/ \E v \in Found(u) : Key[v] # Key[u]
      /\ pc'[u] = "ended" => \E v \in rows : Key[v] = Key[u]
  BY DEF LookAgain, To, End, Reply, TypeOK, Found, SameId, SameAudio
<1>3. UploadsMove /\ LookMarks /\ RowsChange /\ FileChanges /\ DeletionsMove
  BY <1>1 DEF UploadsMove, Moves, LookMarks, RowsChange, FileChanges, DeletionsMove
<1>4. UploadsSee
  BY <1>1, <1>2 DEF UploadsSee
<1>5. UploadsEnd
  BY <1>1, <1>2 DEF UploadsEnd, Unfinished, InFlight
<1> QED
  BY <1>3, <1>4, <1>5 DEF Effects

LEMMA CleanUpEffects ==
  ASSUME TypeOK, AtHome, InsertedOnce, NEW u \in Uploads, Check(u) \/ Unlink(u) \/ Undo(u)
  PROVE  Effects
<1>1. /\ pc[u] \in {"checking", "unlinking", "undoing"} /\ pc'[u] \in {"unlinking", "undoing", "ended"}
      /\ pc'[u] = "unlinking" => pc[u] = "checking"
      /\ pc'[u] = "undoing" => u \in Web /\ pc[u] # "undoing" /\ u \notin rows
      /\ \A v \in Uploads \ {u} : pc'[v] = pc[v] /\ reply'[v] = reply[v]
      /\ UNCHANGED <<rows, active, at, phase, target, quarantine, unguarded>>
      /\ at[u] = u
  BY DEF Check, Unlink, Undo, Conclude, To, End, Reply, TypeOK, dbVars, deleteVars, InsertedOnce, AtHome
<1>2. \/ /\ file' = file /\ pc[u] = "checking"
         /\ pc'[u] = "ended" => \E v \in rows : Key[v] = Key[u]
      \/ /\ pc[u] \in {"unlinking", "undoing"} /\ file' = [file EXCEPT ![Here(u)] = None]
         /\ pc'[u] # "unlinking"
  BY DEF Check, Unlink, Undo, Conclude, To, End, TypeOK, Unlinked
<1>3. Here(u) \in Keys /\ Here(u) = Key[u]
  BY <1>1 DEF Here, Keys
<1>4. UploadsMove /\ LookMarks /\ UploadsSee /\ RowsChange /\ DeletionsMove
  BY <1>1, SMTT(30) DEF UploadsMove, Moves, LookMarks, UploadsSee, RowsChange, DeletionsMove
<1>5. UploadsEnd
  BY <1>1, <1>2, <1>3 DEF UploadsEnd, Unfinished, InFlight, TypeOK
<1>6. FileChanges
  BY <1>1, <1>2, <1>3 DEF FileChanges, TypeOK
<1> QED
  BY <1>4, <1>5, <1>6 DEF Effects

LEMMA JobEffects ==
  ASSUME TypeOK, NEW u \in Uploads, EndJob(u) \/ Reprocess(u)
  PROVE  Effects
<1>1. /\ UNCHANGED <<file, rows, pc, at, reply, phase, target, quarantine, unguarded>>
      /\ \A d \in Deletions : phase[d] = "staged" /\ target[d] \in active' => target[d] \in active
  BY DEF EndJob, Reprocess, Locked, uploadVars, deleteVars
<1> QED
  BY <1>1 DEF Effects, UploadsMove, LookMarks, UploadsSee, UploadsEnd, Unfinished, InFlight,
     RowsChange, FileChanges, DeletionsMove

LEMMA StageEffects ==
  ASSUME TypeOK, InsertedOnce, NEW d \in Deletions, NEW u \in Uploads, Stage(d, u) \/ StageFails(d, u)
  PROVE  Effects
<1>1. /\ phase[d] = "new" /\ u \in rows \ active
      /\ target' = [target EXCEPT ![d] = u] /\ phase'[d] \in {"staged", "failed"}
      /\ \A e \in Deletions \ {d} : phase'[e] = phase[e] /\ quarantine'[e] = quarantine[e]
      /\ UNCHANGED <<rows, active, pc, at, reply>> /\ unguarded \subseteq unguarded'
      /\ phase'[d] = "staged" /\ Uploading(Audio[u]) => Audio[u] \in unguarded'
  BY DEF Stage, StageFails, Moved, Advance, TypeOK, dbVars, uploadVars
<1>2. \/ /\ quarantine'[d] = file[Key[u]] /\ file' = [file EXCEPT ![Key[u]] = None]
      \/ quarantine' = quarantine /\ file' = file /\ phase'[d] = "failed"
  BY DEF Stage, StageFails, Moved, Advance, TypeOK
<1>3. Key[u] \in Keys
  BY DEF Keys
<1>4. UploadsMove /\ LookMarks /\ UploadsSee /\ UploadsEnd /\ RowsChange
  BY <1>1 DEF UploadsMove, LookMarks, UploadsSee, UploadsEnd, Unfinished, InFlight, RowsChange
<1>5. FileChanges
  BY <1>1, <1>2, <1>3 DEF FileChanges, TypeOK
<1>6. DeletionsMove
  BY <1>1, <1>2, <1>3 DEF DeletionsMove, TypeOK, InsertedOnce
<1> QED
  BY <1>4, <1>5, <1>6 DEF Effects

LEMMA DeleteEffects ==
  ASSUME TypeOK, InsertedOnce, NEW d \in Deletions,
         Commit(d) \/ RollBack(d) \/ Restore(d) \/ Finalize(d)
  PROVE  Effects
<1>1. /\ \A e \in Deletions \ {d} : phase'[e] = phase[e] /\ quarantine'[e] = quarantine[e]
      /\ UNCHANGED <<active, pc, at, reply, target, unguarded>>
      /\ target[d] \in Uploads /\ Key[target[d]] \in Keys
  BY DEF Commit, RollBack, Restore, Finalize, Advance, TypeOK, dbVars, uploadVars, InsertedOnce, Keys
<1>2. \/ /\ phase[d] = "staged" /\ phase'[d] \in {"committed", "restoring"}
         /\ rows' \in {rows, rows \ {target[d]}}
         /\ phase'[d] = "committed" => rows' = rows \ {target[d]}
         /\ UNCHANGED <<file, quarantine>>
      \/ /\ phase[d] = "restoring" /\ phase'[d] = "failed" /\ rows' = rows
         /\ \/ /\ quarantine[d] # None /\ file[Key[target[d]]] = None
               /\ file' = [file EXCEPT ![Key[target[d]]] = quarantine[d]]
               /\ quarantine'[d] \in {None, quarantine[d]}
            \/ UNCHANGED <<file, quarantine>>
      \/ /\ phase[d] = "committed" /\ phase'[d] = "deleted" /\ rows' = rows
         /\ file' = file /\ quarantine'[d] \in {None, quarantine[d]}
  BY DEF Commit, RollBack, Restore, Finalize, Advance, TypeOK, dbVars
<1>3. UploadsMove /\ LookMarks /\ UploadsSee
  BY <1>1 DEF UploadsMove, LookMarks, UploadsSee
<1>4. UploadsEnd
  BY <1>1 DEF UploadsEnd, Unfinished, InFlight
<1>5. RowsChange
  BY <1>1, <1>2 DEF RowsChange
<1>6. FileChanges
  BY <1>1, <1>2 DEF FileChanges, TypeOK
<1>7. DeletionsMove
  BY <1>1, <1>2 DEF DeletionsMove, TypeOK
<1> QED
  BY <1>3, <1>4, <1>5, <1>6, <1>7 DEF Effects

LEMMA CrashEffects == ASSUME TypeOK, Crash PROVE Effects
<1>1. /\ \A u \in Uploads : /\ pc'[u] = IF InFlight(u) THEN "ended" ELSE pc[u]
                            /\ reply'[u] = IF InFlight(u) THEN "none" ELSE reply[u]
      /\ \A d \in Deletions : phase'[d] \in {phase[d], "failed"} /\ (phase[d] = "new" => phase'[d] = "new")
      /\ UNCHANGED <<file, rows, active, at, target, quarantine, unguarded>>
  BY DEF Crash, dbVars
<1>2. \A u \in Uploads : InFlight(u) => <<pc[u], "ended">> \in Moves
  BY DEF InFlight, Moves, TypeOK, Steps
<1>3. UploadsMove /\ LookMarks /\ UploadsSee /\ RowsChange /\ FileChanges /\ DeletionsMove
  BY <1>1, <1>2 DEF UploadsMove, LookMarks, UploadsSee, RowsChange, FileChanges, DeletionsMove, InFlight
<1>4. UploadsEnd
  BY <1>1 DEF UploadsEnd, Unfinished, InFlight
<1> QED
  BY <1>3, <1>4 DEF Effects

LEMMA StepEffects == ASSUME IInv, [Next]_vars PROVE Effects
<1>1. CASE UNCHANGED vars
  BY <1>1 DEF vars, Effects, UploadsMove, LookMarks, UploadsSee, UploadsEnd, Unfinished, InFlight,
     RowsChange, FileChanges, DeletionsMove
<1>2. CASE Next
  BY <1>2, LookEffects, PutEffects, InsertEffects, FailsEffects, LookAgainEffects, CleanUpEffects,
     JobEffects, StageEffects, DeleteEffects, CrashEffects DEF Next, Upload, Delete, IInv
<1> QED
  BY <1>1, <1>2

--------------------------------------------------------------------------------
(* Each part of the invariant is kept. *)

\* What is guarded after a step was guarded before it.
LEMMA GuardedBefore == ASSUME Effects, NEW u, Guarded(u)' PROVE Guarded(u)
BY DEF Effects, UploadsMove, Guarded

LEMMA IssuedGrows == ASSUME TypeOK, Effects PROVE Issued \subseteq Issued'
BY DEF TypeOK, Effects, UploadsMove, Moves, Issued

LEMMA RowsDifferStep == ASSUME IInv, Effects PROVE RowsDiffer'
BY DEF IInv, Effects, RowsChange, RowsDiffer, Taken

LEMMA InsertedOnceStep == ASSUME IInv, TypeOK', Effects PROVE InsertedOnce'
<1>1. ASSUME NEW u \in Uploads, pc[u] \in {"ended", "undoing"} PROVE pc'[u] \in {"ended", "undoing"}
  BY <1>1 DEF Effects, UploadsMove, Moves
<1>2. ASSUME NEW u \in rows' PROVE pc'[u] \in {"ended", "undoing"}
  BY <1>1, <1>2 DEF IInv, TypeOK, InsertedOnce, Effects, RowsChange
<1>3. ASSUME NEW d \in Deletions
      PROVE  IF phase'[d] = "new" THEN target'[d] = None /\ quarantine'[d] = None
             ELSE target'[d] \in Uploads /\ pc'[target'[d]] \in {"ended", "undoing"}
  BY <1>1, <1>2 DEF IInv, TypeOK, InsertedOnce, Effects, DeletionsMove
<1> QED
  BY <1>2, <1>3 DEF InsertedOnce

LEMMA NoJobsStep == ASSUME IInv, Effects PROVE NoJobs'
BY DEF IInv, NoJobs, InsertedOnce, Effects, DeletionsMove

LEMMA OneAudioStep == ASSUME IInv, Effects PROVE OneAudio'
<1> SUFFICES ASSUME NEW u \in Issued', NEW v \in Issued', Id[u] = Id[v], Guarded(u)'
             PROVE  Audio[u] = Audio[v]
  BY DEF OneAudio
<1>1. Guarded(u) /\ Audio[u] \notin unguarded'
  BY GuardedBefore DEF Guarded
<1>2. CASE u \in Issued /\ v \in Issued
  BY <1>1, <1>2 DEF IInv, OneAudio
<1>3. CASE u \notin Issued
  BY <1>1, <1>3 DEF Effects, LookMarks, Clashing, Issued
<1>4. CASE v \notin Issued
  BY <1>1, <1>4 DEF Effects, LookMarks, Clashing, Issued
<1> QED
  BY <1>2, <1>3, <1>4

LEMMA AtHomeStep == ASSUME IInv, TypeOK', Effects PROVE AtHome'
<1> SUFFICES ASSUME NEW u \in Uploads
             PROVE  /\ pc'[u] \notin {"adopting", "ended"} => at'[u] = u
                    /\ pc'[u] = "adopting" =>
                         /\ at'[u] \in Issued' /\ Audio[at'[u]] = Audio[u]
                         /\ Guarded(u)' => at'[u] \in rows'
  BY DEF AtHome
<1>1. ASSUME pc'[u] \notin {"adopting", "ended"} PROVE at'[u] = u
  <2>1. pc[u] \notin {"adopting", "ended"}
    BY <1>1 DEF Effects, UploadsMove, Moves
  <2>2. at'[u] = at[u]
    BY <1>1, <2>1 DEF Effects, UploadsMove, Moves
  <2> QED
    BY <2>1, <2>2 DEF IInv, AtHome
<1>2. CASE pc[u] = "new" /\ pc'[u] = "adopting"
  BY <1>2, RowsIssued, IssuedGrows DEF IInv, Effects, LookMarks
<1>3. CASE pc[u] = "adopting" /\ pc'[u] = "adopting"
  <2>1. at'[u] = at[u] /\ at[u] \in Issued /\ Audio[at[u]] = Audio[u] /\ at[u] \in Issued'
    BY <1>3, IssuedGrows DEF IInv, AtHome, Effects, UploadsMove
  <2>2. ASSUME Guarded(u)' PROVE at[u] \in rows'
    <3>1. Guarded(u) /\ at[u] \in rows /\ InFlight(u)
      BY <1>3, <2>2, GuardedBefore DEF IInv, AtHome, InFlight
    <3> QED
      BY <2>1, <3>1 DEF IInv, Apart, Effects, RowsChange
  <2> QED
    BY <1>3, <2>1, <2>2
<1>4. ASSUME pc'[u] = "adopting" PROVE pc[u] \in {"new", "adopting"}
  BY <1>4 DEF IInv, TypeOK, Effects, UploadsMove, Moves
<1> QED
  BY <1>1, <1>2, <1>3, <1>4

LEMMA ApartStep == ASSUME IInv, TypeOK', Effects PROVE Apart'
<1> SUFFICES ASSUME NEW d \in Deletions, NEW u \in Uploads,
                    phase'[d] = "staged", InFlight(u)', Guarded(u)'
             PROVE  Audio[target'[d]] # Audio[u]
  BY DEF Apart
<1>1. Guarded(u) /\ Audio[u] \notin unguarded'
  BY GuardedBefore DEF Guarded
<1>2. CASE phase[d] = "new"
  <2>1. /\ pc' = pc
        /\ Uploading(Audio[target'[d]]) => Audio[target'[d]] \in unguarded'
    BY <1>2 DEF Effects, DeletionsMove
  <2> QED
    BY <1>1, <2>1 DEF Uploading, InFlight
<1>3. CASE phase[d] = "staged"
  <2>1. target'[d] = target[d]
    BY <1>3 DEF Effects, DeletionsMove
  <2>2. CASE InFlight(u)
    BY <1>1, <1>3, <2>1, <2>2 DEF IInv, Apart
  <2>3. CASE ~InFlight(u)
    <3>1. pc[u] = "new" /\ pc'[u] # "new"
      BY <2>3 DEF IInv, TypeOK, Effects, UploadsMove, Moves, InFlight
    <3> QED
      BY <1>1, <1>3, <2>1, <3>1 DEF Effects, LookMarks, Deleting
  <2> QED
    BY <2>2, <2>3
<1>4. phase[d] \in {"new", "staged"}
  BY DEF Effects, DeletionsMove
<1> QED
  BY <1>2, <1>3, <1>4

LEMMA OriginsStep == ASSUME IInv, TypeOK', Effects PROVE Origins'
<1>1. Issued \subseteq Issued'
  BY IssuedGrows DEF IInv
<1>2. ASSUME NEW k \in Keys, file'[k] # None
      PROVE  \E v \in Issued : Key[v] = k /\ Audio[v] = file'[k]
  <2>1. CASE file'[k] = file[k]
    BY <1>2, <2>1 DEF IInv, Origins, From
  <2>2. ASSUME NEW u \in Uploads, pc[u] \in {"publishing", "adopting"}, Here(u) = k,
               file'[k] = Audio[u]
        PROVE  \E v \in Issued : Key[v] = k /\ Audio[v] = file'[k]
    <3>1. at[u] \in Issued /\ Audio[at[u]] = Audio[u] /\ Key[at[u]] = k
      BY <2>2 DEF IInv, AtHome, Issued, Here
    <3> QED
      BY <2>2, <3>1
  <2>3. ASSUME NEW d \in Deletions, quarantine[d] # None, Key[target[d]] = k, file'[k] = quarantine[d]
        PROVE  \E v \in Issued : Key[v] = k /\ Audio[v] = file'[k]
    BY <2>3 DEF IInv, Origins, From
  <2> QED
    BY <1>2, <2>1, <2>2, <2>3 DEF Effects, FileChanges
<1>3. ASSUME NEW d \in Deletions, quarantine'[d] # None
      PROVE  \E v \in Issued : Key[v] = Key[target'[d]] /\ Audio[v] = quarantine'[d]
  <2>1. CASE phase[d] = "new"
    <3>1. phase'[d] # "new" /\ target'[d] \in rows /\ quarantine'[d] = file[Key[target'[d]]]
      BY <1>3, <2>1 DEF IInv, InsertedOnce, Effects, DeletionsMove
    <3>2. Key[target'[d]] \in Keys
      BY <3>1 DEF IInv, TypeOK, Keys
    <3> QED
      BY <1>3, <3>1, <3>2 DEF IInv, Origins, From
  <2>2. CASE phase[d] # "new"
    <3>1. target'[d] = target[d] /\ quarantine'[d] = quarantine[d]
      BY <1>3, <2>2 DEF Effects, DeletionsMove
    <3> QED
      BY <1>3, <3>1 DEF IInv, Origins, From
  <2> QED
    BY <2>1, <2>2
<1> QED
  BY <1>1, <1>2, <1>3 DEF Origins, From

LEMMA WinnerStaysStep == ASSUME IInv, TypeOK', Effects PROVE WinnerStays'
<1> SUFFICES ASSUME NEW u \in Uploads, pc'[u] \in {"refused", "checking", "unlinking"}, Guarded(u)'
             PROVE  \E v \in rows' : Audio[v] = Audio[u] /\ (pc'[u] # "refused" => Key[v] # Key[u])
  BY DEF WinnerStays
<1>1. /\ Guarded(u) /\ u \in Issued
      /\ \A v \in rows : v \in Issued
      /\ \A v \in Issued : Id[v] = Id[u] => Audio[v] = Audio[u]
  <2>1. u \in Issued
    BY DEF IInv, TypeOK, Effects, UploadsMove, Moves, Issued
  <2> QED
    BY <2>1, GuardedBefore, RowsIssued DEF IInv, OneAudio
<1>2. CASE pc'[u] = pc[u]
  <2>1. PICK v \in rows : Audio[v] = Audio[u] /\ (pc[u] # "refused" => Key[v] # Key[u])
    BY <1>1, <1>2 DEF IInv, WinnerStays
  <2>2. v \in rows'
    BY <1>1, <1>2, <2>1 DEF IInv, Apart, InFlight, Effects, RowsChange
  <2> QED
    BY <1>2, <2>1, <2>2
<1>3. CASE pc[u] # pc'[u] /\ pc'[u] = "refused"
  BY <1>1, <1>3 DEF Effects, UploadsSee, Taken, IInv, TypeOK
<1>4. CASE pc[u] # pc'[u] /\ pc'[u] = "unlinking"
  <2>1. pc[u] = "checking" /\ rows' = rows
    BY <1>4 DEF Effects, UploadsMove, Moves, UploadsSee
  <2> QED
    BY <1>1, <1>4, <2>1 DEF IInv, WinnerStays
<1>5. CASE pc[u] # pc'[u] /\ pc'[u] = "checking"
  <2>1. pc[u] = "refused" /\ rows' = rows
    BY <1>5 DEF Effects, UploadsMove, Moves, UploadsSee
  <2>2. PICK v \in rows : Audio[v] = Audio[u]
    BY <1>1, <2>1 DEF IInv, WinnerStays
  <2>3. ~Conflict(u)
    BY <1>1 DEF Conflict, SameId
  <2>4. Found(u) # {}
    BY <2>2 DEF Found, SameAudio
  <2>5. PICK x \in Found(u) : Key[x] # Key[u]
    BY <1>5, <2>3, <2>4 DEF Effects, UploadsSee
  <2>6. x \in rows /\ Audio[x] = Audio[u]
    BY <2>3 DEF Found, SameId, SameAudio, Conflict
  <2> QED
    BY <2>1, <2>5, <2>6
<1> QED
  BY <1>2, <1>3, <1>4, <1>5

\* How a file can go while an upload of guarded audio counts on it.
LEMMA FileGone ==
  ASSUME IInv, Effects, NEW u \in Issued, Guarded(u), file[Key[u]] = Audio[u], file'[Key[u]] # Audio[u]
  PROVE  \/ \E v \in rows : Audio[v] = Audio[u] /\ Key[v] # Key[u] /\ rows' = rows
         \/ pc[u] = "undoing"
         \/ \E v \in rows, d \in Deletions :
              /\ Key[v] = Key[u] /\ Audio[v] = Audio[u] /\ rows' = rows
              /\ phase[d] = "new" /\ target'[d] = v /\ quarantine'[d] = Audio[u]
<1>1. Key[u] \in Keys /\ file[Key[u]] # None /\ u \in Uploads
  BY UploadAssumption DEF Keys, Issued
<1>2. ASSUME NEW w \in Uploads, pc[w] \in {"unlinking", "undoing"}, Here(w) = Key[u]
      PROVE  \/ \E v \in rows : Audio[v] = Audio[u] /\ Key[v] # Key[u]
             \/ pc[u] = "undoing"
  <2>1. Key[w] = Key[u] /\ w \in Issued
    BY <1>2 DEF IInv, AtHome, Here, Issued
  <2>2. Id[w] = Id[u] /\ Audio[w] = Audio[u] /\ Guarded(w)
    BY <2>1, SameKey
  <2>3. CASE pc[w] = "unlinking"
    BY <2>1, <2>2, <2>3 DEF IInv, WinnerStays
  <2>4. CASE pc[w] = "undoing"
    BY <1>1, <2>2, <2>4, UploadAssumption DEF IInv, UndoesItsOwn
  <2> QED
    BY <1>2, <2>3, <2>4
<1>3. ASSUME NEW v \in rows, Key[v] = Key[u] PROVE Audio[v] = Audio[u]
  BY <1>3, SameKey, RowsIssued
<1> QED
  BY <1>1, <1>2, <1>3 DEF Effects, FileChanges

LEMMA PublishedStaysStep == ASSUME IInv, TypeOK', Effects PROVE PublishedStays'
<1> SUFFICES ASSUME NEW u \in Uploads, pc'[u] = "saving", Guarded(u)', SameAudio(u)' = {}
             PROVE  file'[Key[u]] = Audio[u]
  BY DEF PublishedStays
<1>1. Guarded(u)
  BY GuardedBefore
<1>2. CASE pc[u] = "saving"
  <2>1. \A v \in rows : Audio[v] # Audio[u]
    BY <1>1, <1>2 DEF SameAudio, IInv, Apart, InFlight, Effects, RowsChange
  <2>2. file[Key[u]] = Audio[u]
    BY <1>1, <1>2, <2>1 DEF IInv, PublishedStays, SameAudio
  <2> QED
    BY <1>1, <1>2, <2>1, <2>2, FileGone DEF Issued
<1>3. CASE pc[u] # "saving"
  <2>1. pc[u] = "publishing"
    BY <1>3 DEF IInv, TypeOK, Effects, UploadsMove, Moves
  <2>2. Here(u) = Key[u]
    BY <2>1 DEF IInv, AtHome, Here
  <2> QED
    BY <1>3, <2>2 DEF Effects, UploadsSee
<1> QED
  BY <1>2, <1>3

LEMMA UndoesItsOwnStep == ASSUME IInv, TypeOK', Effects PROVE UndoesItsOwn'
<1> SUFFICES ASSUME NEW u \in Uploads, pc'[u] = "undoing"
             PROVE  u \in Web /\ (u \in rows' => Audio[u] \in unguarded')
  BY DEF UndoesItsOwn, Guarded
<1>1. unguarded \subseteq unguarded'
  BY DEF Effects, UploadsMove
<1>2. CASE pc[u] = "undoing"
  BY <1>1, <1>2 DEF IInv, UndoesItsOwn, Guarded, Effects, RowsChange
<1>3. CASE pc[u] # "undoing"
  <2>1. u \notin rows
    BY <1>3 DEF IInv, InsertedOnce, Effects, UploadsMove, Moves
  <2> QED
    BY <1>3, <2>1 DEF Effects, UploadsSee
<1> QED
  BY <1>2, <1>3

LEMMA GoneForGoodStep == ASSUME IInv, Effects PROVE GoneForGood'
<1> SUFFICES ASSUME NEW d \in Deletions, phase'[d] = "committed" PROVE target'[d] \notin rows'
  BY DEF GoneForGood
<1>1. target'[d] = target[d] /\ phase[d] # "new"
  BY DEF Effects, DeletionsMove
<1>2. pc[target[d]] # "saving"
  BY <1>1 DEF IInv, InsertedOnce
<1> QED
  BY <1>1, <1>2 DEF IInv, GoneForGood, Effects, DeletionsMove, RowsChange

LEMMA AudioSurvivesStep == ASSUME IInv, TypeOK', Effects PROVE AudioSurvives'
<1> SUFFICES ASSUME NEW u \in rows', Audio[u] \notin unguarded'
             PROVE  \/ file'[Key[u]] = Audio[u]
                    \/ \E d \in Deletions : target'[d] = u /\ quarantine'[d] = Audio[u]
  BY DEF AudioSurvives, Kept
<1>1. Guarded(u) /\ Audio[u] \notin unguarded /\ u \in Uploads
  BY DEF Guarded, Effects, UploadsMove, TypeOK
<1>2. CASE u \notin rows
  <2>1. pc[u] = "saving" /\ ~Taken(u) /\ file' = file
    BY <1>2 DEF Effects, RowsChange
  <2> QED
    BY <1>1, <2>1 DEF IInv, PublishedStays, Taken, SameAudio
<1>3. CASE u \in rows /\ file[Key[u]] = Audio[u] /\ file'[Key[u]] # Audio[u]
  <2>1. u \in Issued
    BY <1>3, RowsIssued
  <2>2. pc[u] # "undoing"
    BY <1>1, <1>3 DEF IInv, UndoesItsOwn
  <2>3. \A v \in rows : Audio[v] = Audio[u] => v = u
    BY <1>3 DEF IInv, RowsDiffer
  <2> QED
    BY <1>1, <1>3, <2>1, <2>2, <2>3, FileGone
<1>4. ASSUME u \in rows, NEW d \in Deletions, target[d] = u, quarantine[d] = Audio[u]
      PROVE  \/ file'[Key[u]] = Audio[u]
             \/ target'[d] = u /\ quarantine'[d] = Audio[u]
  <2>1. phase[d] \notin {"new", "committed"}
    BY <1>1, <1>4, UploadAssumption DEF IInv, InsertedOnce, GoneForGood
  <2>2. target'[d] = target[d]
    BY <2>1 DEF Effects, DeletionsMove
  <2> QED
    BY <1>4, <2>1, <2>2 DEF Effects, DeletionsMove
<1> QED
  BY <1>1, <1>2, <1>3, <1>4 DEF IInv, AudioSurvives, Kept

\* A failed deletion stays one, and what has lost its guard never gets it back.
LEMMA ExcusesStay ==
  ASSUME IInv, Effects, NEW k
  PROVE  (Unguarded(k) => Unguarded(k)') /\ (FailedDeletion(k) => FailedDeletion(k)')
<1>1. Unguarded(k) => Unguarded(k)'
  BY DEF Unguarded, Effects, UploadsMove
<1>2. ASSUME NEW d \in Deletions, target[d] # None, phase[d] = "failed", Key[target[d]] = k
      PROVE  FailedDeletion(k)'
  <2>1. phase'[d] = "failed" /\ target'[d] = target[d]
    BY <1>2 DEF Effects, DeletionsMove
  <2> QED
    BY <1>2, <2>1 DEF FailedDeletion
<1> QED
  BY <1>1, <1>2 DEF FailedDeletion

LEMMA MovedAwayStep == ASSUME IInv, TypeOK', Effects PROVE MovedAway'
<1> SUFFICES ASSUME NEW d \in Deletions, phase'[d] = "staged",
                    NEW k, k = Key[target'[d]], file'[k] # None
             PROVE  Unguarded(k)' \/ FailedDeletion(k)'
  BY DEF MovedAway, Unguarded, FailedDeletion
<1> DEFINE t == target[d]
<1>1. phase[d] = "staged" /\ target'[d] = t /\ k = Key[t]
  BY DEF Effects, DeletionsMove
<1>2. t \in Uploads /\ t \in Issued /\ k \in Keys
  BY <1>1 DEF IInv, InsertedOnce, Issued, Keys
<1>3. CASE file'[k] = file[k]
  BY <1>1, <1>3, ExcusesStay DEF IInv, MovedAway
<1>4. ASSUME NEW u \in Uploads, pc[u] \in {"publishing", "adopting"}, Here(u) = k
      PROVE  Unguarded(k)
  <2>1. at[u] \in Issued /\ Audio[at[u]] = Audio[u] /\ InFlight(u)
    BY <1>4 DEF IInv, AtHome, Issued, InFlight
  <2>2. Guarded(at[u]) => Audio[t] = Audio[u]
    BY <1>1, <1>2, <1>4, <2>1, SameKey DEF Here
  <2>3. ~Guarded(u)
    BY <1>1, <2>1, <2>2 DEF IInv, Apart, Guarded
  <2> QED
    BY <1>4, <2>1, <2>3 DEF Unguarded, Guarded, Here, Issued
<1>5. ASSUME NEW e \in Deletions, phase[e] = "restoring", phase'[e] = "failed", Key[target[e]] = k
      PROVE  FailedDeletion(k)'
  <2>1. target'[e] = target[e] /\ target[e] # None
    BY <1>5, UploadAssumption DEF Effects, DeletionsMove, IInv, InsertedOnce
  <2> QED
    BY <1>5, <2>1 DEF FailedDeletion
<1>6. \/ file'[k] = file[k]
      \/ \E u \in Uploads : pc[u] \in {"publishing", "adopting"} /\ Here(u) = k
      \/ \E e \in Deletions : phase[e] = "restoring" /\ phase'[e] = "failed" /\ Key[target[e]] = k
  BY <1>1, <1>2 DEF Effects, FileChanges
<1> QED
  BY <1>1, <1>3, <1>4, <1>5, <1>6, ExcusesStay

LEMMA NothingLeftOverStep == ASSUME IInv, TypeOK', Effects PROVE NothingLeftOver'
<1> SUFFICES ASSUME NEW k \in Keys, file'[k] # None, \A u \in rows' : Key[u] # k
             PROVE  \/ FailedDeletion(k)'
                    \/ Unguarded(k)'
                    \/ \E u \in Unfinished' : Key[u] = k
  BY DEF NothingLeftOver, Explained, Unowned
<1>1. CASE file'[k] = file[k] /\ k \in Unowned
  <2>1. CASE FailedDeletion(k) \/ Unguarded(k)
    BY <2>1, ExcusesStay
  <2>2. ASSUME NEW u \in Unfinished, Key[u] = k PROVE u \in Unfinished'
    BY <2>2 DEF Effects, UploadsEnd
  <2> QED
    BY <1>1, <2>1, <2>2 DEF IInv, NothingLeftOver, Explained
<1>2. CASE file'[k] = file[k] /\ k \notin Unowned
  <2>1. PICK u \in rows : Key[u] = k
    BY <1>2 DEF Unowned
  <2>2. u \notin rows'
    BY <2>1
  <2>3. PICK d \in Deletions : phase[d] = "staged" /\ target[d] = u
    BY <2>1, <2>2 DEF Effects, RowsChange
  <2> QED
    BY <1>2, <2>1, <2>3, ExcusesStay DEF IInv, MovedAway
<1>3. CASE file'[k] # file[k]
  <2>1. ASSUME NEW u \in Uploads, pc[u] \in {"publishing", "adopting"}, Here(u) = k, rows' = rows,
               pc[u] = "publishing" => u \in Unfinished'
        PROVE  Unguarded(k) \/ \E w \in Unfinished' : Key[w] = k
    <3>1. CASE pc[u] = "publishing"
      BY <2>1, <3>1 DEF IInv, AtHome, Here
    <3>2. CASE pc[u] = "adopting"
      <4>1. at[u] \in Issued /\ Audio[at[u]] = Audio[u] /\ Key[at[u]] = k
        BY <2>1, <3>2 DEF IInv, AtHome, Here
      <4>2. at[u] \notin rows
        BY <2>1, <4>1
      <4>3. Audio[at[u]] \in unguarded
        BY <3>2, <4>1, <4>2 DEF IInv, AtHome, Guarded
      <4> QED
        BY <4>1, <4>3 DEF Unguarded, Issued
    <3> QED
      BY <2>1, <3>1, <3>2
  <2>2. ASSUME NEW d \in Deletions, phase[d] = "restoring", phase'[d] = "failed", Key[target[d]] = k
        PROVE  FailedDeletion(k)'
    <3>1. target'[d] = target[d] /\ target[d] # None
      BY <2>2, UploadAssumption DEF Effects, DeletionsMove, IInv, InsertedOnce
    <3> QED
      BY <2>2, <3>1 DEF FailedDeletion
  <2> QED
    BY <1>3, <2>1, <2>2, ExcusesStay DEF Effects, FileChanges
<1> QED
  BY <1>1, <1>2, <1>3
--------------------------------------------------------------------------------
(* The theorems. *)

LEMMA InitInv == Init => IInv
<1> SUFFICES ASSUME Init PROVE IInv
  OBVIOUS
<1>1. Issued = {} /\ \A u \in Uploads : ~InFlight(u) /\ pc[u] = "new" /\ at[u] = u
  BY DEF Init, Issued, InFlight
<1>2. rows = {} /\ \A k \in Keys : file[k] = None
  BY DEF Init
<1>3. \A d \in Deletions : phase[d] = "new" /\ target[d] = None /\ quarantine[d] = None
  BY DEF Init
<1> QED
  BY <1>1, <1>2, <1>3, InitType
     DEF IInv, RowsDiffer, InsertedOnce, NoJobs, OneAudio, AtHome, Apart, Origins, WinnerStays,
         PublishedStays, UndoesItsOwn, GoneForGood, MovedAway, AudioSurvives, NothingLeftOver, Unowned

LEMMA StepInv == IInv /\ [Next]_vars => IInv'
<1> SUFFICES ASSUME IInv, [Next]_vars PROVE IInv'
  OBVIOUS
<1>1. TypeOK' /\ Effects
  BY StepType, StepEffects DEF IInv
<1> QED
  BY <1>1, RowsDifferStep, InsertedOnceStep, NoJobsStep, OneAudioStep, AtHomeStep, ApartStep,
     OriginsStep, WinnerStaysStep, PublishedStaysStep, UndoesItsOwnStep, GoneForGoodStep,
     MovedAwayStep, AudioSurvivesStep, NothingLeftOverStep DEF IInv

\* The inductive invariant holds in every state, and with it the types.
THEOREM StorageInvariant == Spec => []IInv
BY InitInv, StepInv, PTL DEF Spec

\* Files, rows, uploads and deletions keep their types in every interleaving: a job is on a row that
\* is there, and a key holds one original at most (IngestStorage.TypeOK).
THEOREM TypeCorrect == Spec => []TypeOK
<1>1. IInv => TypeOK
  BY DEF IInv
<1> QED BY <1>1, StorageInvariant, PTL

\* Guarded audio of a committed recording is never lost.
THEOREM RecordingsKeepAudio == Spec => []AudioSurvives
<1>1. IInv => AudioSurvives
  BY DEF IInv
<1> QED
  BY <1>1, StorageInvariant, PTL

\* No second copy and no original of a deleted recording stays where all went well.
THEOREM NoOrphans == Spec => []NothingLeftOver
<1>1. IInv => NothingLeftOver
  BY DEF IInv
<1> QED
  BY <1>1, StorageInvariant, PTL

\* How an upload comes to answer with success.
LEMMA Acknowledges ==
  ASSUME TypeOK, [Next]_vars, NEW u \in Uploads,
         pc[u] # "ended", pc'[u] = "ended", reply'[u] \in {"stored", "duplicate"}
  PROVE  \/ u \in rows'
         \/ /\ rows' = rows
            /\ pc[u] \in {"adopting", "checking", "unlinking"} \/ \E v \in rows : Audio[v] = Audio[u]
<1>1. ASSUME NEW w \in Uploads, Look(w) \/ LoseAnswer(w) \/ Fails(w) \/ Undo(w) PROVE FALSE
  BY <1>1 DEF TypeOK, Look, LoseAnswer, Fails, Undo, GiveUp, To, End, Reply
<1>2. ASSUME NEW w \in Uploads, Put(w) PROVE rows' = rows /\ pc[u] = "adopting"
  BY <1>2 DEF TypeOK, Put, To, End, Reply, dbVars
<1>3. ASSUME NEW w \in Uploads, Insert(w) PROVE u \in rows'
  BY <1>3 DEF TypeOK, Insert, Inserted, To, End, Reply
<1>4. ASSUME NEW w \in Uploads, LookAgain(w)
      PROVE  rows' = rows /\ \E v \in rows : Audio[v] = Audio[u]
  <2>1. rows' = rows /\ ~Conflict(u) /\ Found(u) # {}
    BY <1>4 DEF TypeOK, LookAgain, To, End, Reply, dbVars
  <2> QED
    BY <2>1 DEF Conflict, Found, SameId, SameAudio
<1>5. ASSUME NEW w \in Uploads, Check(w) \/ Unlink(w)
      PROVE  rows' = rows /\ pc[u] \in {"checking", "unlinking"}
  BY <1>5 DEF TypeOK, Check, Unlink, Conclude, To, dbVars
<1>6. ASSUME NEW w \in Uploads, EndJob(w) \/ Reprocess(w) PROVE FALSE
  BY <1>6 DEF EndJob, Reprocess, uploadVars
<1>7. ASSUME NEW d \in Deletions, Delete(d) PROVE FALSE
  BY <1>7 DEF Delete, Stage, StageFails, Commit, RollBack, Restore, Finalize, uploadVars
<1>8. ASSUME Crash PROVE FALSE
  BY <1>8 DEF TypeOK, Crash, InFlight
<1>9. ASSUME UNCHANGED vars PROVE FALSE
  BY <1>9 DEF vars
<1> QED
  BY <1>1, <1>2, <1>3, <1>4, <1>5, <1>6, <1>7, <1>8, <1>9 DEF Next, Upload

\* An upload that is told of success has its audio stored, under its own id or another.
THEOREM AcknowledgedUploadsAreStored == Spec => AcknowledgedIsStored
<1> DEFINE Told(u) ==
      /\ pc[u] # "ended" /\ pc'[u] = "ended" /\ reply'[u] \in {"stored", "duplicate"}
      /\ Audio[u] \notin unguarded'
      => \E v \in rows' : Audio[v] = Audio[u] /\ Kept(v)'
<1>1. ASSUME IInv, IInv', [Next]_vars, NEW u \in Uploads PROVE Told(u)
  <2> SUFFICES ASSUME pc[u] # "ended", pc'[u] = "ended", reply'[u] \in {"stored", "duplicate"},
                      Audio[u] \notin unguarded'
               PROVE  \E v \in rows' : Audio[v] = Audio[u] /\ Kept(v)'
    OBVIOUS
  <2>1. Guarded(u)
    <3>1. unguarded \subseteq unguarded'
      BY <1>1, StepEffects DEF IInv, Effects, UploadsMove
    <3> QED
      BY <3>1 DEF Guarded
  <2>2. pc[u] = "adopting" => \E v \in rows : Audio[v] = Audio[u]
    BY <1>1, <2>1 DEF IInv, AtHome
  <2>3. pc[u] \in {"checking", "unlinking"} => \E v \in rows : Audio[v] = Audio[u]
    BY <1>1, <2>1 DEF IInv, WinnerStays
  <2>4. PICK v \in rows' : Audio[v] = Audio[u]
    BY <1>1, <2>2, <2>3, Acknowledges DEF IInv
  <2>5. Kept(v)'
    BY <1>1, <2>4 DEF IInv, AudioSurvives
  <2> QED
    BY <2>4, <2>5
<1>2. IInv /\ IInv' /\ [Next]_vars => [\A u \in Uploads : Told(u)]_vars
  BY <1>1
<1> QED
  BY <1>2, StorageInvariant, PTL DEF Spec, AcknowledgedIsStored

================================================================================
