----------------------------- MODULE IngestStorage -----------------------------
(***************************************************************************)
(* How a recording's original and its row come and go together             *)
(* (recording_service.py, storage.py): the file system and the database    *)
(* share no transaction.  An upload publishes its file and then commits    *)
(* its row; a deletion moves the file to a quarantine, commits, and then   *)
(* unlinks it.  Every request runs on a thread of its own, may stall       *)
(* between any two of its calls, may fail in each of them, may lose the    *)
(* answer to a commit that was made, and dies with the process.            *)
(*                                                                         *)
(* A staged file is its request's own until it is published, and is left   *)
(* out.  A row stands for the upload that inserted it.                     *)
(***************************************************************************)
EXTENDS Integers, FiniteSets

CONSTANTS
  Uploads,      \* the upload requests
  Web,          \* those of the browser, which get an id of their own
  Id,           \* upload -> recording id
  Key,          \* upload -> original_storage_key
  Audio,        \* upload -> what identifies its bytes: device, hash and size
  Deletions,    \* the deletion requests
  MaxUploads    \* bound on the uploads of a behaviour

None == "none"

\* A storage key contains the recording's id; uuid4() gives a web upload a new one.
ASSUME UploadAssumption ==
  /\ Web \subseteq Uploads /\ MaxUploads \in Nat
  /\ \A u, v \in Uploads : Key[u] = Key[v] => Id[u] = Id[v]
  /\ \A u \in Web, v \in Uploads : Id[u] = Id[v] => u = v
  /\ None \notin Uploads /\ \A u \in Uploads : Audio[u] # None

Keys == {Key[u] : u \in Uploads}
Audios == {Audio[u] : u \in Uploads}

VARIABLES
  file,         \* key -> the original there, or None
  rows,         \* the uploads whose Recording is committed
  active,       \* those with a queued or running job
  pc,           \* upload -> the call it makes next
  at,           \* upload -> the upload whose key it works on
  reply,        \* upload -> its answer, once it is known
  phase,        \* deletion -> how far it is
  target,       \* deletion -> the recording it deletes
  quarantine,   \* deletion -> the original it moved, or None
  unguarded     \* audio for which the code guarantees nothing any more (history)

dbVars == <<rows, active>>
uploadVars == <<pc, at, reply>>
deleteVars == <<phase, target, quarantine>>
vars == <<file, rows, active, pc, at, reply, phase, target, quarantine, unguarded>>

Steps == {"new", "publishing", "adopting", "saving", "refused", "checking",
          "unlinking", "undoing", "ended"}
Replies == {"none", "stored", "duplicate", "conflict", "error"}
Phases == {"new", "staged", "restoring", "committed", "failed", "deleted"}

TypeOK ==
  /\ file \in [Keys -> Audios \cup {None}]
  /\ rows \subseteq Uploads /\ active \subseteq rows
  /\ pc \in [Uploads -> Steps] /\ at \in [Uploads -> Uploads] /\ reply \in [Uploads -> Replies]
  /\ phase \in [Deletions -> Phases]
  /\ target \in [Deletions -> Uploads \cup {None}]
  /\ quarantine \in [Deletions -> Audios \cup {None}]
  /\ unguarded \subseteq Audios

Init ==
  /\ file = [k \in Keys |-> None]
  /\ rows = {} /\ active = {}
  /\ pc = [u \in Uploads |-> "new"]
  /\ at = [u \in Uploads |-> u]
  /\ reply = [u \in Uploads |-> "none"]
  /\ phase = [d \in Deletions |-> "new"]
  /\ target = [d \in Deletions |-> None]
  /\ quarantine = [d \in Deletions |-> None]
  /\ unguarded = {}
--------------------------------------------------------------------------------
(* Uploads: ingest and ingest_web. *)

Issued == {u \in Uploads : pc[u] # "new"}
InFlight(u) == pc[u] \notin {"new", "ended"}

To(u, next) == pc' = [pc EXCEPT ![u] = next]
Reply(u, answer) == reply' = [reply EXCEPT ![u] = answer]
End(u, answer) == To(u, "ended") /\ Reply(u, answer)

\* _find_duplicate looks for the id and then for device and hash; _find_web_duplicate
\* for the hash alone.
SameId(u) == {v \in rows : u \notin Web /\ Id[v] = Id[u]}
SameAudio(u) == {v \in rows : Audio[v] = Audio[u]}
Conflict(u) == \E v \in SameId(u) : Audio[v] # Audio[u]
Found(u) == IF SameId(u) = {} THEN SameAudio(u) ELSE SameId(u)

\* put_original links the staged file to the key, or finds the same bytes there.
Here(u) == Key[at[u]]
Fits(u) == file[Here(u)] \in {None, Audio[u]}
Published(u) == file' = [file EXCEPT ![Here(u)] = Audio[u]]
\* delete.
Unlinked(u) == file' = [file EXCEPT ![Here(u)] = None]

\* The audio that an upload or a deletion in flight puts at risk: the code has no lock
\* that spans a file and a row, and two recordings may claim one id.
Deleting(x) == \E d \in Deletions : phase[d] = "staged" /\ Audio[target[d]] = x
Uploading(x) == \E u \in Uploads : InFlight(u) /\ Audio[u] = x
Clashing(u) == {v \in Issued : Id[v] = Id[u] /\ Audio[v] # Audio[u]}
AtRisk(u) ==
  {Audio[v] : v \in Clashing(u)}
    \cup (IF Deleting(Audio[u]) \/ Clashing(u) # {} THEN {Audio[u]} ELSE {})

\* The upload is staged, valid, and looks for a duplicate.
Look(u) ==
  /\ pc[u] = "new" /\ Cardinality(Issued) < MaxUploads
  /\ \/ Conflict(u) /\ End(u, "conflict") /\ UNCHANGED at
     \/ /\ ~Conflict(u)
        /\ \E v \in Found(u) : at' = [at EXCEPT ![u] = v]
        /\ To(u, "adopting") /\ UNCHANGED reply
     \/ Found(u) = {} /\ To(u, "publishing") /\ UNCHANGED <<at, reply>>
  /\ unguarded' = unguarded \cup AtRisk(u)
  /\ UNCHANGED <<file, dbVars, deleteVars>>

\* put_original, at the upload's own key or at that of the duplicate it found.
Put(u) ==
  /\ pc[u] \in {"publishing", "adopting"}
  /\ \/ /\ Fits(u) /\ Published(u)
        /\ \/ pc[u] = "publishing" /\ To(u, "saving") /\ UNCHANGED reply
           \/ pc[u] = "adopting" /\ End(u, "duplicate")
     \/ ~Fits(u) /\ End(u, "conflict") /\ UNCHANGED file
  /\ UNCHANGED <<dbVars, at, deleteVars, unguarded>>

\* The unique columns of recordings.
Taken(u) == \E v \in rows : Id[v] = Id[u] \/ Audio[v] = Audio[u]
Inserted(u) == rows' = rows \cup {u} /\ active' = active \cup {u}

\* _create_recording_and_job, _create_web_recording_and_job: the commit, or an
\* IntegrityError.
Insert(u) ==
  /\ pc[u] = "saving"
  /\ \/ ~Taken(u) /\ Inserted(u) /\ End(u, "stored")
     \/ Taken(u) /\ To(u, "refused") /\ UNCHANGED <<dbVars, reply>>
  /\ UNCHANGED <<file, at, deleteVars, unguarded>>

\* (Mutant: the file at the key goes without a look at the other uploads.)
GiveUpAndUndo(u) ==
  /\ reply' = [reply EXCEPT ![u] = "error"]
  /\ To(u, IF pc[u] \in {"saving", "refused", "checking", "unlinking"} THEN "undoing" ELSE "ended")
\* An exception: a web upload that had published deletes its file.
GiveUp(u) ==
  /\ reply' = [reply EXCEPT ![u] = "error"]
  /\ To(u, IF u \in Web /\ pc[u] \in {"saving", "refused", "checking", "unlinking"}
           THEN "undoing" ELSE "ended")

\* The row is committed and the upload does not learn of it.
LoseAnswer(u) ==
  /\ pc[u] = "saving" /\ ~Taken(u)
  /\ Inserted(u) /\ GiveUp(u)
  /\ unguarded' = IF u \in Web THEN unguarded \cup {Audio[u]} ELSE unguarded
  /\ UNCHANGED <<file, at, deleteVars>>

\* The call fails, with or without its effect on the file.
Fails(u) ==
  /\ InFlight(u)
  /\ \/ UNCHANGED file
     \/ pc[u] \in {"publishing", "adopting"} /\ Fits(u) /\ Published(u)
     \/ pc[u] \in {"unlinking", "undoing"} /\ Unlinked(u)
  /\ GiveUp(u)
  /\ UNCHANGED <<dbVars, at, deleteVars, unguarded>>

\* (Mutant: the file of a duplicate under another key is left.)
LookAgainOnly(u) ==
  /\ pc[u] = "refused"
  /\ \/ Conflict(u) /\ To(u, "checking") /\ Reply(u, "conflict")
     \/ ~Conflict(u) /\ Found(u) # {} /\ End(u, "duplicate")
     \/ Found(u) = {} /\ To(u, "checking") /\ Reply(u, "error")
  /\ UNCHANGED <<file, dbVars, at, deleteVars, unguarded>>
\* The IntegrityError looks for the duplicate that won.
LookAgain(u) ==
  /\ pc[u] = "refused"
  /\ \/ Conflict(u) /\ To(u, "checking") /\ Reply(u, "conflict")
     \/ /\ ~Conflict(u)
        /\ \E v \in Found(u) :
             IF Key[v] = Key[u] THEN End(u, "duplicate")
             ELSE To(u, "checking") /\ Reply(u, "duplicate")
     \/ Found(u) = {} /\ To(u, "checking") /\ Reply(u, "error")
  /\ UNCHANGED <<file, dbVars, at, deleteVars, unguarded>>

\* _delete_if_unreferenced, in two steps; then the answer, or the exception.
Conclude(u) ==
  /\ To(u, IF u \in Web /\ reply[u] = "error" THEN "undoing" ELSE "ended")
  /\ UNCHANGED reply
Check(u) ==
  /\ pc[u] = "checking"
  /\ IF \E v \in rows : Key[v] = Key[u] THEN Conclude(u)
     ELSE To(u, "unlinking") /\ UNCHANGED reply
  /\ UNCHANGED <<file, dbVars, at, deleteVars, unguarded>>
Unlink(u) ==
  /\ pc[u] = "unlinking"
  /\ Unlinked(u) /\ Conclude(u)
  /\ UNCHANGED <<dbVars, at, deleteVars, unguarded>>

\* ingest_web's own clean-up.
Undo(u) ==
  /\ pc[u] = "undoing"
  /\ Unlinked(u) /\ End(u, "error")
  /\ UNCHANGED <<dbVars, at, deleteVars, unguarded>>
--------------------------------------------------------------------------------
(* The jobs of a recording, of which a deletion only asks whether one is active. *)

\* The row lock of a deletion that is not committed yet.
Locked(u) == \E d \in Deletions : phase[d] = "staged" /\ target[d] = u

EndJob(u) ==
  /\ u \in active
  /\ active' = active \ {u}
  /\ UNCHANGED <<file, rows, uploadVars, deleteVars, unguarded>>
\* (Mutant: a request that holds on to a recording it read before the deletion.)
ReprocessStale(u) ==
  /\ u \in Uploads \ active /\ pc[u] = "ended"
  /\ active' = active \cup {u}
  /\ UNCHANGED <<file, rows, uploadVars, deleteVars, unguarded>>
Reprocess(u) ==
  /\ u \in rows \ active /\ ~Locked(u)
  /\ active' = active \cup {u}
  /\ UNCHANGED <<file, rows, uploadVars, deleteVars, unguarded>>
--------------------------------------------------------------------------------
(* Deletions: delete_recording. *)

Advance(d, next) == phase' = [phase EXCEPT ![d] = next]
Moved(d, u) ==
  /\ quarantine' = [quarantine EXCEPT ![d] = file[Key[u]]]
  /\ file' = [file EXCEPT ![Key[u]] = None]

\* The row is locked, no job is active, and stage_delete moves the original, if it is
\* there.
Stage(d, u) ==
  /\ phase[d] = "new" /\ u \in rows \ active /\ ~Locked(u)
  /\ target' = [target EXCEPT ![d] = u]
  /\ Moved(d, u) /\ Advance(d, "staged")
  /\ unguarded' = IF Uploading(Audio[u]) THEN unguarded \cup {Audio[u]} ELSE unguarded
  /\ UNCHANGED <<dbVars, uploadVars>>

\* stage_delete raises, before or after the move: there is no StagedDeletion to restore.
StageFails(d, u) ==
  /\ phase[d] = "new" /\ u \in rows \ active /\ ~Locked(u)
  /\ target' = [target EXCEPT ![d] = u]
  /\ Moved(d, u) \/ UNCHANGED <<file, quarantine>>
  /\ Advance(d, "failed")
  /\ UNCHANGED <<dbVars, uploadVars, unguarded>>

\* The commit takes the recording and its jobs.
Commit(d) ==
  /\ phase[d] = "staged"
  /\ rows' = rows \ {target[d]} /\ Advance(d, "committed")
  /\ UNCHANGED <<file, active, uploadVars, target, quarantine, unguarded>>

\* The database fails, before the commit or after it.
RollBack(d) ==
  /\ phase[d] = "staged"
  /\ rows' \in {rows, rows \ {target[d]}} /\ Advance(d, "restoring")
  /\ UNCHANGED <<file, active, uploadVars, target, quarantine, unguarded>>

\* (Mutant: the quarantine is unlinked whatever became of the link.)
RestoreAlways(d) ==
  /\ phase[d] = "restoring" /\ Advance(d, "failed")
  /\ quarantine' = [quarantine EXCEPT ![d] = None]
  /\ UNCHANGED <<file, dbVars, uploadVars, target, unguarded>>
\* restore_staged_delete links the original to its key again, unless another file is
\* there; or fails.
Restore(d) ==
  /\ phase[d] = "restoring" /\ Advance(d, "failed")
  /\ \/ /\ quarantine[d] # None /\ file[Key[target[d]]] = None
        /\ file' = [file EXCEPT ![Key[target[d]]] = quarantine[d]]
        /\ quarantine' \in {quarantine, [quarantine EXCEPT ![d] = None]}
     \/ UNCHANGED <<file, quarantine>>
  /\ UNCHANGED <<dbVars, uploadVars, target, unguarded>>

\* finalize_staged_delete; a failure is logged, and the answer is the same.
Finalize(d) ==
  /\ phase[d] = "committed" /\ Advance(d, "deleted")
  /\ quarantine' \in {quarantine, [quarantine EXCEPT ![d] = None]}
  /\ UNCHANGED <<file, dbVars, uploadVars, target, unguarded>>

\* The process dies, and with it every request; the database rolls back what was not
\* committed.  Nothing looks at the quarantine again.
Crash ==
  /\ \/ \E u \in Uploads : InFlight(u)
     \/ \E d \in Deletions : phase[d] \in {"staged", "restoring", "committed"}
  /\ pc' = [u \in Uploads |-> IF InFlight(u) THEN "ended" ELSE pc[u]]
  /\ reply' = [u \in Uploads |-> IF InFlight(u) THEN "none" ELSE reply[u]]
  /\ phase' = [d \in Deletions |-> IF phase[d] \in {"staged", "restoring", "committed"}
                                   THEN "failed" ELSE phase[d]]
  /\ UNCHANGED <<file, dbVars, at, target, quarantine, unguarded>>
--------------------------------------------------------------------------------
Upload(u) ==
  \/ Look(u) \/ Put(u) \/ Insert(u) \/ LoseAnswer(u) \/ Fails(u)
  \/ LookAgain(u) \/ Check(u) \/ Unlink(u) \/ Undo(u)

Delete(d) ==
  \/ \E u \in Uploads : Stage(d, u) \/ StageFails(d, u)
  \/ Commit(d) \/ RollBack(d) \/ Restore(d) \/ Finalize(d)

Next ==
  \/ \E u \in Uploads : Upload(u) \/ EndJob(u) \/ Reprocess(u)
  \/ \E d \in Deletions : Delete(d)
  \/ Crash

Spec == Init /\ [][Next]_vars
--------------------------------------------------------------------------------
(* Properties. *)

\* u's original is at its key, or in the quarantine of a deletion of u.
Kept(u) ==
  \/ file[Key[u]] = Audio[u]
  \/ \E d \in Deletions : target[d] = u /\ quarantine[d] = Audio[u]

\* A recording keeps its audio: whatever uploads of it, of the same audio under another
\* id, and deletions that fail or die do, no clean-up of a loser takes the winner's
\* file.  A deletion that overlaps an upload of the same audio is left out; so is a web
\* upload that was committed unseen, and an id that was given to two recordings.
AudioSurvives == \A u \in rows : Audio[u] \notin unguarded => Kept(u)

\* An upload that is answered with success, stored or duplicate, is stored: the client
\* may forget its copy.
AcknowledgedIsStored ==
  [][\A u \in Uploads :
       /\ pc[u] # "ended" /\ pc'[u] = "ended" /\ reply'[u] \in {"stored", "duplicate"}
       /\ Audio[u] \notin unguarded'
       => \E v \in rows' : Audio[v] = Audio[u] /\ Kept(v)']_vars

\* Why there may be an original at a key that no recording has: an upload that published
\* is not done or did not succeed, or a deletion did not.
Unfinished == {u \in Uploads : \/ InFlight(u) /\ pc[u] \notin {"publishing", "adopting"}
                               \/ pc[u] = "ended" /\ reply[u] \in {"none", "error"}}
FailedDeletion(k) == \E d \in Deletions : target[d] # None /\ phase[d] = "failed" /\ Key[target[d]] = k
Explained(k) == FailedDeletion(k) \/ \E u \in Unfinished : Key[u] = k
Unguarded(k) == \E u \in Uploads : Key[u] = k /\ Audio[u] \in unguarded
Unowned == {k \in Keys : file[k] # None /\ \A u \in rows : Key[u] # k}

\* Uploads leave no second copy, and deletions no original: where every request had its
\* success, the originals are those of the recordings.
NothingLeftOver == \A k \in Unowned : Explained(k) \/ Unguarded(k)

\* README.md, of a deletion: "success returns 204 and permanently removes the original
\* audio".  Without a failure, no original outlives its recording.
DeletedIsRemoved == \A k \in Unowned : Explained(k)
--------------------------------------------------------------------------------
(* The inductive invariant.  Of guarded audio it says that what a request found *)
(* out before its last step is still so. *)

Guarded(u) == Audio[u] \notin unguarded

\* The unique columns.
RowsDiffer == \A u, v \in rows : Id[u] = Id[v] \/ Audio[u] = Audio[v] => u = v
\* An upload inserts its row once, with its last step or the one before.
InsertedOnce ==
  /\ \A u \in rows : pc[u] \in {"ended", "undoing"}
  /\ \A d \in Deletions :
       IF phase[d] = "new" THEN target[d] = None /\ quarantine[d] = None
       ELSE target[d] \in Uploads /\ pc[target[d]] \in {"ended", "undoing"}
\* The lock of a deletion keeps jobs away until the commit.
NoJobs == \A d \in Deletions : phase[d] = "staged" => target[d] \notin active
\* Under guarded audio an id has no other.
OneAudio ==
  \A u, v \in Issued : Id[u] = Id[v] /\ Guarded(u) => Audio[u] = Audio[v]
\* An upload works on its own key until it adopts that of a duplicate, which stays.
AtHome ==
  \A u \in Uploads :
    /\ pc[u] \notin {"adopting", "ended"} => at[u] = u
    /\ pc[u] = "adopting" => /\ at[u] \in Issued /\ Audio[at[u]] = Audio[u]
                             /\ Guarded(u) => at[u] \in rows
\* No deletion that may commit overlaps an upload.
Apart ==
  \A d \in Deletions, u \in Uploads :
    phase[d] = "staged" /\ InFlight(u) /\ Guarded(u) => Audio[target[d]] # Audio[u]
\* The bytes at a key or in a quarantine were uploaded for that key.
From(k, x) == \E u \in Issued : Key[u] = k /\ Audio[u] = x
Origins ==
  /\ \A k \in Keys : file[k] # None => From(k, file[k])
  /\ \A d \in Deletions : quarantine[d] # None => From(Key[target[d]], quarantine[d])
\* The row that an IntegrityError ran into is there until the loser is done, and when
\* the loser deletes a file it is not the winner's.
WinnerStays ==
  \A u \in Uploads :
    pc[u] \in {"refused", "checking", "unlinking"} /\ Guarded(u) =>
      \E v \in rows : Audio[v] = Audio[u] /\ (pc[u] # "refused" => Key[v] # Key[u])
\* What was published is there while its row can still be inserted.
PublishedStays ==
  \A u \in Uploads :
    pc[u] = "saving" /\ Guarded(u) /\ SameAudio(u) = {} => file[Key[u]] = Audio[u]
\* Only web uploads undo, and not what is a recording's.
UndoesItsOwn == \A u \in Uploads : pc[u] = "undoing" => u \in Web /\ (u \in rows => ~Guarded(u))
\* What a committed deletion unlinks is no recording's.
GoneForGood == \A d \in Deletions : phase[d] = "committed" => target[d] \notin rows
\* What is at the key of a recording that is being deleted came there since.
MovedAway ==
  \A d \in Deletions :
    LET k == Key[target[d]] IN
    phase[d] = "staged" /\ file[k] # None => Unguarded(k) \/ FailedDeletion(k)

IInv ==
  /\ TypeOK /\ RowsDiffer /\ InsertedOnce /\ NoJobs /\ OneAudio /\ AtHome /\ Apart
  /\ Origins /\ WinnerStays /\ PublishedStays /\ UndoesItsOwn /\ GoneForGood /\ MovedAway
  /\ AudioSurvives /\ NothingLeftOver
================================================================================
