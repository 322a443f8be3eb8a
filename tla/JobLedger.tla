------------------------------- MODULE JobLedger -------------------------------
(***************************************************************************)
(* What the job queue promises whoever asks for work, with no workers,     *)
(* leases or clocks in sight: an accepted job is tried at most MaxAttempts *)
(* times, ends exactly once, leaves exactly one result when it is done and *)
(* none when it is given up, and at most one job per subject (a recording  *)
(* or a day) is unfinished at any time.                                    *)
(***************************************************************************)
EXTENDS Integers

CONSTANTS
  Jobs,         \* job ids
  Subjects,     \* what jobs are about, and what the unused ones are
  MaxAttempts

VARIABLES
  about,    \* job -> its subject, settled when it is submitted
  state,    \* job -> where it is in its life
  tries,    \* job -> attempts started
  results   \* job -> results delivered

vars == <<about, state, tries, results>>

Unfinished == {"waiting", "running"}
States == Unfinished \cup {"none", "done", "given_up", "forgotten"}

Init ==
  /\ about \in [Jobs -> Subjects]
  /\ state = [j \in Jobs |-> "none"]
  /\ tries = [j \in Jobs |-> 0]
  /\ results = [j \in Jobs |-> 0]

Goes(j, from, to) == state[j] = from /\ state'[j] = to
Counts(j, tried, delivered) ==
  tries'[j] = tries[j] + tried /\ results'[j] = results[j] + delivered

Submit(j)   == Goes(j, "none", "waiting") /\ tries[j] = 0 /\ Counts(j, 0, 0)
Begin(j)    == Goes(j, "waiting", "running") /\ tries[j] < MaxAttempts /\ Counts(j, 1, 0)
GiveBack(j) == Goes(j, "running", "waiting") /\ tries[j] < MaxAttempts /\ Counts(j, 0, 0)
Finish(j)   == Goes(j, "running", "done") /\ Counts(j, 0, 1)
GiveUp(j)   == Goes(j, "running", "given_up") /\ Counts(j, 0, 0)
Forget(j)   == /\ Goes(j, "done", "forgotten") \/ Goes(j, "given_up", "forgotten")
               /\ Counts(j, 0, 0)
Rest(j)     == Goes(j, state[j], state[j]) /\ Counts(j, 0, 0)

JobStep(j) ==
  /\ Submit(j) \/ Begin(j) \/ GiveBack(j) \/ Finish(j) \/ GiveUp(j) \/ Forget(j) \/ Rest(j)
  /\ state[j] # "none" => about'[j] = about[j]

\* Several jobs may take a step at once: one that ends and the one it hands on
\* to, or every expired job of one recovery.
Next ==
  /\ about' \in [Jobs -> Subjects]
  /\ state' \in [Jobs -> States]
  /\ \A j \in Jobs : JobStep(j)
  /\ \A i, j \in Jobs :
       about'[i] = about'[j] /\ {state'[i], state'[j]} \subseteq Unfinished => i = j

Spec == Init /\ [][Next]_vars
================================================================================
