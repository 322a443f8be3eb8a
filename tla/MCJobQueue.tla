------------------------------ MODULE MCJobQueue -------------------------------
(* The job queue on small instances. *)
EXTENDS JobQueue, TLC

CONSTANTS w1, w2, rec1, day1

AllKinds == [w \in Workers |-> Kinds]
\* One transcription worker and one for the LLM jobs, as compose.yaml starts them.
SplitKinds == [w \in Workers |-> IF w = w1 THEN {"full"} ELSE Kinds \ {"full"}]
OneDay == [r \in Recordings |-> day1]
Policy == INSTANCE RetryPolicy WITH BaseDelay <- 1
Delays == [n \in 1..MaxAttempts |-> Policy!DelayAfter(n)]
TwoStages == <<"preprocessing", "transcribing">>
OneStage == <<"preprocessing">>
Symmetry == Permutations(Roots) \cup Permutations(Workers)
================================================================================
