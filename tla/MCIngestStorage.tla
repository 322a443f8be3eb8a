---------------------------- MODULE MCIngestStorage ----------------------------
(***************************************************************************)
(* Instances of IngestStorage.  a1 and a2 are two tries of one upload, and *)
(* a3 is the same recording with another start time; b is its audio under  *)
(* another id, c another audio under its id; w1 and w2 are one file that   *)
(* the browser sends twice.                                                *)
(***************************************************************************)
EXTENDS IngestStorage

IdOf == [u \in {"a1", "a2", "a3", "b", "c", "w1", "w2"} |->
           IF u \in {"a1", "a2", "a3", "c"} THEN "a" ELSE u]
KeyOf == [u \in DOMAIN IdOf |-> IF u = "a3" THEN "a@3" ELSE IdOf[u]]
AudioOf == [u \in DOMAIN IdOf |->
              IF u \in {"a1", "a2", "a3", "b"} THEN "x" ELSE IF u = "c" THEN "y" ELSE "m"]
================================================================================
