---------------------------- MODULE MCQueuePaging ----------------------------
(* Instances of QueuePaging for TLC. *)
EXTENDS QueuePaging

CONSTANTS r1, r2, r3, a1, a2

MCRank == [r \in Reports |-> IF r = r1 THEN 1 ELSE IF r = r2 THEN 2 ELSE 3]
=============================================================================
