---------------------------- MODULE MCReportsApi ----------------------------
(* Instances of ReportsApi for TLC. *)
EXTENDS ReportsApi, TLC

CONSTANTS r1, r2, r3, k1, c1, c2, c3, p1

MCKeyOf == [c \in CreateCalls |-> IF c = c3 THEN NoKey ELSE k1]

Symmetry == Permutations(Reports)
=============================================================================
