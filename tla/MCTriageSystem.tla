--------------------------- MODULE MCTriageSystem ---------------------------
(* Instances of TriageSystem for TLC. *)
EXTENDS TriageSystem

CONSTANTS r1, c1, p1, p2, g1

MCActivities == {"load", "mark_processing", "classify", "score", "decide", "persist",
                 "route", "publish", "mark_classified", "mark_failed"}
MCContent == [r \in Reports |->
  [reason |-> "fraud_suspected", text |-> {"advance"}, meta |-> {}, price |-> TRUE]]
MCKeyOf == [c \in CreateCalls |-> NoKey]
=============================================================================
