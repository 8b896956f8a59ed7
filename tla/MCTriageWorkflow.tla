-------------------------- MODULE MCTriageWorkflow --------------------------
(* Instances of TriageWorkflow, with the rules its activities apply, for TLC. *)
EXTENDS TriageWorkflow, TriageEvidence, FiniteSets

CONSTANT r1

MCActivities == {"load", "mark_processing", "classify", "score", "decide", "persist",
                 "route", "publish", "mark_classified", "mark_failed"}
MCContent == [r \in Reports |->
  [reason |-> "spam", text |-> {}, meta |-> {"ad"}, price |-> FALSE]]

\* The contents of at most three words.
ShortContents ==
  LET texts == {words \in SUBSET Words : Cardinality(words) <= 3}
  IN  {c \in [reason : ReasonCodes, text : texts, meta : texts, price : BOOLEAN] :
         Cardinality(c.text) + Cardinality(c.meta) <= 3}

\* TLC evaluates the facts about the rules that TriageEvidenceProofs proves for
\* every content, before it explores the workflow.
ASSUME RulesOfShortContents ==
  \A c \in ShortContents :
    WaivedOnlyForAbuseAndSpam(c) /\ FraudNeverDowngraded(c) /\ PriceOnlyRaises(c)
=============================================================================
