--------------------------- MODULE TriageEvidence ---------------------------
(***************************************************************************)
(* What the triage rules make of a report, and how their result moves as   *)
(* evidence is added.  The rules have no state, so these are facts about   *)
(* contents.  The program never edits a report; adding a word or a price   *)
(* orders the contents, so that the result for a report can be compared    *)
(* with that for a more incriminating one.                                 *)
(***************************************************************************)
EXTENDS TriageRules

AddToText(c, w) == [c EXCEPT !.text = @ \cup {w}]
AddToMeta(c, w) == [c EXCEPT !.meta = @ \cup {w}]
SetPrice(c)     == [c EXCEPT !.price = TRUE]

\* The contents with one piece of evidence more than c.
WithMore(c) == {AddToText(c, w) : w \in Words} \cup {AddToMeta(c, w) : w \in Words} \cup {SetPrice(c)}

-----------------------------------------------------------------------------
Urgency == [low |-> 0, medium |-> 1, high |-> 2, critical |-> 3]

\* The reporter or a keyword says fraud: the rule the classifier tries first.  The
\* reason scam_link is filed as fraud by the last rule, behind the keyword rules
\* (test_classifier.py:3 wants it so): such a report may move, and is left out.
FraudClaimed(c) ==
  c.reason = "fraud_suspected" \/ (c.text \cup c.meta) \cap FraudWords # {}

\* Only abuse and spam reports, at medium priority, are triaged without a
\* reviewer: a general report's confidence is always below the threshold, and
\* the rules for fraud and policy catch every category the classifier gives
\* them (decide_requires_review against the confidences of classify_report).
WaivedOnlyForAbuseAndSpam(c) ==
  LET t == TriageResult(c)
  IN  ~t.review => /\ t.priority = "medium"
                   /\ t.queue \in {"spam-review", "abuse-review"}

\* No evidence added to a report that claims fraud moves it out of the fraud
\* queue or lowers its priority: the other keyword rules come after the fraud
\* rule in classify_report, and the signals of score_priority only add up.
FraudNeverDowngraded(c) ==
  FraudClaimed(c) =>
    \A d \in WithMore(c) :
      /\ TriageResult(d).queue = "fraud-review"
      /\ Urgency[TriageResult(d).priority] >= Urgency[TriageResult(c).priority]

\* A price, unlike a word, never changes the category, hence never the queue:
\* it can only make a report more urgent (score_priority reads the price,
\* classify_report reads its digits as text that matches no keyword).
PriceOnlyRaises(c) ==
  LET d == SetPrice(c)
  IN  /\ TriageResult(d).queue = TriageResult(c).queue
      /\ Urgency[TriageResult(d).priority] >= Urgency[TriageResult(c).priority]
=============================================================================
