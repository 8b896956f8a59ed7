------------------------ MODULE TriageEvidenceProofs ------------------------
(***************************************************************************)
(* What the triage rules give a report, and how the result moves when      *)
(* evidence is added, for reports with any number of words.                *)
(***************************************************************************)
EXTENDS TriageEvidence, TLAPS

-----------------------------------------------------------------------------
(* What the rules return, whatever the report.                             *)

LEMMA Rules ==
  /\ ClassifierRules[1].category = "fraud"  /\ ClassifierRules[1].reason = "fraud_suspected"
  /\ ClassifierRules[1].words = FraudWords
  /\ ClassifierRules[2].category = "abuse"
  /\ ClassifierRules[3].category = "spam"
  /\ ClassifierRules[4].category = "policy"
  /\ ClassifierRules[5].category = "fraud"
  BY DEF ClassifierRules

\* The first matching rule, when a rule matches.
FirstRule(c) == CHOOSE i \in MatchingRules(c) : \A j \in MatchingRules(c) : i <= j

LEMMA FirstRuleMatches ==
  ASSUME NEW c, MatchingRules(c) # {}
  PROVE  /\ FirstRule(c) \in MatchingRules(c)
         /\ FirstRule(c) \in 1..5
         /\ \A j \in MatchingRules(c) : FirstRule(c) <= j
<1>1. MatchingRules(c) \subseteq 1..5
  BY DEF MatchingRules
<1> HIDE DEF MatchingRules
<1>2. \E i \in MatchingRules(c) : \A j \in MatchingRules(c) : i <= j
  <2>1. \A i \in MatchingRules(c) : i = 1 \/ i = 2 \/ i = 3 \/ i = 4 \/ i = 5
    BY <1>1
  <2> QED  BY <2>1
<1> QED  BY <1>1, <1>2 DEF FirstRule

\* The category is that of the first matching rule; no rule gives general, so a
\* general report is one that nothing matched.
LEMMA ClassifyReturns ==
  ASSUME NEW c
  PROVE  /\ MatchingRules(c) # {} =>
              ClassifyReport(c).category = ClassifierRules[FirstRule(c)].category
         /\ ClassifyReport(c).category \in Categories
         /\ ClassifyReport(c).category = "general" => ClassifyReport(c).confidence = 40
<1>1. CASE MatchingRules(c) = {}
  BY <1>1 DEF ClassifyReport, Categories
<1>2. CASE MatchingRules(c) # {}
  <2>1. ClassifyReport(c).category = ClassifierRules[FirstRule(c)].category
    BY <1>2 DEF ClassifyReport, FirstRule
  <2>2. ClassifierRules[FirstRule(c)].category \in Categories \ {"general"}
    BY <1>2, FirstRuleMatches, Rules DEF Categories
  <2> QED  BY <1>2, <2>1, <2>2
<1> QED  BY <1>1, <1>2

\* The text or the price of the report speaks of money or of a link.
Signal(c) == c.text \cap (MoneyWords \cup LinkWords) # {} \/ c.price

LEMMA PriorityReturns ==
  ASSUME NEW c
  PROVE  /\ ScorePriority("fraud", c) = IF Signal(c) THEN "critical" ELSE "high"
         /\ ScorePriority("policy", c) = "high"
         /\ ScorePriority("abuse", c) = "medium"
         /\ ScorePriority("spam", c) = "medium"
         /\ ScorePriority("general", c) = IF Signal(c) THEN "medium" ELSE "low"
  BY DEF ScorePriority, Signal

LEMMA QueueReturns ==
  /\ RouteToQueue("fraud") = "fraud-review"
  /\ RouteToQueue("spam") = "spam-review"
  /\ RouteToQueue("abuse") = "abuse-review"
  /\ RouteToQueue("policy") = "general-review"
  /\ RouteToQueue("general") = "general-review"
  BY DEF RouteToQueue

LEMMA UrgencyOrder ==
  Urgency["low"] = 0 /\ Urgency["medium"] = 1 /\ Urgency["high"] = 2 /\ Urgency["critical"] = 3
  BY DEF Urgency

\* Within a category a signal never lowers the priority.
LEMMA SignalRaises ==
  ASSUME NEW c, NEW d, Signal(c) => Signal(d), NEW k \in Categories
  PROVE  Urgency[ScorePriority(k, d)] >= Urgency[ScorePriority(k, c)]
<1>1. k \in {"fraud", "policy", "abuse", "spam", "general"}
  BY DEF Categories
<1> QED  BY <1>1, PriorityReturns, UrgencyOrder

LEMMA FraudFirst ==
  ASSUME NEW c, FraudClaimed(c)
  PROVE  ClassifyReport(c).category = "fraud"
<1>1. 1 \in MatchingRules(c)
  BY Rules DEF FraudClaimed, MatchingRules
<1>2. FirstRule(c) = 1
  BY <1>1, FirstRuleMatches
<1> QED  BY <1>1, <1>2, ClassifyReturns, Rules
-----------------------------------------------------------------------------
(* What a piece of evidence does to a report.                              *)

LEMMA MoreAdds ==
  ASSUME NEW c \in ReportContents, NEW d \in WithMore(c)
  PROVE  /\ d.reason = c.reason
         /\ c.text \subseteq d.text
         /\ c.meta \subseteq d.meta
         /\ c.price => d.price
<1> USE DEF ReportContents
<1>1. CASE \E w \in Words : d = AddToText(c, w)
  BY <1>1 DEF AddToText
<1>2. CASE \E w \in Words : d = AddToMeta(c, w)
  BY <1>2 DEF AddToMeta
<1>3. CASE d = SetPrice(c)
  <2>1. d = [reason |-> c.reason, text |-> c.text, meta |-> c.meta, price |-> TRUE]
    BY <1>3 DEF SetPrice
  <2>2. d.price
    BY <2>1, Zenon
  <2>3. d.reason = c.reason /\ d.text = c.text /\ d.meta = c.meta
    BY <2>1
  <2> QED  BY <2>2, <2>3
<1> QED  BY <1>1, <1>2, <1>3 DEF WithMore

\* Evidence is never taken back.
LEMMA EvidenceStays ==
  ASSUME NEW c \in ReportContents, NEW d \in WithMore(c)
  PROVE  /\ FraudClaimed(c) => FraudClaimed(d)
         /\ Signal(c) => Signal(d)
  BY MoreAdds DEF FraudClaimed, Signal

\* Whatever is reported, only abuse and spam at medium priority go without a
\* reviewer (decide_requires_review on what classify_report and score_priority
\* return), for reports of any number of words.
THEOREM WaiversAreForAbuseAndSpam == \A c \in ReportContents : WaivedOnlyForAbuseAndSpam(c)
<1> SUFFICES ASSUME NEW c \in ReportContents, ~TriageResult(c).review
             PROVE  /\ TriageResult(c).priority = "medium"
                    /\ TriageResult(c).queue \in {"spam-review", "abuse-review"}
  BY DEF WaivedOnlyForAbuseAndSpam
<1> DEFINE k == ClassifyReport(c)
           p == ScorePriority(k.category, c)
<1>1. /\ k.category \in {"fraud", "spam", "abuse", "policy", "general"}
      /\ k.category = "general" => k.confidence = 40
  BY ClassifyReturns DEF Categories
<1>2. /\ TriageResult(c).priority = p
      /\ TriageResult(c).review = DecideRequiresReview(k.category, p, k.confidence)
      /\ TriageResult(c).queue = RouteToQueue(k.category)
  BY DEF TriageResult
<1>3. k.category \in {"abuse", "spam"}
  <2>1. ~DecideRequiresReview(k.category, p, k.confidence)
    BY <1>2
  <2> QED  BY <1>1, <2>1 DEF DecideRequiresReview
<1>4. p = "medium" /\ RouteToQueue(k.category) \in {"spam-review", "abuse-review"}
  BY <1>3, PriorityReturns, QueueReturns
<1> QED  BY <1>2, <1>4

\* A report that claims fraud stays in the fraud queue and never loses urgency,
\* whatever is added to it (the order of the rules of classify_report).
THEOREM FraudStays == \A c \in ReportContents : FraudNeverDowngraded(c)
<1> SUFFICES ASSUME NEW c \in ReportContents, FraudClaimed(c), NEW d \in WithMore(c)
             PROVE  /\ TriageResult(d).queue = "fraud-review"
                    /\ Urgency[TriageResult(d).priority] >= Urgency[TriageResult(c).priority]
  BY DEF FraudNeverDowngraded
<1>1. FraudClaimed(d) /\ (Signal(c) => Signal(d))
  BY EvidenceStays
<1>2. ClassifyReport(c).category = "fraud" /\ ClassifyReport(d).category = "fraud"
  BY <1>1, FraudFirst
<1>3. Urgency[ScorePriority("fraud", d)] >= Urgency[ScorePriority("fraud", c)]
  BY <1>1, SignalRaises DEF Categories
<1> QED  BY <1>2, <1>3, QueueReturns DEF TriageResult

\* A price changes no category and no queue, and makes a report at most more
\* urgent, whatever else the report says (score_priority reads the price,
\* classify_report does not).
THEOREM PriceRaises == \A c \in ReportContents : PriceOnlyRaises(c)
<1> SUFFICES ASSUME NEW c \in ReportContents
             PROVE  /\ TriageResult(SetPrice(c)).queue = TriageResult(c).queue
                    /\ Urgency[TriageResult(SetPrice(c)).priority] >= Urgency[TriageResult(c).priority]
  BY DEF PriceOnlyRaises
<1>1. SetPrice(c) \in WithMore(c)
  BY DEF WithMore
<1>2. /\ SetPrice(c).reason = c.reason /\ SetPrice(c).text = c.text
      /\ SetPrice(c).meta = c.meta
  BY DEF SetPrice, ReportContents
<1>3. ClassifyReport(SetPrice(c)) = ClassifyReport(c)
  BY <1>2 DEF ClassifyReport, MatchingRules
<1>4. /\ ClassifyReport(c).category \in Categories
      /\ Signal(c) => Signal(SetPrice(c))
  BY <1>1, ClassifyReturns, EvidenceStays
<1>5. Urgency[ScorePriority(ClassifyReport(c).category, SetPrice(c))]
        >= Urgency[ScorePriority(ClassifyReport(c).category, c)]
  BY <1>4, SignalRaises
<1> QED  BY <1>3, <1>5 DEF TriageResult
=============================================================================
