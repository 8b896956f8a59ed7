---------------------------- MODULE TriageRules ----------------------------
(***************************************************************************)
(* The rules that turn a report into a triage result: the classifier, the  *)
(* priority score, the review decision and the queue routing.  All four    *)
(* are pure; the workflow calls them from four activities.                 *)
(*                                                                         *)
(* A text is the set of the word classes found in it.  Two keywords are in *)
(* one class when no rule of the code tells them apart; the classes        *)
(* overlap where the code's keyword tuples do ("advance" stands for the    *)
(* deposit keywords, which signal both fraud and money, and "kakao_move"   *)
(* for the keyword of the fraud tuple that contains a link keyword).       *)
(* A confidence is an integer percentage.                                  *)
(***************************************************************************)
EXTENDS Naturals

ReasonCodes == {"spam", "fraud_suspected", "abusive_language",
                "policy_violation", "scam_link", "other"}
Categories  == {"fraud", "spam", "abuse", "policy", "general"}
Priorities  == {"low", "medium", "high", "critical"}
Queues      == {"fraud-review", "spam-review", "abuse-review", "general-review"}

FraudWords  == {"advance", "messenger", "kakao_move"}
SpamWords   == {"ad"}
AbuseWords  == {"insult"}
PolicyWords == {"banned_goods"}
MoneyWords  == {"advance", "remittance"}
LinkWords   == {"kakao_move", "url"}
Words       == FraudWords \cup SpamWords \cup AbuseWords \cup PolicyWords
                 \cup MoneyWords \cup LinkWords

ReportContents ==
  [reason : ReasonCodes, text : SUBSET Words, meta : SUBSET Words, price : BOOLEAN]
-----------------------------------------------------------------------------
\* The classifier's rules in the order in which the code tries them.
ClassifierRules == <<
  [category |-> "fraud",  reason |-> "fraud_suspected",  words |-> FraudWords,  byReason |-> 88, byWord |-> 70],
  [category |-> "abuse",  reason |-> "abusive_language", words |-> AbuseWords,  byReason |-> 80, byWord |-> 80],
  [category |-> "spam",   reason |-> "spam",             words |-> SpamWords,   byReason |-> 75, byWord |-> 75],
  [category |-> "policy", reason |-> "policy_violation", words |-> PolicyWords, byReason |-> 70, byWord |-> 70],
  [category |-> "fraud",  reason |-> "scam_link",        words |-> {},          byReason |-> 72, byWord |-> 72] >>

\* Keywords are looked for in the description and in the metadata values.
MatchingRules(c) ==
  {i \in 1..5 : \/ c.reason = ClassifierRules[i].reason
                \/ (c.text \cup c.meta) \cap ClassifierRules[i].words # {}}

\* The first matching rule decides; no match falls back to general.
ClassifyReport(c) ==
  IF MatchingRules(c) = {}
  THEN [category |-> "general", confidence |-> 40]
  ELSE LET first == CHOOSE i \in MatchingRules(c) : \A j \in MatchingRules(c) : i <= j
           rule  == ClassifierRules[first]
       IN  [category   |-> rule.category,
            confidence |-> IF c.reason = rule.reason THEN rule.byReason ELSE rule.byWord]

\* Money and link signals come from the description alone, and from the price.
ScorePriority(category, c) ==
  LET signal == c.text \cap (MoneyWords \cup LinkWords) # {} \/ c.price
  IN  CASE category = "fraud"           -> IF signal THEN "critical" ELSE "high"
        [] category = "policy"          -> "high"
        [] category \in {"abuse","spam"} -> "medium"
        [] category = "general"         -> IF signal THEN "medium" ELSE "low"

DecideRequiresReview(category, priority, confidence) ==
  \/ priority \in {"high", "critical"}
  \/ category \in {"fraud", "policy"}
  \/ confidence < 60

RouteToQueue(category) ==
  IF category \in {"fraud", "spam", "abuse"}
  THEN [fraud |-> "fraud-review", spam |-> "spam-review", abuse |-> "abuse-review"][category]
  ELSE "general-review"

\* What the four activities compute for one report.
TriageResult(c) ==
  LET k == ClassifyReport(c)
      p == ScorePriority(k.category, c)
  IN  [category |-> k.category, priority |-> p,
       review   |-> DecideRequiresReview(k.category, p, k.confidence),
       queue    |-> RouteToQueue(k.category)]
=============================================================================
