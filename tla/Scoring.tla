------------------------------ MODULE Scoring -------------------------------
(***************************************************************************)
(* What the agents compute, as operators: the trigger score, the weighted  *)
(* ICP score, the data quality, the validation and the recommended action. *)
(* Scores are in ten-thousandths, to which the code rounds them.           *)
(*                                                                         *)
(* A company is known by its facts, the fields of company_data that hold a *)
(* truthy value.  A configuration is the set of its keys: what matters of  *)
(* a rule's value is whether the company satisfies it, which its "good"    *)
(* facts say.  "blank" tells an industry that is the empty string from one *)
(* that is None.                                                           *)
(***************************************************************************)
EXTENDS Integers, FiniteSetsExt

One == 10000

-----------------------------------------------------------------------------
(* TriggerMonitorAgent.                                                    *)

SignalTypes == {"funding_round", "hiring_surge", "job_posting",
                "tech_adoption", "news_mention"}

\* Growth of the headcount since the previous run, in percent.
SignalWeight(signal, growth) ==
  CASE signal = "funding_round" -> 9000
    [] signal = "hiring_surge"  -> 70 * (IF growth > 100 THEN 100 ELSE growth)
    [] signal = "job_posting"   -> 5000
    [] signal = "tech_adoption" -> 6000
    [] signal = "news_mention"  -> 4000

Detected(facts, growth) ==
  {s \in SignalTypes :
     \/ s = "funding_round" /\ "funding_stage" \in facts
     \/ s = "hiring_surge"  /\ "headcount" \in facts /\ growth >= 10
     \/ s = "job_posting"   /\ "open_roles" \in facts
     \/ s = "tech_adoption" /\ "tech_stack" \in facts
     \/ s = "news_mention"  /\ "recent_news" \in facts}

\* The mean of the detected signals' scores.
TriggerScore(facts, growth) ==
  LET detected == Detected(facts, growth)
      n        == Cardinality(detected)
      total    == MapThenSumSet(LAMBDA s : SignalWeight(s, growth), detected)
  IN  IF n = 0 THEN 0 ELSE (2 * total + n) \div (2 * n)

-----------------------------------------------------------------------------
(* IcpScorerAgent.                                                         *)

RuleWeight == 6000
SemanticWeight == 4000
MatchThreshold == 6500
NeutralScore == 5000

\* Keys by which a flat configuration is recognised as rules.  "headcount"
\* stands for min_headcount and max_headcount.
RuleKeys == {"headcount", "funding_stages", "industries", "hq_countries",
             "min_revenue_usd", "industry", "funding_stage"}

\* The field a rule looks at.
FactOf(rule) ==
  CASE rule = "headcount"       -> "headcount"
    [] rule = "funding_stages"  -> "funding_stage"
    [] rule = "industries"      -> "industry"
    [] rule = "hq_countries"    -> "hq_country"
    [] rule = "min_revenue_usd" -> "annual_revenue_usd"

\* The rules that are evaluated: a string "industry" counts as a list of one,
\* a string "funding_stage" is in RuleKeys but never looked at.  (An empty list
\* of industries is not looked at either: it is as "funding_stage" is.)
Evaluated(keys) ==
  (keys \intersect {"headcount", "funding_stages", "hq_countries",
                    "min_revenue_usd"})
    \union (IF keys \intersect {"industries", "industry"} # {}
            THEN {"industries"} ELSE {})

\* A missing headcount or industry that is None, not empty, is an exception.
Raises(keys, facts, blank) ==
  \/ "headcount" \in Evaluated(keys) /\ "headcount" \notin facts
  \/ "industries" \in Evaluated(keys) /\ "industry" \notin facts /\ ~blank

\* An industry found empty is a substring of every industry.
Satisfied(rule, facts, good, blank) ==
  \/ FactOf(rule) \in facts \intersect good
  \/ rule = "industries" /\ "industry" \notin facts /\ blank

Matched(keys, facts, good, blank) ==
  {rule \in Evaluated(keys) : Satisfied(rule, facts, good, blank)}

\* (matched / total) * 0.6: exact, since total is at most five.
Share(matched, total) == (RuleWeight * matched) \div total

RulePart(keys, facts, good, blank) ==
  LET total == Cardinality(Evaluated(keys)) IN
  IF total = 0 THEN 0
  ELSE Share(Cardinality(Matched(keys, facts, good, blank)), total)

\* Mutant: a missing similarity counts as a neutral one.
SemanticNeutral(semantic) ==
  (SemanticWeight * (IF semantic = 0 THEN NeutralScore ELSE semantic)
     + One \div 2) \div One

SemanticPart(semantic) == (SemanticWeight * semantic + One \div 2) \div One

IcpScore(keys, facts, good, blank, semantic) ==
  IF keys = {} THEN NeutralScore
  ELSE RulePart(keys, facts, good, blank) + SemanticPart(semantic)

IsMatch(keys, score) == keys # {} /\ score >= MatchThreshold

-----------------------------------------------------------------------------
(* ContactEnrichmentAgent.                                                 *)

QualityWeight(fact) ==
  CASE fact = "name"               -> 2000
    [] fact = "description"        -> 1500
    [] fact = "headcount"          -> 1500
    [] fact = "funding_stage"      -> 1500
    [] fact = "industry"           -> 1000
    [] fact = "hq_country"         -> 1000
    [] fact = "annual_revenue_usd" -> 1000
    [] fact = "tech_stack"         -> 500
    [] OTHER                       -> 0

\* Mutant: the sum is not capped.
QualityUncapped(facts, contacts) ==
  MapThenSumSet(QualityWeight, facts) + (IF contacts > 0 THEN 1000 ELSE 0)

Quality(facts, contacts) ==
  LET sum == MapThenSumSet(QualityWeight, facts)
               + (IF contacts > 0 THEN 1000 ELSE 0)
  IN  IF sum > One THEN One ELSE sum

-----------------------------------------------------------------------------
(* ValidationAgent and SummaryAgent.                                       *)

AutoApprove == 8000
ReviewLower == 5000
ReviewUpper == 8000

\* tasks.py gives every company a domain and a name, the other two checks.
Issues(score, match, trigger, people, quality) ==
  {i \in {"trigger_score_too_low_N", "icp_score_below_threshold_N",
          "insufficient_contacts_N", "data_quality_low_N"} :
     \/ i = "trigger_score_too_low_N"     /\ trigger < 1000
     \/ i = "icp_score_below_threshold_N" /\ score < ReviewLower /\ ~match
     \/ i = "insufficient_contacts_N"     /\ people < 1
     \/ i = "data_quality_low_N"          /\ quality < 5000 /\ quality > 0}

\* `k in issues' compares whole strings, and a low score's issue carries its
\* score: it is no hard failure.
HardFail(issues) ==
  issues \intersect {"company_domain_missing",
                     "icp_score_below_threshold"} # {}

Passed(issues, score) ==
  issues = {} \/ (~HardFail(issues) /\ score >= AutoApprove)

NeedsHuman(issues, score) ==
  /\ ~HardFail(issues) /\ ~Passed(issues, score)
  /\ ReviewLower <= score /\ score < ReviewUpper

RecommendedAction(score, passed, contacts, hitl) ==
  IF score >= 8000 /\ passed /\ contacts >= 1 THEN "outreach"
  ELSE IF score >= 5000 /\ ~hitl THEN "nurture" ELSE "disqualify"
=============================================================================
