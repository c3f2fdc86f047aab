-------------------------- MODULE TargetingProofs ---------------------------
(***************************************************************************)
(* Theorems about Scoring and Targeting, for every set of companies,       *)
(* configurations, passes and editors and every number of failures.        *)
(***************************************************************************)
EXTENDS Targeting, FoldLemmas

-----------------------------------------------------------------------------
(* The weighted score.                                                     *)

AllRules == {"headcount", "funding_stages", "industries", "hq_countries",
             "min_revenue_usd"}

\* At most five rules are evaluated, and no others are matched.
LEMMA RuleCounts ==
  ASSUME NEW keys, NEW facts, NEW good, NEW blank
  PROVE  LET rules   == Evaluated(keys)
             matched == Matched(keys, facts, good, blank)
         IN  /\ Cardinality(rules) \in 0..5
             /\ Cardinality(rules) = 0 <=> rules = {}
             /\ Cardinality(matched) \in 0..Cardinality(rules)
             /\ Cardinality(matched) = Cardinality(rules) <=> matched = rules
<1> DEFINE rules   == Evaluated(keys)
           matched == Matched(keys, facts, good, blank)
<1>1. IsFiniteSet(AllRules) /\ Cardinality(AllRules) \in 0..5
  <2> DEFINE f == [i \in 1..5 |-> IF i = 1 THEN "headcount"
                                 ELSE IF i = 2 THEN "funding_stages"
                                 ELSE IF i = 3 THEN "industries"
                                 ELSE IF i = 4 THEN "hq_countries"
                                 ELSE "min_revenue_usd"]
  <2>1. f \in [1..5 -> AllRules]
    BY DEF AllRules
  <2>2. /\ f[1] = "headcount" /\ f[2] = "funding_stages"
        /\ f[3] = "industries" /\ f[4] = "hq_countries"
        /\ f[5] = "min_revenue_usd"
    OBVIOUS
  <2> HIDE DEF f
  <2>3. \A rule \in AllRules : \E i \in 1..5 : f[i] = rule
    BY <2>2 DEF AllRules
  <2>4. f \in Surjection(1..5, AllRules)
    BY <2>1, <2>3 DEF Surjection
  <2>5. ExistsSurjection(1..5, AllRules)
    BY <2>4 DEF ExistsSurjection
  <2>6. IsFiniteSet(AllRules) /\ Cardinality(AllRules) <= 5
    <3>1. IsFiniteSet(AllRules)
      BY <2>5, FS_NatSurjection
    <3>2. Cardinality(AllRules) <= 5
      BY <2>5, FS_SurjCardinalityBound
    <3> QED
      BY <3>1, <3>2
  <2> QED
    BY <2>6, FS_CardinalityType
<1>2. rules \subseteq AllRules
  BY DEF AllRules, Evaluated
<1>3. /\ IsFiniteSet(rules) /\ Cardinality(rules) \in Nat
      /\ Cardinality(rules) <= Cardinality(AllRules)
  BY <1>1, <1>2, FS_Subset, FS_CardinalityType
<1>4. Cardinality(rules) = 0 <=> rules = {}
  BY <1>3, FS_EmptySet
<1>5. matched \subseteq rules
  BY DEF Matched
<1>6. /\ Cardinality(matched) \in Nat
      /\ Cardinality(matched) <= Cardinality(rules)
      /\ Cardinality(matched) = Cardinality(rules) => matched = rules
  BY <1>3, <1>5, FS_Subset, FS_CardinalityType
<1> HIDE DEF rules, matched
<1>7. Cardinality(matched) = Cardinality(rules) <=> matched = rules
  BY <1>6
<1>8. /\ Cardinality(rules) \in 0..5
      /\ Cardinality(matched) \in 0..Cardinality(rules)
  BY <1>1, <1>3, <1>6
<1> QED
  BY <1>4, <1>7, <1>8 DEF rules, matched

\* A share of the rules' weight: all of it, or at most four fifths.
LEMMA Shares ==
  ASSUME NEW t \in 1..5, NEW m \in 0..t
  PROVE  /\ Share(m, t) \in Nat /\ Share(m, t) <= 6000
         /\ m = t => Share(m, t) = 6000
         /\ m # t => Share(m, t) <= 4800
<1>1. CASE t = 1
  <2>1. m \in {0, 1} /\ Share(m, t) = (6000 * m) \div 1
    BY <1>1 DEF Share, RuleWeight
  <2> QED
    BY <1>1, <2>1
<1>2. CASE t = 2
  <2>1. m \in {0, 1, 2} /\ Share(m, t) = (6000 * m) \div 2
    BY <1>2 DEF Share, RuleWeight
  <2> QED
    BY <1>2, <2>1
<1>3. CASE t = 3
  <2>1. m \in {0, 1, 2, 3} /\ Share(m, t) = (6000 * m) \div 3
    BY <1>3 DEF Share, RuleWeight
  <2> QED
    BY <1>3, <2>1
<1>4. CASE t = 4
  <2>1. m \in {0, 1, 2, 3, 4} /\ Share(m, t) = (6000 * m) \div 4
    BY <1>4 DEF Share, RuleWeight
  <2> QED
    BY <1>4, <2>1
<1>5. CASE t = 5
  <2>1. m \in {0, 1, 2, 3, 4, 5} /\ Share(m, t) = (6000 * m) \div 5
    BY <1>5 DEF Share, RuleWeight
  <2> QED
    BY <1>5, <2>1
<1>6. t \in {1, 2, 3, 4, 5}
  OBVIOUS
<1> QED
  BY <1>1, <1>2, <1>3, <1>4, <1>5, <1>6

\* Without a semantic score the rules give 0.60 when all are met, and less than
\* 0.50 when there is none or one is missed.
LEMMA RulePartBounds ==
  ASSUME NEW keys, NEW facts, NEW good, NEW blank
  PROVE  /\ RulePart(keys, facts, good, blank) \in Nat
         /\ RulePart(keys, facts, good, blank) <= 6000
         /\ Evaluated(keys) = {} => RulePart(keys, facts, good, blank) = 0
         /\ Evaluated(keys) # {}
              /\ Matched(keys, facts, good, blank) = Evaluated(keys)
            => RulePart(keys, facts, good, blank) = 6000
         /\ Matched(keys, facts, good, blank) # Evaluated(keys)
            => RulePart(keys, facts, good, blank) <= 4800
<1> DEFINE t == Cardinality(Evaluated(keys))
           m == Cardinality(Matched(keys, facts, good, blank))
           part == RulePart(keys, facts, good, blank)
           none == Evaluated(keys) = {}
           all  == Matched(keys, facts, good, blank) = Evaluated(keys)
<1>1. /\ t \in 0..5 /\ m \in 0..t
      /\ (t = 0) <=> none
      /\ (m = t) <=> all
  BY RuleCounts
<1>2. /\ t = 0 => part = 0
      /\ t # 0 => part = Share(m, t)
  BY DEF RulePart
<1> SUFFICES /\ part \in Nat /\ part <= 6000
             /\ none => part = 0
             /\ ~none /\ all => part = 6000
             /\ ~all => part <= 4800
  OBVIOUS
<1> HIDE DEF t, m, part, none, all
<1>3. CASE t = 0
  <2>1. part = 0 /\ m = t
    BY <1>1, <1>2, <1>3
  <2> QED
    BY <1>1, <1>3, <2>1
<1>4. CASE t # 0
  <2>1. t \in 1..5 /\ m \in 0..t
    BY <1>1, <1>4
  <2>2. part = Share(m, t)
    BY <1>2, <1>4
  <2>3. /\ part \in Nat /\ part <= 6000
        /\ m = t => part = 6000
        /\ m # t => part <= 4800
    BY <2>1, <2>2, Shares
  <2> QED
    BY <1>1, <1>4, <2>3
<1> QED
  BY <1>3, <1>4

\* Without a similarity, or with a negative one, there is no semantic part.
LEMMA SemanticBounds ==
  ASSUME NEW semantic \in Int
  PROVE  /\ SemanticPart(semantic) \in Int
         /\ semantic = 0 => SemanticPart(semantic) = 0
         /\ SemanticPart(semantic) >= 2000 => semantic > 0
<1>1. SemanticPart(semantic) = (4000 * semantic + 5000) \div 10000
  BY DEF SemanticPart, SemanticWeight, One
<1> QED
  BY <1>1

\* A score of 0.80 has a semantic part of at least 0.20, whatever the rules.
LEMMA ScoreBounds ==
  ASSUME NEW keys, NEW facts, NEW good, NEW blank, NEW semantic \in Int,
         IcpScore(keys, facts, good, blank, semantic) >= 8000
  PROVE  SemanticPart(semantic) >= 2000
<1> DEFINE rules == RulePart(keys, facts, good, blank)
           rest  == SemanticPart(semantic)
           score == IcpScore(keys, facts, good, blank, semantic)
<1>1. rules \in Nat /\ rules <= 6000
  BY RulePartBounds
<1>2. rest \in Int
  BY SemanticBounds
<1>3. keys = {} => score = 5000
  BY DEF IcpScore, NeutralScore
<1>4. keys # {} => score = rules + rest
  BY DEF IcpScore
<1>5. score >= 8000
  OBVIOUS
<1> HIDE DEF rules, rest, score
<1>6. rest >= 2000
  BY <1>1, <1>2, <1>3, <1>4, <1>5
<1> QED
  BY <1>6 DEF rest
-----------------------------------------------------------------------------
(* The trigger score and the data quality: sums over the detected signals  *)
(* and over the company's facts.                                           *)

\* No weight is negative.
LEMMA QualityWeights == ASSUME NEW fact PROVE QualityWeight(fact) \in Nat
  BY DEF QualityWeight

\* The quality is a number between 0.0 and 1.0.
LEMMA QualityBounds ==
  ASSUME NEW facts, IsFiniteSet(facts), NEW contacts \in Nat
  PROVE  Quality(facts, contacts) \in 0..One
<1> DEFINE w == [x \in facts |-> QualityWeight(x)]
           Adds(f) == f = [s \in SUBSET facts |->
                             IF s = {} THEN 0
                             ELSE QualityWeight(Some(s)) + f[s \ {Some(s)}]]
           sum == CHOOSE f : Adds(f)
<1>1. \A s \in SUBSET facts : s # {} => w[Some(s)] = QualityWeight(Some(s))
  BY DEF Some
<1>2. \A x \in facts : w[x] \in Nat
  BY QualityWeights
<1> HIDE DEF w
<1>3. ASSUME NEW f PROVE Sums(f, w, facts) <=> Adds(f)
  <2> DEFINE a == [s \in SUBSET facts |->
                     IF s = {} THEN 0 ELSE w[Some(s)] + f[s \ {Some(s)}]]
             b == [s \in SUBSET facts |->
                     IF s = {} THEN 0
                     ELSE QualityWeight(Some(s)) + f[s \ {Some(s)}]]
  <2>1. \A s \in SUBSET facts : a[s] = b[s]
    BY <1>1
  <2>2. a = b
    BY <2>1
  <2> HIDE DEF a, b
  <2>3. Sums(f, w, facts) <=> f = a
    BY DEF Sums, SumsOver, a
  <2>4. Adds(f) <=> f = b
    BY DEF b
  <2> QED
    BY <2>2, <2>3, <2>4
<1>4. Sums(sum, w, facts)
  <2>1. \E f : Adds(f)
    BY <1>3, SumsExists
  <2> QED
    BY <2>1, <1>3
<1>5. sum[facts] \in Nat
  BY <1>2, <1>4, SumsNat
<1>6. MapThenSumSet(QualityWeight, facts) = sum[facts]
  BY DEF MapThenSumSet, MapThenFoldSet, Some
<1> DEFINE total == MapThenSumSet(QualityWeight, facts)
           more  == IF contacts > 0 THEN 1000 ELSE 0
<1>7. Quality(facts, contacts) = IF total + more > 10000 THEN 10000
                                 ELSE total + more
  BY DEF Quality, One
<1>8. total \in Nat /\ more \in Nat
  BY <1>5, <1>6
<1> HIDE DEF total, more
<1> QED
  BY <1>7, <1>8 DEF One

\* The weight of a detected signal is at most 0.9; a surge is only detected
\* when the headcount has grown.
LEMMA SignalWeights ==
  ASSUME NEW facts, NEW growth \in Int, NEW s \in Detected(facts, growth)
  PROVE  SignalWeight(s, growth) \in Nat /\ SignalWeight(s, growth) <= 9000
<1>1. CASE s = "hiring_surge"
  <2>1. growth >= 10
    BY <1>1 DEF Detected
  <2>2. SignalWeight(s, growth) = 70 * (IF growth > 100 THEN 100 ELSE growth)
    BY <1>1 DEF SignalWeight
  <2> QED
    BY <2>1, <2>2
<1>2. CASE s # "hiring_surge"
  BY <1>2 DEF SignalWeight, Detected, SignalTypes
<1> QED
  BY <1>1, <1>2

\* At most five signals are detected.
LEMMA SignalCounts ==
  ASSUME NEW facts, NEW growth
  PROVE  LET detected == Detected(facts, growth) IN
         IsFiniteSet(detected) /\ Cardinality(detected) \in 0..5
<1> DEFINE f == [i \in 1..5 |-> IF i = 1 THEN "funding_round"
                               ELSE IF i = 2 THEN "hiring_surge"
                               ELSE IF i = 3 THEN "job_posting"
                               ELSE IF i = 4 THEN "tech_adoption"
                               ELSE "news_mention"]
<1>1. f \in [1..5 -> SignalTypes]
  BY DEF SignalTypes
<1>2. /\ f[1] = "funding_round" /\ f[2] = "hiring_surge"
      /\ f[3] = "job_posting" /\ f[4] = "tech_adoption"
      /\ f[5] = "news_mention"
  OBVIOUS
<1> HIDE DEF f
<1>3. \A s \in SignalTypes : \E i \in 1..5 : f[i] = s
  BY <1>2 DEF SignalTypes
<1>4. ExistsSurjection(1..5, SignalTypes)
  BY <1>1, <1>3 DEF Surjection, ExistsSurjection
<1>5. IsFiniteSet(SignalTypes)
  BY <1>4, FS_NatSurjection
<1>6. Cardinality(SignalTypes) <= 5
  BY <1>4, FS_SurjCardinalityBound
<1> DEFINE detected == Detected(facts, growth)
<1>7. detected \subseteq SignalTypes
  BY DEF Detected
<1> HIDE DEF detected
<1>8. /\ IsFiniteSet(detected) /\ Cardinality(detected) \in Nat
      /\ Cardinality(detected) <= Cardinality(SignalTypes)
      /\ Cardinality(SignalTypes) \in Nat
  BY <1>5, <1>7, FS_Subset, FS_CardinalityType
<1>9. IsFiniteSet(detected) /\ Cardinality(detected) \in 0..5
  BY <1>6, <1>8
<1> QED
  BY <1>9 DEF detected

\* The rounded mean of up to five numbers is no greater than the greatest.
LEMMA Means ==
  ASSUME NEW n \in 1..5, NEW total \in Nat, total <= 9000 * n
  PROVE  /\ (2 * total + n) \div (2 * n) \in Nat
         /\ (2 * total + n) \div (2 * n) <= 9000
<1>1. CASE n = 1
  <2>1. (2 * total + 1) \div 2 \in Nat /\ (2 * total + 1) \div 2 <= 9000
    BY <1>1
  <2> QED
    BY <1>1, <2>1
<1>2. CASE n = 2
  <2>1. (2 * total + 2) \div 4 \in Nat /\ (2 * total + 2) \div 4 <= 9000
    BY <1>2
  <2> QED
    BY <1>2, <2>1
<1>3. CASE n = 3
  <2>1. (2 * total + 3) \div 6 \in Nat /\ (2 * total + 3) \div 6 <= 9000
    BY <1>3
  <2> QED
    BY <1>3, <2>1
<1>4. CASE n = 4
  <2>1. (2 * total + 4) \div 8 \in Nat /\ (2 * total + 4) \div 8 <= 9000
    BY <1>4
  <2> QED
    BY <1>4, <2>1
<1>5. CASE n = 5
  <2>1. (2 * total + 5) \div 10 \in Nat /\ (2 * total + 5) \div 10 <= 9000
    BY <1>5
  <2> QED
    BY <1>5, <2>1
<1>6. n \in {1, 2, 3, 4, 5}
  OBVIOUS
<1> QED
  BY <1>1, <1>2, <1>3, <1>4, <1>5, <1>6

\* The trigger score is a number between 0.0 and 0.9, for any facts and any
\* growth: a shrinking headcount never makes it negative.
LEMMA TriggerBounds ==
  ASSUME NEW facts, NEW growth \in Int
  PROVE  TriggerScore(facts, growth) \in 0..One
<1> DEFINE D == Detected(facts, growth)
           w == [s \in D |-> SignalWeight(s, growth)]
           Adds(f) == f = [s \in SUBSET D |->
                             IF s = {} THEN 0
                             ELSE SignalWeight(Some(s), growth)
                                    + f[s \ {Some(s)}]]
           sum == CHOOSE f : Adds(f)
<1>1. IsFiniteSet(D) /\ Cardinality(D) \in 0..5
  BY SignalCounts
<1>2. \A s \in D : w[s] \in Nat /\ w[s] <= 9000
  BY SignalWeights
<1> DEFINE total == MapThenSumSet(LAMBDA s : SignalWeight(s, growth), D)
           n     == Cardinality(D)
<1>3. TriggerScore(facts, growth) =
        IF n = 0 THEN 0 ELSE (2 * total + n) \div (2 * n)
  BY DEF TriggerScore
<1>4. total = sum[D]
  BY DEF MapThenSumSet, MapThenFoldSet, Some
<1>5. \A s \in SUBSET D : s # {} => w[Some(s)] = SignalWeight(Some(s), growth)
  BY DEF Some
<1> HIDE DEF w, D, total
<1>6. ASSUME NEW f PROVE Sums(f, w, D) <=> Adds(f)
  <2> DEFINE a == [s \in SUBSET D |->
                     IF s = {} THEN 0 ELSE w[Some(s)] + f[s \ {Some(s)}]]
             b == [s \in SUBSET D |->
                     IF s = {} THEN 0
                     ELSE SignalWeight(Some(s), growth) + f[s \ {Some(s)}]]
  <2>1. \A s \in SUBSET D : a[s] = b[s]
    BY <1>5
  <2>2. a = b
    BY <2>1
  <2> HIDE DEF a, b
  <2>3. Sums(f, w, D) <=> f = a
    BY DEF Sums, SumsOver, a
  <2>4. Adds(f) <=> f = b
    BY DEF b
  <2> QED
    BY <2>2, <2>3, <2>4
<1>7. Sums(sum, w, D)
  <2>1. \E f : Adds(f)
    BY <1>1, <1>6, SumsExists
  <2> QED
    BY <2>1, <1>6
<1> HIDE DEF sum
<1>8. sum[D] \in Nat /\ sum[D] <= 9000 * Cardinality(D)
  BY <1>1, <1>2, <1>7, SumsBounded
<1>9. CASE n = 0
  BY <1>3, <1>9 DEF One
<1>10. CASE n # 0
  <2>1. n \in 1..5 /\ total \in Nat /\ total <= 9000 * n
    BY <1>1, <1>4, <1>8, <1>10
  <2> DEFINE mean == (2 * total + n) \div (2 * n)
  <2>2. mean \in Nat /\ mean <= 9000
    BY <2>1, Means
  <2>3. TriggerScore(facts, growth) = mean
    BY <1>3, <1>10
  <2> HIDE DEF mean
  <2> QED
    BY <2>2, <2>3 DEF One
<1> QED
  BY <1>9, <1>10

-----------------------------------------------------------------------------
(* What is true of a pass between its steps.                               *)

\* The names of fields and rules that occur anywhere.
Written == {Seed[c] : c \in Companies} \union Findings \union RuleSets
             \union {x.keys : x \in Extras} \union {x.nested : x \in Extras}
             \union {u.rules : u \in Updates}
             \union {{"force"}, {"hq_country"}}

Names == UNION Written

Keys   == SUBSET Names
Facts  == {f \in Keys : IsFiniteSet(f)}
Scores == 0..One

BeforeScorer == {"idle", "research", "prescore", "trigger_monitor",
                 "icp_scorer"}
BeforeEnrichment == BeforeScorer \union {"contact_enrichment"}
BeforeValidation == BeforeEnrichment \union {"persona_finder", "validation"}
Places == BeforeValidation \union {"summary", "ended"}

PassStates ==
  [pc : Places, via : {"none", "runs", "studio"}, company : Companies,
   flat : Keys, nested : Keys, given : Int, facts : Facts, blank : BOOLEAN,
   growth : Int, fresh : BOOLEAN, semantic : Nat, trigger : Scores,
   used : Keys, score : Nat, match : BOOLEAN, people : Nat, contacts : Nat,
   quality : Scores, passed : BOOLEAN, hitl : BOOLEAN, action : Actions,
   failed : SUBSET Agents]

\* A search needs a flat description and a company that is new, a semantic score
\* that comes along an override.
Searched(s) ==
  /\ s.pc # "idle" => s.via # "none"
  /\ s.via = "runs" => s.flat = {"force"} /\ s.given = 0
  /\ s.pc = "idle" => s.given = 0
  /\ s.pc \in {"idle", "research", "prescore"} => s.semantic = 0
  /\ s.semantic <= One
  /\ s.semantic > 0 =>
       s.via = "studio" /\ "description" \in s.flat /\ s.fresh

\* A high ICP score needs a similarity and a scorer that did not fail.
Scored(s) ==
  /\ s.pc \in BeforeScorer =>
       s.score = 0 /\ s.used = {} /\ "icp_scorer" \notin s.failed
  /\ s.score <= One
  /\ s.score >= 8000 =>
       SemanticPart(Similarity(s)) >= 2000 /\ "icp_scorer" \notin s.failed

\* Contacts and a passed validation come from agents that did not fail, and so
\* does the action.
Judged(s) ==
  /\ s.pc \in BeforeEnrichment =>
       s.contacts = 0 /\ "contact_enrichment" \notin s.failed
  /\ s.contacts > 0 => "contact_enrichment" \notin s.failed
  /\ s.pc \in BeforeValidation => ~s.passed /\ "validation" \notin s.failed
  /\ s.passed => "validation" \notin s.failed
  /\ s.pc # "ended" => s.action = "none" /\ "summary" \notin s.failed
  /\ s.action = "outreach" =>
       /\ s.score >= 8000 /\ s.passed /\ s.contacts > 0
       /\ "summary" \notin s.failed

Sound(s) == s \in PassStates /\ Searched(s) /\ Scored(s) /\ Judged(s)

Configurations == [rules : Keys, active : BOOLEAN]

PassInv ==
  /\ pass \in [Passes -> PassStates]
  /\ \A p \in Passes : Sound(pass[p])

\* Every set of keys a run or a request carries is a set of known names.
LEMMA KeysHold ==
  /\ {} \in Keys /\ {"force"} \in Keys /\ {"hq_country"} \in Keys
  /\ \A c \in Companies : Seed[c] \in Keys
  /\ \A found \in Findings : found \in Keys
  /\ \A rules \in RuleSets : rules \in Keys
  /\ \A extras \in Extras : extras.keys \in Keys /\ extras.nested \in Keys
  /\ \A u \in Updates : u.rules \in Keys
<1>1. {} \in Keys /\ \A set \in Written : set \in Keys
  BY DEF Keys, Names
<1>2. \A c \in Companies : Seed[c] \in Written
  BY DEF Written
<1>3. \A u \in Updates : u.rules \in Written
  BY DEF Written
<1>4. /\ Findings \subseteq Written /\ RuleSets \subseteq Written
      /\ {"force"} \in Written /\ {"hq_country"} \in Written
  BY DEF Written
<1>5. \A x \in Extras : x.keys \in Written /\ x.nested \in Written
  BY DEF Written
<1> QED
  BY <1>1, <1>2, <1>3, <1>4, <1>5

\* Sets of known names may be joined.
LEMMA KeysJoin ==
  ASSUME NEW a \in Keys, NEW b \in Keys
  PROVE  a \union b \in Keys
  BY DEF Keys

\* A pass that has not started is sound.
LEMMA IdleIsSound == Sound(Idle)
<1>0. 0 \in Scores /\ {} \in Facts
  BY KeysHold, FS_EmptySet DEF Scores, One, Facts
<1>1. Idle \in PassStates
  BY <1>0, InputsAssumption, KeysHold DEF Idle, PassStates, Places, BeforeValidation,
     BeforeEnrichment, BeforeScorer, Actions
<1>2. Searched(Idle) /\ Scored(Idle) /\ Judged(Idle)
  BY DEF Idle, Searched, Scored, Judged, One
<1> QED
  BY <1>1, <1>2 DEF Sound

\* An agent that fails leaves a sound pass sound.
LEMMA Failing ==
  ASSUME NEW s, Sound(s), NEW agent \in Agents, NEW next \in Places,
         s.pc = agent,
         \/ agent = "trigger_monitor" /\ next = "icp_scorer"
         \/ agent = "icp_scorer" /\ next = "contact_enrichment"
         \/ agent = "contact_enrichment" /\ next = "persona_finder"
         \/ agent = "persona_finder" /\ next = "validation"
         \/ agent = "validation" /\ next = "summary"
         \/ agent = "summary" /\ next = "ended"
  PROVE  Sound([s EXCEPT !.pc = next, !.failed = @ \union {agent}])
<1> DEFINE x == [s EXCEPT !.pc = next, !.failed = @ \union {agent}]
<1>1. x \in PassStates
  BY DEF Sound, PassStates
<1>2. Searched(x)
  BY DEF Sound, PassStates, Searched, Agents
<1>3. Scored(x)
  BY DEF Sound, PassStates, Scored, Similarity, Agents, BeforeScorer
<1>4. Judged(x)
  BY DEF Sound, PassStates, Judged, Agents, BeforeScorer, BeforeEnrichment,
         BeforeValidation
<1> QED
  BY <1>1, <1>2, <1>3, <1>4 DEF Sound
-----------------------------------------------------------------------------
(* Each step of a pass keeps it sound.                                     *)

\* A step that replaces the state of one pass by a sound one.
LEMMA Replacing ==
  ASSUME PassInv, NEW p \in Passes, NEW x, Sound(x),
         pass' = [pass EXCEPT ![p] = x]
  PROVE  PassInv'
<1>1. x \in PassStates /\ pass \in [Passes -> PassStates]
  BY DEF Sound, PassInv
<1>2. pass' \in [Passes -> PassStates]
  BY <1>1
<1>3. \A q \in Passes : pass'[q] = IF q = p THEN x ELSE pass[q]
  BY <1>1
<1>4. \A q \in Passes : Sound(pass'[q])
  BY <1>3 DEF PassInv
<1> QED
  BY <1>2, <1>4 DEF PassInv

\* POST /runs nests the rules: the pass stays sound.
LEMMA CreateRunKeeps ==
  ASSUME PassInv, configs \in Seq(Configurations),
         NEW p \in Passes, CreateRun(p)
  PROVE  PassInv'
<1> DEFINE s == pass[p]
<1>1. PICK c \in DOMAIN configs, company \in Companies :
        pass' = [pass EXCEPT ![p] =
          [@ EXCEPT !.pc = "research", !.via = "runs", !.company = company,
                    !.flat = {"force"}, !.nested = configs[c].rules]]
  BY DEF CreateRun
<1> DEFINE x == [s EXCEPT !.pc = "research", !.via = "runs",
                          !.company = company, !.flat = {"force"},
                          !.nested = configs[c].rules]
<1>2. Sound(s) /\ s.pc = "idle"
  BY DEF PassInv, CreateRun
<1>3. x \in PassStates
  <2>1. configs[c] \in Configurations
    OBVIOUS
  <2>2. configs[c].rules \in Keys /\ {"force"} \in Keys
    BY <2>1, KeysHold DEF Configurations
  <2> QED
    BY <1>2, <2>2 DEF Sound, PassStates, Places, BeforeValidation,
       BeforeEnrichment, BeforeScorer
<1>4. Searched(x)
  BY <1>2 DEF Sound, PassStates, Searched, One
<1>5. Scored(x) /\ Judged(x)
  BY <1>2 DEF Sound, PassStates, Scored, Similarity, Judged, BeforeScorer,
     BeforeEnrichment, BeforeValidation
<1>6. Sound(x)
  BY <1>3, <1>4, <1>5 DEF Sound
<1>7. pass' = [pass EXCEPT ![p] = x]
  BY <1>1 DEF CreateRun, PassInv
<1> HIDE DEF x
<1> QED
  BY <1>6, <1>7, Replacing

\* The Studio passes its rules flat: the pass stays sound.
LEMMA ExecuteWorkflowKeeps ==
  ASSUME PassInv, NEW p \in Passes, ExecuteWorkflow(p)
  PROVE  PassInv'
<1> DEFINE s == pass[p]
<1>1. PICK extras \in Extras, company \in Companies :
        pass' = [pass EXCEPT ![p] =
          [@ EXCEPT !.pc = "research", !.via = "studio",
                    !.company = company, !.given = extras.given,
                    !.flat = {"force"} \union extras.keys,
                    !.nested = extras.nested]]
  BY DEF ExecuteWorkflow
<1> DEFINE x == [s EXCEPT !.pc = "research", !.via = "studio",
                          !.company = company, !.given = extras.given,
                          !.flat = {"force"} \union extras.keys,
                          !.nested = extras.nested]
<1>2. /\ Sound(s) /\ s.pc = "idle"
      /\ {"force"} \union extras.keys \in Keys /\ extras.nested \in Keys
      /\ extras.given \in Int
  BY KeysHold, KeysJoin, InputsAssumption DEF PassInv, ExecuteWorkflow
<1>3. x \in PassStates
  BY <1>2 DEF Sound, PassStates, Places, BeforeValidation, BeforeEnrichment,
     BeforeScorer
<1>4. Searched(x)
  BY <1>2 DEF Sound, PassStates, Searched, One
<1>5. Scored(x) /\ Judged(x)
  BY <1>2 DEF Sound, PassStates, Scored, Similarity, Judged, BeforeScorer,
     BeforeEnrichment, BeforeValidation
<1>6. Sound(x)
  BY <1>3, <1>4, <1>5 DEF Sound
<1>7. pass' = [pass EXCEPT ![p] = x]
  BY <1>1 DEF ExecuteWorkflow, PassInv
<1> HIDE DEF x
<1> QED
  BY <1>6, <1>7, Replacing

\* What the web says of the company keeps the pass sound.
LEMMA ResearchKeeps ==
  ASSUME PassInv, NEW p \in Passes, Research(p)
  PROVE  PassInv'
<1> DEFINE s == pass[p]
<1>1. PICK found \in Findings \union {{}}, blank \in BOOLEAN :
        pass' = [pass EXCEPT ![p] =
          [@ EXCEPT !.pc = "prescore", !.blank = blank,
                    !.people = People[s.company],
                    !.facts = IF found = {} THEN Seed[s.company]
                              ELSE Seed[s.company] \union found
                                     \union {"hq_country"}]]
  BY DEF Research
<1> DEFINE facts == IF found = {} THEN Seed[s.company]
                    ELSE Seed[s.company] \union found \union {"hq_country"}
           x == [s EXCEPT !.pc = "prescore", !.blank = blank,
                          !.people = People[s.company], !.facts = facts]
<1>2. Sound(s) /\ s.pc = "research"
  BY DEF PassInv, Research
<1>3. People[s.company] \in Nat /\ facts \in Facts
  <2>1. s.company \in Companies
    BY <1>2 DEF Sound, PassStates
  <2>2. Seed[s.company] \in Keys /\ found \in Keys
    BY <2>1, KeysHold
  <2>3. Seed[s.company] \union found \union {"hq_country"} \in Keys
    BY <2>2, KeysHold, KeysJoin
  <2>4. IsFiniteSet(Seed[s.company]) /\ IsFiniteSet(found)
    BY <2>1, InputsAssumption, FS_EmptySet
  <2>5. IsFiniteSet(Seed[s.company] \union found \union {"hq_country"})
    <3>1. IsFiniteSet({"hq_country"})
      BY FS_Singleton
    <3> QED
      BY <2>4, <3>1, FS_Union
  <2>6. facts \in Facts
    BY <2>2, <2>3, <2>4, <2>5 DEF Facts
  <2> QED
    BY <2>1, <2>6, InputsAssumption
<1>4. pass' = [pass EXCEPT ![p] = x]
  BY <1>1 DEF Research, PassInv
<1> HIDE DEF facts
<1>5. x \in PassStates
  BY <1>2, <1>3 DEF Sound, PassStates, Places, BeforeValidation,
     BeforeEnrichment, BeforeScorer
<1>6. Searched(x)
  BY <1>2 DEF Sound, PassStates, Searched, One
<1>7. Scored(x) /\ Judged(x)
  BY <1>2 DEF Sound, PassStates, Scored, Similarity, Judged, BeforeScorer,
     BeforeEnrichment, BeforeValidation
<1>8. Sound(x)
  BY <1>5, <1>6, <1>7 DEF Sound
<1> HIDE DEF x
<1> QED
  BY <1>4, <1>8, Replacing

\* A similarity is found only where Searched allows one.
LEMMA PreScoreKeeps ==
  ASSUME PassInv, NEW p \in Passes, PreScore(p)
  PROVE  PassInv'
<1> DEFINE s == pass[p]
<1>1. PICK growth \in IF s.company \in graph THEN Growths ELSE {0},
           semantic \in IF "description" \in s.flat THEN Hits(s.company)
                        ELSE {0} :
        pass' = [pass EXCEPT ![p] =
          [@ EXCEPT !.pc = "trigger_monitor", !.growth = growth,
                    !.fresh = s.company \notin processed,
                    !.semantic = semantic]]
  BY DEF PreScore
<1> DEFINE fresh == s.company \notin processed
           x == [s EXCEPT !.pc = "trigger_monitor", !.growth = growth,
                          !.fresh = fresh, !.semantic = semantic]
<1>2. Sound(s) /\ s.pc = "prescore"
  BY DEF PassInv, PreScore
<1>3. growth \in Int
  <2>1. growth \in Growths \/ growth = 0
    OBVIOUS
  <2>2. Growths \subseteq Int
    BY InputsAssumption
  <2>3. \A g \in Growths : g \in Int
    BY <2>2, Zenon
  <2> QED
    BY <2>1, <2>3
<1>4. /\ semantic \in Nat /\ semantic <= One
      /\ semantic > 0 => "description" \in s.flat /\ fresh
  <2>1. CASE "description" \in s.flat /\ Candidate(s.company)
    <3>1. semantic \in Similarities \union {0} /\ fresh
      BY <2>1 DEF Hits, Candidate
    <3> QED
      BY <2>1, <3>1, InputsAssumption DEF One
  <2>2. CASE ~("description" \in s.flat /\ Candidate(s.company))
    <3>1. semantic = 0
      BY <2>2 DEF Hits
    <3> QED
      BY <3>1 DEF One
  <2> QED
    BY <2>1, <2>2
<1>5. fresh \in BOOLEAN
  OBVIOUS
<1>6. pass' = [pass EXCEPT ![p] = x]
  BY <1>1 DEF PreScore, PassInv
<1> HIDE DEF fresh
<1>7. x \in PassStates
  BY <1>2, <1>3, <1>4, <1>5 DEF Sound, PassStates, Places, BeforeValidation,
     BeforeEnrichment, BeforeScorer
<1>8. Searched(x)
  <2>1. s.via # "none" /\ (s.via = "runs" => s.flat = {"force"})
    BY <1>2 DEF Sound, Searched
  <2>2. s.via \in {"none", "runs", "studio"}
    BY <1>2 DEF Sound, PassStates
  <2>3. "description" \in s.flat => s.via = "studio"
    BY <2>1, <2>2
  <2> QED
    BY <1>2, <1>4, <2>1, <2>3 DEF Sound, PassStates, Searched
<1>9. Scored(x) /\ Judged(x)
  BY <1>2 DEF Sound, PassStates, Scored, Similarity, Judged, BeforeScorer,
     BeforeEnrichment, BeforeValidation
<1>10. Sound(x)
  BY <1>7, <1>8, <1>9 DEF Sound
<1> HIDE DEF x
<1> QED
  BY <1>6, <1>10, Replacing

\* The trigger score keeps the pass sound.
LEMMA TriggerMonitorKeeps ==
  ASSUME PassInv, NEW p \in Passes, TriggerMonitor(p)
  PROVE  PassInv'
<1> DEFINE s == pass[p]
           score == TriggerScore(s.facts, s.growth)
           x == [s EXCEPT !.pc = "icp_scorer", !.trigger = score]
<1>1. Sound(s) /\ s.pc = "trigger_monitor"
  BY DEF PassInv, TriggerMonitor
<1>2. score \in Scores
  BY <1>1, TriggerBounds DEF Sound, PassStates, Scores
<1>3. pass' = [pass EXCEPT ![p] = x]
  BY DEF TriggerMonitor, PassInv
<1> HIDE DEF score
<1>4. x \in PassStates
  BY <1>1, <1>2 DEF Sound, PassStates, Places, BeforeValidation,
     BeforeEnrichment, BeforeScorer
<1>5. Searched(x)
  BY <1>1 DEF Sound, PassStates, Searched, One
<1>6. Scored(x) /\ Judged(x)
  BY <1>1 DEF Sound, PassStates, Scored, Similarity, Judged, BeforeScorer,
     BeforeEnrichment, BeforeValidation
<1>7. Sound(x)
  BY <1>4, <1>5, <1>6 DEF Sound
<1> HIDE DEF x
<1> QED
  BY <1>3, <1>7, Replacing

\* The rules a scorer may use are sets of known names.
LEMMA RulesAreKeys ==
  ASSUME PassInv, configs \in Seq(Configurations),
         NEW p \in Passes, NEW keys \in RulesFor(p)
  PROVE  keys \in Keys
<1>1. pass[p].nested \in Keys /\ pass[p].flat \in Keys
  BY DEF PassInv, PassStates
<1>2. \A rules \in ActiveRules : rules \in Keys
  <2>1. \A c \in DOMAIN configs : configs[c] \in Configurations
    OBVIOUS
  <2> QED
    BY <2>1 DEF ActiveRules, Configurations
<1>3. CASE pass[p].nested # {}
  BY <1>1, <1>3 DEF RulesFor
<1>4. CASE pass[p].nested = {} /\ pass[p].flat \intersect RuleKeys # {}
  BY <1>1, <1>4 DEF RulesFor
<1>5. CASE pass[p].nested = {} /\ pass[p].flat \intersect RuleKeys = {}
  <2>1. keys \in ActiveRules \/ keys = {}
    BY <1>5 DEF RulesFor
  <2> QED
    BY <1>2, <2>1, KeysHold
<1> QED
  BY <1>3, <1>4, <1>5

\* The score of a pass by certain rules.
ScoredBy(s, keys) ==
  IcpScore(keys, s.facts, Good[s.company], s.blank, Similarity(s))

\* The scorer, raising or not, keeps the pass sound.
LEMMA IcpScorerKeeps ==
  ASSUME PassInv, configs \in Seq(Configurations),
         NEW p \in Passes, IcpScorer(p)
  PROVE  PassInv'
<1> DEFINE s == pass[p]
<1>1. PICK keys \in RulesFor(p) :
        pass' = [pass EXCEPT ![p] =
          IF \/ Raises(keys, s.facts, s.blank)
             \/ ScoredBy(s, keys) \notin 0..One
          THEN [s EXCEPT !.pc = "contact_enrichment", !.used = keys,
                         !.failed = @ \union {"icp_scorer"}]
          ELSE [s EXCEPT !.pc = "contact_enrichment", !.used = keys,
                         !.score = ScoredBy(s, keys),
                         !.match = IsMatch(keys, ScoredBy(s, keys))]]
  BY DEF IcpScorer, ScoredBy
<1>2. Sound(s) /\ s.pc = "icp_scorer"
  BY DEF PassInv, IcpScorer
<1>3. keys \in Keys
  BY RulesAreKeys
<1> DEFINE raised == \/ Raises(keys, s.facts, s.blank)
                     \/ ScoredBy(s, keys) \notin 0..One
<1>5. CASE raised
  <2> DEFINE x == [s EXCEPT !.pc = "contact_enrichment", !.used = keys,
                            !.failed = @ \union {"icp_scorer"}]
  <2>1. x \in PassStates
    BY <1>2, <1>3 DEF Sound, PassStates, Places, BeforeValidation,
       BeforeEnrichment, BeforeScorer, Agents
  <2>2. Searched(x)
    BY <1>2 DEF Sound, PassStates, Searched, One
  <2>3. Scored(x) /\ Judged(x)
    BY <1>2 DEF Sound, PassStates, Scored, Similarity, Judged, BeforeScorer,
       BeforeEnrichment, BeforeValidation
  <2>4. Sound(x) /\ pass' = [pass EXCEPT ![p] = x]
    BY <1>1, <1>5, <2>1, <2>2, <2>3 DEF Sound
  <2> HIDE DEF x
  <2> QED
    BY <2>4, Replacing
<1>6. CASE ~raised
  <2> DEFINE score == ScoredBy(s, keys)
             match == IsMatch(keys, score)
             x == [s EXCEPT !.pc = "contact_enrichment", !.used = keys,
                            !.score = score, !.match = match]
  <2>1. pass' = [pass EXCEPT ![p] = x]
    BY <1>1, <1>6
  <2>2. Similarity(s) \in Int
    BY <1>2 DEF Sound, PassStates, Similarity
  <2>3. /\ score \in Nat /\ score <= One
        /\ score >= 8000 => SemanticPart(Similarity(s)) >= 2000
    <3>1. score \in 0..One
      BY <1>6
    <3>2. score >= 8000 => SemanticPart(Similarity(s)) >= 2000
      BY <2>2, ScoreBounds DEF ScoredBy
    <3> HIDE DEF score
    <3> QED
      BY <3>1, <3>2 DEF One
  <2>4. match \in BOOLEAN
    BY DEF IsMatch
  <2> HIDE DEF score, match
  <2>5. x \in PassStates
    <3>1. score \in Nat /\ s \in PassStates
      BY <1>2, <2>3 DEF Sound
    <3> QED
      BY <1>3, <2>4, <3>1 DEF PassStates, Places, BeforeValidation,
         BeforeEnrichment, BeforeScorer
  <2>6. Searched(x)
    BY <1>2 DEF Sound, PassStates, Searched, One
  <2>7. Scored(x)
    <3>1. x.semantic = s.semantic /\ x.given = s.given
      BY <1>2 DEF Sound, PassStates
    <3>2. Similarity(x) = Similarity(s)
      BY <3>1 DEF Similarity
    <3>3. /\ x.score = score /\ x.pc = "contact_enrichment"
          /\ x.failed = s.failed /\ "icp_scorer" \notin s.failed
      BY <1>2 DEF Sound, PassStates, Scored, Similarity, BeforeScorer
    <3> QED
      BY <2>3, <3>2, <3>3 DEF Scored, BeforeScorer
  <2>8. Judged(x)
    BY <1>2 DEF Sound, PassStates, Judged, BeforeScorer,
       BeforeEnrichment, BeforeValidation
  <2>9. Sound(x)
    BY <2>5, <2>6, <2>7, <2>8 DEF Sound
  <2> HIDE DEF x
  <2> QED
    BY <2>1, <2>9, Replacing
<1> QED
  BY <1>5, <1>6

\* The enrichment keeps the pass sound whichever store fails.
LEMMA ContactEnrichmentKeeps ==
  ASSUME PassInv, NEW p \in Passes, ContactEnrichment(p)
  PROVE  PassInv'
<1> DEFINE s == pass[p]
           quality == Quality(s.facts, s.people)
           x == [s EXCEPT !.pc = "persona_finder", !.contacts = s.people,
                          !.quality = quality]
<1>1. Sound(s) /\ s.pc = "contact_enrichment"
  BY DEF PassInv, ContactEnrichment
<1>2. quality \in Scores
  BY <1>1, QualityBounds DEF Sound, PassStates, Facts, Scores
<1>3. pass' = [pass EXCEPT ![p] = x]
  BY DEF ContactEnrichment
<1> HIDE DEF quality
<1>5. x \in PassStates
  BY <1>1, <1>2 DEF Sound, PassStates, Places, BeforeValidation,
     BeforeEnrichment, BeforeScorer
<1>6. Searched(x)
  BY <1>1 DEF Sound, PassStates, Searched, One
<1>7. Scored(x)
  BY <1>1 DEF Sound, PassStates, Scored, Similarity, BeforeScorer
<1>8. Judged(x)
  BY <1>1 DEF Sound, PassStates, Judged, BeforeScorer, BeforeEnrichment,
     BeforeValidation
<1>9. Sound(x)
  BY <1>5, <1>6, <1>7, <1>8 DEF Sound
<1> HIDE DEF x
<1> QED
  BY <1>3, <1>9, Replacing

\* The persona finder keeps the pass sound.
LEMMA PersonaFinderKeeps ==
  ASSUME PassInv, NEW p \in Passes, PersonaFinder(p)
  PROVE  PassInv'
<1> DEFINE s == pass[p]
           x == [s EXCEPT !.pc = "validation"]
<1>1. Sound(s) /\ s.pc = "persona_finder"
  BY DEF PassInv, PersonaFinder
<1>2. pass' = [pass EXCEPT ![p] = x]
  BY <1>1 DEF PersonaFinder, PassInv, Sound, PassStates
<1>3. x \in PassStates
  BY <1>1 DEF Sound, PassStates, Places, BeforeValidation
<1>4. Searched(x)
  BY <1>1 DEF Sound, PassStates, Searched
<1>5. Scored(x) /\ Judged(x)
  BY <1>1 DEF Sound, PassStates, Scored, Similarity, Judged, BeforeScorer,
     BeforeEnrichment, BeforeValidation
<1>6. Sound(x)
  BY <1>3, <1>4, <1>5 DEF Sound
<1> HIDE DEF x
<1> QED
  BY <1>2, <1>6, Replacing

\* The validation keeps the pass sound.
LEMMA ValidationKeeps ==
  ASSUME PassInv, NEW p \in Passes, Validation(p)
  PROVE  PassInv'
<1> DEFINE s      == pass[p]
           issues == Issues(s.score, s.match, s.trigger, s.people, s.quality)
           hitl   == NeedsHuman(issues, s.score)
           passed == Passed(issues, s.score)
           next   == IF hitl THEN "ended" ELSE "summary"
           x == [s EXCEPT !.pc = next, !.passed = passed, !.hitl = hitl]
<1>1. Sound(s) /\ s.pc = "validation"
  BY DEF PassInv, Validation
<1>2. pass' = [pass EXCEPT ![p] = x]
  BY DEF Validation
<1>4. passed \in BOOLEAN /\ hitl \in BOOLEAN
  BY DEF Passed, NeedsHuman
<1>5. next \in {"summary", "ended"}
  OBVIOUS
<1> HIDE DEF passed, hitl, next, issues
<1>6. x \in PassStates
  BY <1>1, <1>4, <1>5 DEF Sound, PassStates, Places
<1>7. Searched(x)
  BY <1>1, <1>5 DEF Sound, PassStates, Searched
<1>8. Scored(x) /\ Judged(x)
  BY <1>1, <1>4, <1>5 DEF Sound, PassStates, Scored, Similarity, Judged, BeforeScorer,
     BeforeEnrichment, BeforeValidation
<1>9. Sound(x)
  BY <1>6, <1>7, <1>8 DEF Sound
<1> HIDE DEF x
<1> QED
  BY <1>2, <1>9, Replacing

\* "outreach" is recommended only on the conditions Judged keeps.
LEMMA SummaryKeeps ==
  ASSUME PassInv, NEW p \in Passes, Summary(p)
  PROVE  PassInv'
<1> DEFINE s      == pass[p]
           action == RecommendedAction(s.score, s.passed, s.contacts, s.hitl)
           x == [s EXCEPT !.pc = "ended", !.action = action]
<1>1. Sound(s) /\ s.pc = "summary"
  BY DEF PassInv, Summary
<1>2. pass' = [pass EXCEPT ![p] = x]
  BY DEF Summary, PassInv
<1>3. action \in Actions
  BY DEF RecommendedAction, Actions
<1>4. action = "outreach" => s.score >= 8000 /\ s.passed /\ s.contacts > 0
  <2>1. s.contacts \in Nat
    BY <1>1 DEF Sound, PassStates
  <2>2. action = "outreach" => s.score >= 8000 /\ s.passed /\ s.contacts >= 1
    BY DEF RecommendedAction
  <2> QED
    BY <2>1, <2>2
<1> HIDE DEF action
<1>5. x \in PassStates
  BY <1>1, <1>3 DEF Sound, PassStates, Places
<1>6. Searched(x)
  BY <1>1 DEF Sound, PassStates, Searched
<1>7. Scored(x)
  BY <1>1 DEF Sound, PassStates, Scored, Similarity, BeforeScorer
<1>8. Judged(x)
  BY <1>1, <1>4 DEF Sound, PassStates, Judged, BeforeScorer,
     BeforeEnrichment, BeforeValidation
<1>9. Sound(x)
  BY <1>5, <1>6, <1>7, <1>8 DEF Sound
<1> HIDE DEF x
<1> QED
  BY <1>2, <1>9, Replacing

\* Any agent that fails keeps the pass sound.
LEMMA AgentFailsKeeps ==
  ASSUME PassInv, NEW p \in Passes, AgentFails(p)
  PROVE  PassInv'
<1>1. PICK agent \in Agents, next \in Places :
        /\ Fails(p, agent, next)
        /\ \/ agent = "trigger_monitor" /\ next = "icp_scorer"
           \/ agent = "icp_scorer" /\ next = "contact_enrichment"
           \/ agent = "contact_enrichment" /\ next = "persona_finder"
           \/ agent = "persona_finder" /\ next = "validation"
           \/ agent = "validation" /\ next = "summary"
           \/ agent = "summary" /\ next = "ended"
  BY DEF AgentFails, Agents, Places, BeforeValidation, BeforeEnrichment,
         BeforeScorer
<1> DEFINE s == pass[p]
           x == [s EXCEPT !.pc = next, !.failed = @ \union {agent}]
<1>2. Sound(s) /\ s.pc = agent
  BY <1>1 DEF PassInv, Fails
<1>3. Sound(x)
  BY <1>1, <1>2, Failing
<1>4. pass' = [pass EXCEPT ![p] = x]
  BY <1>1 DEF Fails
<1> HIDE DEF x
<1> QED
  BY <1>3, <1>4, Replacing
-----------------------------------------------------------------------------
(* The table of configurations.                                            *)

Bodies  == Updates \union {NoEdit.body}
Editing == [pc : {"idle", "checked", "loaded", "answered"}, config : Nat,
            wasActive : BOOLEAN, body : Bodies]

TableInv ==
  /\ configs \in Seq(Configurations)
  /\ editor \in [Editors -> Editing]
  /\ \A e \in Editors : editor[e].pc \in {"checked", "loaded"} =>
       editor[e].config \in DOMAIN configs

Inv == TableInv /\ PassInv

\* A request that has not started is typed.
LEMMA NoEditIsTyped == NoEdit \in Editing
  BY DEF NoEdit, Editing, Bodies

\* A new configuration leaves the others as they were.
LEMMA AddingConfig ==
  ASSUME TableInv, NEW rules \in Keys,
         configs' = Append(configs, NewConfig(rules)), UNCHANGED editor
  PROVE  /\ TableInv'
         /\ \A c \in DOMAIN configs : configs'[c] = configs[c]
<1>1. NewConfig(rules) \in Configurations
  BY DEF NewConfig, Configurations
<1>2. /\ configs' \in Seq(Configurations)
      /\ DOMAIN configs \subseteq DOMAIN configs'
      /\ \A c \in DOMAIN configs : configs'[c] = configs[c]
  BY <1>1 DEF TableInv
<1> QED
  BY <1>2 DEF TableInv

\* What CommitEdit makes of the row that was loaded.
LEMMA CommitIsTyped ==
  ASSUME TableInv, NEW e \in Editors, CommitEdit(e)
  PROVE  /\ configs' \in Seq(Configurations)
         /\ DOMAIN configs' = DOMAIN configs
         /\ \A c \in DOMAIN configs : c # editor[e].config
              => configs'[c] = configs[c]
         /\ editor[e].config \in DOMAIN configs
         /\ configs'[editor[e].config].active
              = ActiveAfter(e, configs[editor[e].config].active)
<1> DEFINE body   == editor[e].body
           i      == editor[e].config
           rules  == IF body.rules = Keep THEN configs[i].rules ELSE body.rules
           active == ActiveAfter(e, configs[i].active)
           row    == [rules |-> rules, active |-> active]
<1>1. i \in DOMAIN configs /\ editor[e] \in Editing
  BY DEF CommitEdit, TableInv
<1>2. configs[i] \in Configurations
  BY <1>1 DEF TableInv
<1>3. rules \in Keys
  <2>1. configs[i].rules \in Keys
    BY <1>2 DEF Configurations
  <2>2. body \in Bodies
    BY <1>1 DEF Editing
  <2>3. CASE body \in Updates
    BY <2>1, <2>3, KeysHold
  <2>4. CASE body = NoEdit.body
    BY <2>1, <2>4 DEF NoEdit
  <2> QED
    BY <2>2, <2>3, <2>4 DEF Bodies
<1>4. active \in BOOLEAN
  <2>1. configs[i].active \in BOOLEAN /\ editor[e].wasActive \in BOOLEAN
    BY <1>1, <1>2 DEF Configurations, Editing
  <2> QED
    BY <2>1 DEF ActiveAfter
<1>5. configs' = [configs EXCEPT ![i] = row]
  BY DEF CommitEdit
<1> HIDE DEF rules, active
<1>6. row \in Configurations /\ row.active = active
  BY <1>3, <1>4 DEF Configurations
<1> HIDE DEF row, i
<1>7. /\ configs' \in Seq(Configurations)
      /\ DOMAIN configs' = DOMAIN configs
      /\ \A c \in DOMAIN configs : c # i => configs'[c] = configs[c]
      /\ configs'[i] = row
  BY <1>1, <1>5, <1>6 DEF TableInv
<1> QED
  BY <1>1, <1>6, <1>7 DEF i, active

\* A step of a request keeps the table typed.
LEMMA EditKeeps ==
  ASSUME TableInv, NEW e \in Editors, Edit(e)
  PROVE  TableInv'
<1>1. CASE BeginEdit(e)
  <2>1. PICK c \in DOMAIN configs, body \in Updates :
          editor' = [editor EXCEPT ![e] =
            [@ EXCEPT !.pc = "checked", !.config = c, !.body = body]]
    BY <1>1 DEF BeginEdit
  <2>2. c \in Nat /\ body \in Bodies
    BY DEF TableInv, Bodies
  <2> QED
    BY <1>1, <2>1, <2>2 DEF BeginEdit, TableInv, Editing
<1>2. CASE LoadEdit(e)
  <2> DEFINE active == configs[editor[e].config].active
  <2>1. editor[e].config \in DOMAIN configs
    BY <1>2 DEF LoadEdit, TableInv
  <2>2. active \in BOOLEAN
    <3>1. configs[editor[e].config] \in Configurations
      BY <2>1 DEF TableInv
    <3> QED
      BY <3>1 DEF Configurations
  <2>3. /\ editor' = [editor EXCEPT ![e].pc = "loaded",
                                    ![e].wasActive = active]
        /\ editor[e].pc = "checked" /\ configs' = configs
    BY <1>2 DEF LoadEdit
  <2> HIDE DEF active
  <2>4. editor' \in [Editors -> Editing]
    BY <2>2, <2>3 DEF TableInv, Editing
  <2>5. \A f \in Editors : /\ editor'[f].config = editor[f].config
                           /\ f # e => editor'[f].pc = editor[f].pc
    BY <2>3 DEF TableInv, Editing
  <2> QED
    BY <2>1, <2>3, <2>4, <2>5 DEF TableInv
<1>3. CASE CommitEdit(e)
  <2>1. editor' = [editor EXCEPT ![e] = [NoEdit EXCEPT !.pc = "answered"]]
    BY <1>3 DEF CommitEdit
  <2>2. /\ [NoEdit EXCEPT !.pc = "answered"] \in Editing
        /\ [NoEdit EXCEPT !.pc = "answered"].pc = "answered"
    BY NoEditIsTyped DEF Editing
  <2>3. /\ editor' \in [Editors -> Editing]
        /\ \A f \in Editors : IF f = e THEN editor'[f].pc = "answered"
                              ELSE editor'[f] = editor[f]
    BY <2>1, <2>2 DEF TableInv
  <2>4. configs' \in Seq(Configurations) /\ DOMAIN configs' = DOMAIN configs
    BY <1>3, CommitIsTyped
  <2> QED
    BY <2>3, <2>4 DEF TableInv
<1> QED
  BY <1>1, <1>2, <1>3 DEF Edit
-----------------------------------------------------------------------------
(* The invariant holds.                                                    *)

\* The invariant holds initially.
LEMMA InvInit == Init => Inv
<1> SUFFICES ASSUME Init PROVE Inv
  OBVIOUS
<1>1. TableInv
  BY NoEditIsTyped DEF Init, TableInv, NoEdit
<1>2. \A p \in Passes : pass[p] = Idle
  BY DEF Init
<1>3. pass \in [Passes -> PassStates]
  BY IdleIsSound DEF Init, Sound
<1> QED
  BY <1>1, <1>2, <1>3, IdleIsSound DEF Inv, PassInv

\* Where a step leaves one half of the state alone.
LEMMA SamePasses == PassInv /\ UNCHANGED pass => PassInv'
  BY DEF PassInv

\* The part about the table depends on the table and its requests only.
LEMMA SameTable == TableInv /\ UNCHANGED <<configs, editor>> => TableInv'
  BY DEF TableInv

\* A step of a pass keeps the invariant.
LEMMA InvPass ==
  ASSUME Inv, NEW p \in Passes, Pass(p)
  PROVE  Inv'
<1> USE DEF Inv
<1>0. configs \in Seq(Configurations)
  BY DEF TableInv
<1>1. CASE CreateRun(p)
  BY <1>0, <1>1, CreateRunKeeps, SameTable DEF CreateRun
<1>2. CASE ExecuteWorkflow(p)
  <2>1. PICK extras \in Extras :
          configs' = Append(configs, NewConfig({"force"} \union extras.keys))
    BY <1>2 DEF ExecuteWorkflow
  <2>2. {"force"} \union extras.keys \in Keys
    BY KeysHold, KeysJoin
  <2>3. TableInv'
    BY <1>2, <2>1, <2>2, AddingConfig DEF ExecuteWorkflow
  <2> QED
    BY <1>2, <2>3, ExecuteWorkflowKeeps
<1>3. CASE Research(p)
  BY <1>3, ResearchKeeps, SameTable DEF Research
<1>4. CASE PreScore(p)
  BY <1>4, PreScoreKeeps, SameTable DEF PreScore
<1>5. CASE TriggerMonitor(p)
  BY <1>5, TriggerMonitorKeeps, SameTable DEF TriggerMonitor
<1>6. CASE IcpScorer(p)
  BY <1>0, <1>6, IcpScorerKeeps, SameTable DEF IcpScorer
<1>7. CASE ContactEnrichment(p)
  BY <1>7, ContactEnrichmentKeeps, SameTable DEF ContactEnrichment
<1>8. CASE PersonaFinder(p)
  BY <1>8, PersonaFinderKeeps, SameTable DEF PersonaFinder
<1>9. CASE Validation(p)
  BY <1>9, ValidationKeeps, SameTable DEF Validation
<1>10. CASE Summary(p)
  BY <1>10, SummaryKeeps, SameTable DEF Summary
<1>11. CASE AgentFails(p)
  BY <1>11, AgentFailsKeeps, SameTable DEF AgentFails, Fails
<1> QED
  BY <1>1, <1>2, <1>3, <1>4, <1>5, <1>6, <1>7, <1>8, <1>9, <1>10, <1>11
     DEF Pass

\* Every step keeps the invariant.
LEMMA InvStep == Inv /\ [Next]_vars => Inv'
<1> SUFFICES ASSUME Inv, [Next]_vars PROVE Inv'
  OBVIOUS
<1>1. CASE CreateIcp
  <2>1. PICK rules \in RuleSets : configs' = Append(configs, NewConfig(rules))
    BY <1>1 DEF CreateIcp
  <2>2. rules \in Keys
    BY KeysHold
  <2>3. TableInv'
    BY <1>1, <2>1, <2>2, AddingConfig DEF CreateIcp, Inv
  <2> QED
    BY <1>1, <2>3, SamePasses DEF CreateIcp, Inv
<1>2. ASSUME NEW e \in Editors, Edit(e) PROVE Inv'
  <2>1. UNCHANGED pass
    BY <1>2 DEF Edit, BeginEdit, LoadEdit, CommitEdit
  <2> QED
    BY <1>2, <2>1, EditKeeps, SamePasses DEF Inv
<1>3. ASSUME NEW p \in Passes, Pass(p) PROVE Inv'
  BY <1>3, InvPass
<1>4. CASE FlushRedis
  BY <1>4, SamePasses, SameTable DEF FlushRedis, Inv
<1>5. CASE UNCHANGED vars
  BY <1>5, SamePasses, SameTable DEF vars, Inv
<1> QED
  BY <1>1, <1>2, <1>3, <1>4, <1>5 DEF Next

\* The invariant, for every number of passes, requests and configurations.
THEOREM InvHolds == Spec => []Inv
  BY InvInit, InvStep, PTL DEF Spec

\* The invariant says how "outreach" was earned.
LEMMA InvMeansEarned == Inv => OutreachIsEarned
<1> SUFFICES ASSUME Inv, NEW p \in Passes, pass[p].action = "outreach"
             PROVE  /\ pass[p].via = "studio"
                    /\ SemanticPart(Similarity(pass[p])) >= 2000
                    /\ \/ pass[p].given > 0
                       \/ /\ pass[p].semantic > 0
                          /\ "description" \in pass[p].flat
                          /\ pass[p].fresh
                    /\ pass[p].contacts > 0
                    /\ pass[p].failed \subseteq
                         {"trigger_monitor", "persona_finder"}
  BY DEF OutreachIsEarned
<1> DEFINE s == pass[p]
<1>1. s \in PassStates /\ Searched(s) /\ Scored(s) /\ Judged(s)
  BY DEF Inv, PassInv, Sound
<1>2. /\ s.score >= 8000 /\ s.passed /\ s.contacts > 0
      /\ "summary" \notin s.failed
  BY <1>1 DEF Judged
<1>3. /\ "contact_enrichment" \notin s.failed
      /\ "validation" \notin s.failed
  BY <1>1, <1>2 DEF Judged
<1>4. SemanticPart(Similarity(s)) >= 2000 /\ "icp_scorer" \notin s.failed
  BY <1>1, <1>2 DEF Scored
<1>5. /\ s.semantic \in Nat /\ s.given \in Int
      /\ s.via \in {"none", "runs", "studio"}
  BY <1>1 DEF PassStates
<1>6. Similarity(s) > 0
  <2>1. Similarity(s) \in Int
    BY <1>5 DEF Similarity
  <2> QED
    BY <1>4, <2>1, SemanticBounds
<1>7. s.semantic > 0 \/ s.given > 0
  BY <1>5, <1>6 DEF Similarity
<1>8. s.semantic > 0 =>
        s.via = "studio" /\ "description" \in s.flat /\ s.fresh
  BY <1>1 DEF Searched
<1>9. s.via = "studio"
  <2>1. s.via # "none"
    BY <1>1, <1>2 DEF Searched, Judged
  <2>2. s.via = "runs" => s.given = 0
    BY <1>1 DEF Searched
  <2> QED
    BY <1>5, <1>7, <1>8, <2>1, <2>2
<1>10. s.failed \subseteq Agents
  BY <1>1 DEF PassStates
<1> QED
  BY <1>2, <1>3, <1>4, <1>7, <1>8, <1>9, <1>10 DEF Agents

\* For any companies, rules, edits and failures: "outreach" is recommended only
\* to a Studio run, whose request brought a semantic score or whose description
\* was searched for and found a company the tenant had not processed, and only
\* by agents that did not fail.
THEOREM OutreachEarned == Spec => []OutreachIsEarned
  BY InvHolds, InvMeansEarned, PTL

-----------------------------------------------------------------------------
(* The type invariant.                                                     *)

\* What Inv leaves out of TypeOK.
SizeInv ==
  /\ Len(configs) <= MaxConfigs /\ events \in 0..MaxEvents
  /\ graph \union vectors \union processed \subseteq Companies

\* Configurations are added where there is room, failures are counted, and the
\* stores hold companies, whichever of their writes fail.
LEMMA SizeStep == Inv /\ SizeInv /\ [Next]_vars => SizeInv'
<1> SUFFICES ASSUME Inv, SizeInv, [Next]_vars PROVE SizeInv'
  OBVIOUS
<1>0. /\ configs \in Seq(Configurations) /\ Len(configs) \in Nat
      /\ MaxConfigs \in Nat /\ MaxEvents \in Nat
  BY InputsAssumption DEF Inv, TableInv
<1>1. Len(configs') <= MaxConfigs
  <2>1. CASE configs' = configs
    BY <2>1 DEF SizeInv
  <2>2. ASSUME NEW c, HasRoom, configs' = Append(configs, c)
        PROVE  Len(configs') <= MaxConfigs
    BY <1>0, <2>2 DEF HasRoom
  <2>3. ASSUME NEW e \in Editors, CommitEdit(e)
        PROVE  Len(configs') <= MaxConfigs
    <3>1. DOMAIN configs' = DOMAIN configs /\ Len(configs') = Len(configs)
      BY <1>0, <2>3 DEF CommitEdit
    <3> QED
      BY <3>1 DEF SizeInv
  <2> QED
    BY <2>1, <2>2, <2>3 DEF Next, CreateIcp, Edit, BeginEdit, LoadEdit, Pass,
       CreateRun, ExecuteWorkflow, Research, PreScore, TriggerMonitor,
       IcpScorer, ContactEnrichment, PersonaFinder, Validation, Summary,
       AgentFails, Fails, FlushRedis, vars
<1>2. events' \in 0..MaxEvents
  <2>1. CASE events' = events
    BY <2>1 DEF SizeInv
  <2>2. CASE Event
    BY <1>0, <2>2 DEF Event, SizeInv
  <2> QED
    BY <2>1, <2>2 DEF Next, CreateIcp, Edit, BeginEdit, LoadEdit, CommitEdit,
       Pass, CreateRun, ExecuteWorkflow, Research, PreScore, TriggerMonitor,
       IcpScorer, ContactEnrichment, PersonaFinder, Validation, Summary,
       AgentFails, Fails, FlushRedis, vars
<1>3. (graph \union vectors \union processed)' \subseteq Companies
  <2>1. CASE UNCHANGED <<graph, vectors, processed>>
    BY <2>1 DEF SizeInv
  <2>2. ASSUME NEW p \in Passes, NEW written, Record(pass[p].company, written)
        PROVE  (graph \union vectors \union processed)' \subseteq Companies
    <3>1. pass[p].company \in Companies
      BY DEF Inv, PassInv, PassStates
    <3> QED
      BY <2>2, <3>1 DEF Record, SizeInv
  <2>3. CASE UNCHANGED <<graph, vectors>> /\ processed' = {}
    BY <2>3 DEF SizeInv
  <2>4. ASSUME NEW p \in Passes, ContactEnrichment(p) \/ AgentFails(p)
        PROVE  \E written : Record(pass[p].company, written)
    BY <2>4 DEF ContactEnrichment, AgentFails, Fails
  <2> QED
    BY <2>1, <2>2, <2>3, <2>4 DEF Next, CreateIcp, Edit, BeginEdit, LoadEdit,
       CommitEdit, Pass, CreateRun, ExecuteWorkflow, Research, PreScore,
       TriggerMonitor, IcpScorer, PersonaFinder, Validation, Summary,
       FlushRedis, vars
<1> QED
  BY <1>1, <1>2, <1>3 DEF SizeInv

\* Every score stays between 0.0 and 1.0, whatever the company's facts and
\* growth, the rules and the similarity, and whichever agents fail.
THEOREM ScoresInRange == Spec => []TypeOK
<1>1. Init => Inv /\ SizeInv
  <2>1. Init => SizeInv
    <3> SUFFICES ASSUME Init PROVE SizeInv
      OBVIOUS
    <3>1. configs = <<>> /\ Len(configs) = 0
      BY DEF Init
    <3> QED
      BY <3>1, InputsAssumption DEF Init, SizeInv
  <2> QED
    BY <2>1, InvInit
<1>2. Inv /\ SizeInv /\ [Next]_vars => (Inv /\ SizeInv)'
  BY InvStep, SizeStep
<1>3. Inv /\ SizeInv => TypeOK
  <2> SUFFICES ASSUME Inv, SizeInv PROVE TypeOK
    OBVIOUS
  <2>1. \A c \in DOMAIN configs : configs[c].active \in BOOLEAN
    <3>1. \A c \in DOMAIN configs : configs[c] \in Configurations
      BY DEF Inv, TableInv
    <3> QED
      BY <3>1 DEF Configurations
  <2>2. ASSUME NEW p \in Passes
        PROVE  /\ pass[p].trigger \in 0..One /\ pass[p].score \in 0..One
               /\ pass[p].quality \in 0..One /\ pass[p].semantic \in 0..One
               /\ pass[p].action \in Actions /\ pass[p].failed \subseteq Agents
    <3>1. pass[p] \in PassStates /\ Searched(pass[p]) /\ Scored(pass[p])
      BY DEF Inv, PassInv, Sound
    <3>2. /\ pass[p].score \in Nat /\ pass[p].semantic \in Nat
          /\ pass[p].trigger \in Scores /\ pass[p].quality \in Scores
          /\ pass[p].action \in Actions /\ pass[p].failed \in SUBSET Agents
      BY <3>1 DEF PassStates
    <3>3. pass[p].score <= One /\ pass[p].semantic <= One
      BY <3>1 DEF Searched, Scored
    <3>4. pass[p].trigger \in 0..One /\ pass[p].quality \in 0..One
      BY <3>2 DEF Scores
    <3>5. ASSUME NEW score \in Nat, score <= One PROVE score \in 0..One
      BY <3>5 DEF One
    <3>6. pass[p].score \in 0..One /\ pass[p].semantic \in 0..One
      BY <3>2, <3>3, <3>5
    <3> QED
      BY <3>2, <3>4, <3>6
  <2> QED
    BY <2>1, <2>2 DEF TypeOK, SizeInv, Inv, PassInv
<1> QED
  BY <1>1, <1>2, <1>3, PTL DEF Spec

-----------------------------------------------------------------------------
(* Action properties.                                                      *)

\* One step makes a configuration active only for a request that asks.
LEMMA DeletionStep ==
  ASSUME Inv, [Next]_vars, NEW c \in DOMAIN configs,
         ~configs[c].active, configs'[c].active
  PROVE  \E e \in Editors : /\ editor[e].pc = "loaded"
                            /\ editor[e].config = c
                            /\ editor[e].body.active = "on"
<1>1. configs'[c] # configs[c]
  OBVIOUS
<1>2. CASE CreateIcp
  <2>1. PICK rules \in RuleSets : configs' = Append(configs, NewConfig(rules))
    BY <1>2 DEF CreateIcp
  <2>2. rules \in Keys
    BY KeysHold
  <2> QED
    BY <1>1, <1>2, <2>1, <2>2, AddingConfig DEF CreateIcp, Inv
<1>3. ASSUME NEW e \in Editors, Edit(e)
      PROVE  /\ editor[e].pc = "loaded" /\ editor[e].config = c
             /\ editor[e].body.active = "on"
  <2>1. CommitEdit(e)
    BY <1>1, <1>3 DEF Edit, BeginEdit, LoadEdit
  <2>2. editor[e].config = c
    BY <1>1, <2>1, CommitIsTyped DEF Inv
  <2>3. configs'[c].active = ActiveAfter(e, configs[c].active)
    BY <2>1, <2>2, CommitIsTyped DEF Inv
  <2>4. editor[e].body.active = "on"
    BY <2>3 DEF ActiveAfter
  <2> QED
    BY <2>1, <2>2, <2>4 DEF CommitEdit
<1>4. ASSUME NEW p \in Passes, Pass(p) PROVE FALSE
  <2>1. CASE ExecuteWorkflow(p)
    <3>1. PICK extras \in Extras :
            configs' = Append(configs, NewConfig({"force"} \union extras.keys))
      BY <2>1 DEF ExecuteWorkflow
    <3>2. {"force"} \union extras.keys \in Keys
      BY KeysHold, KeysJoin
    <3> QED
      BY <1>1, <2>1, <3>1, <3>2, AddingConfig DEF ExecuteWorkflow, Inv
  <2>2. CASE ~ExecuteWorkflow(p)
    <3>1. configs' = configs
      BY <1>4, <2>2 DEF Pass, CreateRun, Research, PreScore, TriggerMonitor,
         IcpScorer, ContactEnrichment, PersonaFinder, Validation, Summary,
         AgentFails, Fails
    <3> QED
      BY <1>1, <3>1
  <2> QED
    BY <2>1, <2>2
<1>5. CASE FlushRedis \/ UNCHANGED vars
  BY <1>1, <1>5 DEF FlushRedis, vars
<1> QED
  BY <1>2, <1>3, <1>4, <1>5 DEF Next

\* For any number of editors: only a request that asks for it makes a deleted
\* configuration active again.
THEOREM StaysDeleted == Spec => DeletedStaysDeleted
<1>1. Inv /\ [Next]_vars =>
        [ \A c \in DOMAIN configs :
            ~configs[c].active /\ configs'[c].active =>
              \E e \in Editors : /\ editor[e].pc = "loaded"
                                 /\ editor[e].config = c
                                 /\ editor[e].body.active = "on" ]_vars
  BY DeletionStep
<1> QED
  BY <1>1, InvHolds, PTL DEF Spec, DeletedStaysDeleted

\* A step of a pass changes the record of that pass only.
LEMMA StepsTouchOne ==
  ASSUME NEW q \in Passes, Pass(q)
  PROVE  \E x : pass' = [pass EXCEPT ![q] = x]
<1>1. CASE CreateRun(q) \/ ExecuteWorkflow(q)
  BY <1>1 DEF CreateRun, ExecuteWorkflow
<1>2. CASE Research(q)
  BY <1>2 DEF Research
<1>3. CASE PreScore(q)
  BY <1>3 DEF PreScore
<1>4. CASE TriggerMonitor(q)
  BY <1>4 DEF TriggerMonitor
<1>5. CASE IcpScorer(q)
  BY <1>5 DEF IcpScorer
<1>6. CASE ContactEnrichment(q)
  BY <1>6 DEF ContactEnrichment
<1>7. CASE PersonaFinder(q)
  BY <1>7 DEF PersonaFinder
<1>8. CASE Validation(q)
  BY <1>8 DEF Validation
<1>9. CASE Summary(q)
  BY <1>9 DEF Summary
<1>10. CASE AgentFails(q)
  <2>1. PICK agent, next : Fails(q, agent, next)
    BY <1>10 DEF AgentFails
  <2> QED
    BY <2>1 DEF Fails
<1> QED
  BY <1>1, <1>2, <1>3, <1>4, <1>5, <1>6, <1>7, <1>8, <1>9, <1>10 DEF Pass

\* One step scores a pass by the rules it is entitled to.
LEMMA OwnRulesStep ==
  ASSUME Inv, [Next]_vars, NEW p \in Passes, pass[p].pc = "icp_scorer",
         pass'[p].used # {}
  PROVE  \/ pass'[p].used = pass[p].nested
         \/ pass[p].nested = {} /\ pass'[p].used = pass[p].flat
         \/ /\ pass[p].nested = {} /\ pass[p].flat \intersect RuleKeys = {}
            /\ pass'[p].used \in ActiveRules
<1>1. pass \in [Passes -> PassStates] /\ pass[p].used = {}
  BY DEF Inv, PassInv, Sound, Scored, BeforeScorer
<1>2. pass'[p] # pass[p]
  BY <1>1
<1>3. CASE IcpScorer(p)
  <2>1. PICK keys \in RulesFor(p) : pass'[p].used = keys
    <3>1. PICK keys \in RulesFor(p) :
            \E raised, score, match, failed :
              pass' = [pass EXCEPT ![p] =
                IF raised
                THEN [@ EXCEPT !.pc = "contact_enrichment", !.used = keys,
                               !.failed = failed]
                ELSE [@ EXCEPT !.pc = "contact_enrichment", !.used = keys,
                               !.score = score, !.match = match]]
      BY <1>3 DEF IcpScorer
    <3>2. pass[p] \in PassStates
      BY <1>1
    <3> QED
      BY <1>1, <3>1, <3>2 DEF PassStates
  <2>2. keys # {}
    BY <2>1
  <2> QED
    BY <2>1, <2>2 DEF RulesFor
<1>4. CASE AgentFails(p)
  BY <1>1, <1>4 DEF AgentFails, Fails, PassStates
<1>5. ASSUME NEW q \in Passes, q # p, Pass(q) PROVE FALSE
  <2>1. PICK x : pass' = [pass EXCEPT ![q] = x]
    BY <1>5, StepsTouchOne
  <2> QED
    BY <1>1, <1>2, <1>5, <2>1
<1>6. CASE Pass(p)
  BY <1>3, <1>4, <1>6 DEF Pass, CreateRun, ExecuteWorkflow, Research,
     PreScore, TriggerMonitor, ContactEnrichment, PersonaFinder,
     Validation, Summary
<1>7. CASE CreateIcp \/ (\E e \in Editors : Edit(e)) \/ FlushRedis
           \/ UNCHANGED vars
  BY <1>2, <1>7 DEF CreateIcp, Edit, BeginEdit, LoadEdit, CommitEdit,
     FlushRedis, vars
<1> QED
  BY <1>5, <1>6, <1>7 DEF Next

\* Whatever happens to the table in the meantime, a run is scored by the rules
\* it was created with, or by rules of an active configuration.
THEOREM OwnRules == Spec => OwnRulesFirst
<1>1. Inv /\ [Next]_vars =>
        [ \A p \in Passes :
            pass[p].pc = "icp_scorer" /\ pass'[p].used # {} =>
              \/ pass'[p].used = pass[p].nested
              \/ pass[p].nested = {} /\ pass'[p].used = pass[p].flat
              \/ /\ pass[p].nested = {} /\ pass[p].flat \intersect RuleKeys = {}
                 /\ pass'[p].used \in ActiveRules ]_vars
  BY OwnRulesStep
<1> QED
  BY <1>1, InvHolds, PTL DEF Spec, OwnRulesFirst

-----------------------------------------------------------------------------
(* What a run created through POST /runs comes to.                         *)

IssuesOf(s) == Issues(s.score, s.match, s.trigger, s.people, s.quality)
ScoreOf(s)  == IcpScore(s.used, s.facts, Good[s.company], s.blank, 0)

\* Without a failing agent every later agent goes by the score of the rules.
Plain(s) ==
  s.via = "runs" /\ s.failed = {} =>
    /\ s.pc \notin BeforeScorer =>
         s.score = ScoreOf(s) /\ s.match = IsMatch(s.used, s.score)
    /\ s.pc \in {"summary", "ended"} =>
         /\ s.passed = Passed(IssuesOf(s), s.score)
         /\ s.hitl = NeedsHuman(IssuesOf(s), s.score)
    /\ s.pc = "summary" => ~s.hitl
    /\ s.pc = "ended" /\ s.hitl => s.action = "none"
    /\ s.pc = "ended" /\ ~s.hitl =>
         s.action = RecommendedAction(s.score, s.passed, s.contacts, s.hitl)

PlainInv == \A p \in Passes : Plain(pass[p])

\* A step that replaces the state of one pass by a plain one.
LEMMA ReplacingPlain ==
  ASSUME PassInv, PlainInv, NEW p \in Passes, NEW x, Plain(x),
         pass' = [pass EXCEPT ![p] = x]
  PROVE  PlainInv'
<1>1. \A q \in Passes : pass'[q] = IF q = p THEN x ELSE pass[q]
  BY DEF PassInv
<1> QED
  BY <1>1 DEF PlainInv

\* A pass that the scorer has not reached yet is plain.
LEMMA EarlyIsPlain ==
  ASSUME NEW x, x.pc \in BeforeScorer
  PROVE  Plain(x)
  BY DEF Plain, BeforeScorer

\* An agent that failed makes a pass plain.
LEMMA FailedIsPlain ==
  ASSUME NEW x, x.failed # {}
  PROVE  Plain(x)
  BY DEF Plain

\* The steps before the scorer leave a pass plain.
LEMMA CreateRunPlain ==
  ASSUME PassInv, PlainInv, NEW p \in Passes, CreateRun(p)
  PROVE  PlainInv'
<1> DEFINE s == pass[p]
<1>1. PICK c \in DOMAIN configs, company \in Companies :
        pass' = [pass EXCEPT ![p] =
          [@ EXCEPT !.pc = "research", !.via = "runs", !.company = company,
                    !.flat = {"force"}, !.nested = configs[c].rules]]
  BY DEF CreateRun
<1> DEFINE x == [s EXCEPT !.pc = "research", !.via = "runs",
                          !.company = company, !.flat = {"force"},
                          !.nested = configs[c].rules]
<1>2. s \in PassStates
  BY DEF PassInv
<1>3. x.pc \in BeforeScorer
  BY <1>2 DEF PassStates, BeforeScorer
<1>4. pass' = [pass EXCEPT ![p] = x]
  BY <1>1
<1> HIDE DEF x
<1> QED
  BY <1>3, <1>4, EarlyIsPlain, ReplacingPlain

LEMMA ExecuteWorkflowPlain ==
  ASSUME PassInv, PlainInv, NEW p \in Passes, ExecuteWorkflow(p)
  PROVE  PlainInv'
<1> DEFINE s == pass[p]
<1>1. PICK extras \in Extras, company \in Companies :
        pass' = [pass EXCEPT ![p] =
          [@ EXCEPT !.pc = "research", !.via = "studio",
                    !.company = company, !.given = extras.given,
                    !.flat = {"force"} \union extras.keys,
                    !.nested = extras.nested]]
  BY DEF ExecuteWorkflow
<1> DEFINE x == [s EXCEPT !.pc = "research", !.via = "studio",
                          !.company = company, !.given = extras.given,
                          !.flat = {"force"} \union extras.keys,
                          !.nested = extras.nested]
<1>2. s \in PassStates
  BY DEF PassInv
<1>3. x.pc \in BeforeScorer
  BY <1>2 DEF PassStates, BeforeScorer
<1>4. pass' = [pass EXCEPT ![p] = x]
  BY <1>1
<1> HIDE DEF x
<1> QED
  BY <1>3, <1>4, EarlyIsPlain, ReplacingPlain

LEMMA ResearchPlain ==
  ASSUME PassInv, PlainInv, NEW p \in Passes, Research(p)
  PROVE  PlainInv'
<1> DEFINE s == pass[p]
<1>1. PICK found, blank :
        pass' = [pass EXCEPT ![p] =
          [@ EXCEPT !.pc = "prescore", !.blank = blank,
                    !.people = People[s.company],
                    !.facts = IF found = {} THEN Seed[s.company]
                              ELSE Seed[s.company] \union found
                                     \union {"hq_country"}]]
  BY DEF Research
<1> DEFINE facts == IF found = {} THEN Seed[s.company]
                    ELSE Seed[s.company] \union found \union {"hq_country"}
           x == [s EXCEPT !.pc = "prescore", !.blank = blank,
                          !.people = People[s.company], !.facts = facts]
<1>2. s \in PassStates
  BY DEF PassInv
<1>3. x.pc \in BeforeScorer
  BY <1>2 DEF PassStates, BeforeScorer
<1>4. pass' = [pass EXCEPT ![p] = x]
  BY <1>1
<1> HIDE DEF x
<1> QED
  BY <1>3, <1>4, EarlyIsPlain, ReplacingPlain

LEMMA PreScorePlain ==
  ASSUME PassInv, PlainInv, NEW p \in Passes, PreScore(p)
  PROVE  PlainInv'
<1> DEFINE s == pass[p]
<1>1. PICK growth, semantic :
        pass' = [pass EXCEPT ![p] =
          [@ EXCEPT !.pc = "trigger_monitor", !.growth = growth,
                    !.fresh = s.company \notin processed,
                    !.semantic = semantic]]
  BY DEF PreScore
<1> DEFINE x == [s EXCEPT !.pc = "trigger_monitor", !.growth = growth,
                          !.fresh = s.company \notin processed,
                          !.semantic = semantic]
<1>2. s \in PassStates
  BY DEF PassInv
<1>3. x.pc \in BeforeScorer
  BY <1>2 DEF PassStates, BeforeScorer
<1>4. pass' = [pass EXCEPT ![p] = x]
  BY <1>1
<1> HIDE DEF x
<1> QED
  BY <1>3, <1>4, EarlyIsPlain, ReplacingPlain

LEMMA TriggerMonitorPlain ==
  ASSUME PassInv, PlainInv, NEW p \in Passes, TriggerMonitor(p)
  PROVE  PlainInv'
<1> DEFINE s == pass[p]
           score == TriggerScore(s.facts, s.growth)
           x == [s EXCEPT !.pc = "icp_scorer", !.trigger = score]
<1>1. s \in PassStates
  BY DEF PassInv
<1> HIDE DEF score
<1>2. x.pc \in BeforeScorer
  BY <1>1 DEF PassStates, BeforeScorer
<1>3. pass' = [pass EXCEPT ![p] = x]
  BY DEF TriggerMonitor, score
<1> HIDE DEF x
<1> QED
  BY <1>2, <1>3, EarlyIsPlain, ReplacingPlain

\* The scorer finds no similarity in a run of POST /runs.
LEMMA IcpScorerPlain ==
  ASSUME PassInv, PlainInv, NEW p \in Passes, IcpScorer(p)
  PROVE  PlainInv'
<1> DEFINE s == pass[p]
<1>1. PICK keys \in RulesFor(p) :
        pass' = [pass EXCEPT ![p] =
          IF \/ Raises(keys, s.facts, s.blank)
             \/ ScoredBy(s, keys) \notin 0..One
          THEN [s EXCEPT !.pc = "contact_enrichment", !.used = keys,
                         !.failed = @ \union {"icp_scorer"}]
          ELSE [s EXCEPT !.pc = "contact_enrichment", !.used = keys,
                         !.score = ScoredBy(s, keys),
                         !.match = IsMatch(keys, ScoredBy(s, keys))]]
  BY DEF IcpScorer, ScoredBy
<1>2. Sound(s) /\ s \in PassStates
  BY DEF PassInv
<1> DEFINE raised == \/ Raises(keys, s.facts, s.blank)
                     \/ ScoredBy(s, keys) \notin 0..One
<1>3. CASE raised
  <2> DEFINE x == [s EXCEPT !.pc = "contact_enrichment", !.used = keys,
                            !.failed = @ \union {"icp_scorer"}]
  <2>1. x.failed # {}
    BY <1>2 DEF PassStates
  <2>2. pass' = [pass EXCEPT ![p] = x]
    BY <1>1, <1>3
  <2> HIDE DEF x
  <2> QED
    BY <2>1, <2>2, FailedIsPlain, ReplacingPlain
<1>4. CASE ~raised
  <2> DEFINE score == ScoredBy(s, keys)
             match == IsMatch(keys, score)
             x == [s EXCEPT !.pc = "contact_enrichment", !.used = keys,
                            !.score = score, !.match = match]
  <2>1. pass' = [pass EXCEPT ![p] = x]
    BY <1>1, <1>4
  <2>2. s.via = "runs" => Similarity(s) = 0
    BY <1>2 DEF Sound, PassStates, Searched, Similarity
  <2>3. s.via = "runs" =>
          score = IcpScore(keys, s.facts, Good[s.company], s.blank, 0)
    BY <2>2 DEF ScoredBy
  <2> HIDE DEF score
  <2>4. /\ x.pc = "contact_enrichment" /\ x.used = keys
        /\ x.score = score /\ x.match = match
        /\ x.via = s.via /\ x.facts = s.facts /\ x.company = s.company
        /\ x.blank = s.blank
    BY <1>2 DEF PassStates
  <2> HIDE DEF x
  <2>5. x.via = "runs" =>
          x.score = ScoreOf(x) /\ x.match = IsMatch(x.used, x.score)
    BY <2>3, <2>4 DEF ScoreOf
  <2>6. Plain(x)
    BY <2>4, <2>5 DEF Plain
  <2> QED
    BY <2>1, <2>6, ReplacingPlain
<1> QED
  BY <1>3, <1>4

\* A step that leaves what the score was computed from, up to the validation.
LEMMA SameScore ==
  ASSUME NEW s, NEW x, Plain(s), s.pc \notin BeforeScorer,
         x.via = s.via, x.failed = s.failed, x.score = s.score,
         x.match = s.match, x.used = s.used, x.facts = s.facts,
         x.company = s.company, x.blank = s.blank,
         x.via = "runs", x.failed = {}
  PROVE  x.score = ScoreOf(x) /\ x.match = IsMatch(x.used, x.score)
  BY DEF Plain, ScoreOf

\* The agents after the scorer leave its score alone.
LEMMA ContactEnrichmentPlain ==
  ASSUME PassInv, PlainInv, NEW p \in Passes, ContactEnrichment(p)
  PROVE  PlainInv'
<1> DEFINE s == pass[p]
           quality == Quality(s.facts, s.people)
           x == [s EXCEPT !.pc = "persona_finder", !.contacts = s.people,
                          !.quality = quality]
<1>1. s \in PassStates /\ Plain(s) /\ s.pc = "contact_enrichment"
  BY DEF PassInv, PlainInv, ContactEnrichment
<1>2. pass' = [pass EXCEPT ![p] = x]
  BY DEF ContactEnrichment
<1> HIDE DEF quality
<1>3. /\ x.pc = "persona_finder"
      /\ x.via = s.via /\ x.failed = s.failed /\ x.score = s.score
      /\ x.match = s.match /\ x.used = s.used /\ x.facts = s.facts
      /\ x.company = s.company /\ x.blank = s.blank
  BY <1>1 DEF PassStates
<1> HIDE DEF x
<1>4. s.pc \notin BeforeScorer
  BY <1>1 DEF BeforeScorer
<1>5. Plain(x)
  BY <1>1, <1>3, <1>4, SameScore DEF Plain
<1> QED
  BY <1>2, <1>5, ReplacingPlain

LEMMA PersonaFinderPlain ==
  ASSUME PassInv, PlainInv, NEW p \in Passes, PersonaFinder(p)
  PROVE  PlainInv'
<1> DEFINE s == pass[p]
           x == [s EXCEPT !.pc = "validation"]
<1>1. s \in PassStates /\ Plain(s) /\ s.pc = "persona_finder"
  BY DEF PassInv, PlainInv, PersonaFinder
<1>2. pass' = [pass EXCEPT ![p] = x]
  BY DEF PersonaFinder
<1>3. /\ x.pc = "validation"
      /\ x.via = s.via /\ x.failed = s.failed /\ x.score = s.score
      /\ x.match = s.match /\ x.used = s.used /\ x.facts = s.facts
      /\ x.company = s.company /\ x.blank = s.blank
  BY <1>1 DEF PassStates
<1> HIDE DEF x
<1>4. s.pc \notin BeforeScorer
  BY <1>1 DEF BeforeScorer
<1>5. Plain(x)
  BY <1>1, <1>3, <1>4, SameScore DEF Plain
<1> QED
  BY <1>2, <1>5, ReplacingPlain

\* The validation judges by that score.
LEMMA ValidationPlain ==
  ASSUME PassInv, PlainInv, NEW p \in Passes, Validation(p)
  PROVE  PlainInv'
<1> DEFINE s      == pass[p]
           issues == Issues(s.score, s.match, s.trigger, s.people, s.quality)
           hitl   == NeedsHuman(issues, s.score)
           passed == Passed(issues, s.score)
           next   == IF hitl THEN "ended" ELSE "summary"
           x == [s EXCEPT !.pc = next, !.passed = passed, !.hitl = hitl]
<1>1. s \in PassStates /\ Sound(s) /\ Plain(s) /\ s.pc = "validation"
  BY DEF PassInv, PlainInv, Validation
<1>2. pass' = [pass EXCEPT ![p] = x]
  BY DEF Validation
<1>3. s.action = "none"
  BY <1>1 DEF Sound, Judged
<1>4. /\ hitl => next = "ended"
      /\ ~hitl => next = "summary"
  OBVIOUS
<1>5. hitl \in BOOLEAN
  BY DEF NeedsHuman
<1> HIDE DEF hitl, passed, next
<1>6. /\ x.pc = next /\ x.passed = passed /\ x.hitl = hitl
      /\ x.via = s.via /\ x.failed = s.failed /\ x.score = s.score
      /\ x.match = s.match /\ x.used = s.used /\ x.facts = s.facts
      /\ x.company = s.company /\ x.blank = s.blank
      /\ x.trigger = s.trigger /\ x.people = s.people
      /\ x.quality = s.quality /\ x.action = s.action
  BY <1>1 DEF PassStates
<1> HIDE DEF x
<1>7. passed = Passed(IssuesOf(x), x.score)
  BY <1>6 DEF passed, IssuesOf
<1>8. hitl = NeedsHuman(IssuesOf(x), x.score)
  BY <1>6 DEF hitl, IssuesOf
<1>9. s.pc \notin BeforeScorer
  BY <1>1 DEF BeforeScorer
<1>10. x.via = "runs" /\ x.failed = {} =>
         x.score = ScoreOf(x) /\ x.match = IsMatch(x.used, x.score)
  BY <1>1, <1>6, <1>9, SameScore
<1>11. /\ x.pc = "summary" => ~x.hitl
       /\ x.pc = "ended" => x.hitl /\ x.action = "none"
  BY <1>3, <1>4, <1>5, <1>6
<1>12. Plain(x)
  BY <1>6, <1>7, <1>8, <1>10, <1>11 DEF Plain
<1> QED
  BY <1>2, <1>12, ReplacingPlain

\* The summary recommends by that score and that validation.
LEMMA SummaryPlain ==
  ASSUME PassInv, PlainInv, NEW p \in Passes, Summary(p)
  PROVE  PlainInv'
<1> DEFINE s      == pass[p]
           action == RecommendedAction(s.score, s.passed, s.contacts, s.hitl)
           x == [s EXCEPT !.pc = "ended", !.action = action]
<1>1. s \in PassStates /\ Plain(s) /\ s.pc = "summary"
  BY DEF PassInv, PlainInv, Summary
<1>2. pass' = [pass EXCEPT ![p] = x]
  BY DEF Summary
<1> HIDE DEF action
<1>3. /\ x.pc = "ended" /\ x.action = action
      /\ x.passed = s.passed /\ x.hitl = s.hitl /\ x.contacts = s.contacts
      /\ x.via = s.via /\ x.failed = s.failed /\ x.score = s.score
      /\ x.match = s.match /\ x.used = s.used /\ x.facts = s.facts
      /\ x.company = s.company /\ x.blank = s.blank
      /\ x.trigger = s.trigger /\ x.people = s.people
      /\ x.quality = s.quality
  BY <1>1 DEF PassStates
<1> HIDE DEF x
<1>4. s.pc \notin BeforeScorer
  BY <1>1 DEF BeforeScorer
<1>5. x.action = RecommendedAction(x.score, x.passed, x.contacts, x.hitl)
  BY <1>3 DEF action
<1>6. IssuesOf(x) = IssuesOf(s)
  BY <1>3 DEF IssuesOf
<1>7. ASSUME x.via = "runs", x.failed = {}
      PROVE  /\ x.score = ScoreOf(x) /\ x.match = IsMatch(x.used, x.score)
             /\ x.passed = Passed(IssuesOf(x), x.score)
             /\ x.hitl = NeedsHuman(IssuesOf(x), x.score)
             /\ ~x.hitl
  <2>1. x.score = ScoreOf(x) /\ x.match = IsMatch(x.used, x.score)
    BY <1>1, <1>3, <1>4, <1>7, SameScore
  <2>2. /\ s.passed = Passed(IssuesOf(s), s.score)
        /\ s.hitl = NeedsHuman(IssuesOf(s), s.score)
        /\ ~s.hitl
    BY <1>1, <1>3, <1>7 DEF Plain
  <2> QED
    BY <1>3, <1>6, <2>1, <2>2
<1>8. Plain(x)
  BY <1>3, <1>5, <1>7 DEF Plain
<1> QED
  BY <1>2, <1>8, ReplacingPlain

\* A failing agent makes a pass plain.
LEMMA AgentFailsPlain ==
  ASSUME PassInv, PlainInv, NEW p \in Passes, AgentFails(p)
  PROVE  PlainInv'
<1>1. PICK agent, next :
        pass' = [pass EXCEPT ![p].pc = next,
                             ![p].failed = @ \union {agent}]
  BY DEF AgentFails, Fails
<1> DEFINE x == [pass[p] EXCEPT !.pc = next, !.failed = @ \union {agent}]
<1>2. pass[p] \in PassStates
  BY DEF PassInv
<1>3. x.failed # {}
  BY <1>2 DEF PassStates
<1>4. pass' = [pass EXCEPT ![p] = x]
  BY <1>1
<1> HIDE DEF x
<1> QED
  BY <1>3, <1>4, FailedIsPlain, ReplacingPlain

\* Every step keeps passes plain.
LEMMA PlainStep == Inv /\ PlainInv /\ [Next]_vars => PlainInv'
<1> SUFFICES ASSUME Inv, PlainInv, [Next]_vars PROVE PlainInv'
  OBVIOUS
<1>1. PassInv
  BY DEF Inv
<1>2. ASSUME NEW p \in Passes, Pass(p) PROVE PlainInv'
  BY <1>1, <1>2, CreateRunPlain, ExecuteWorkflowPlain, ResearchPlain,
     PreScorePlain, TriggerMonitorPlain, IcpScorerPlain,
     ContactEnrichmentPlain, PersonaFinderPlain, ValidationPlain,
     SummaryPlain, AgentFailsPlain DEF Pass
<1>3. CASE CreateIcp \/ (\E e \in Editors : Edit(e)) \/ FlushRedis
           \/ UNCHANGED vars
  <2>1. pass' = pass
    BY <1>3 DEF CreateIcp, Edit, BeginEdit, LoadEdit, CommitEdit,
       FlushRedis, vars
  <2> QED
    BY <2>1 DEF PlainInv
<1> QED
  BY <1>2, <1>3 DEF Next

\* What a company comes to whose run has no semantic score: the rules alone
\* give less than 0.50 or exactly 0.60.
LEMMA RulesDecide ==
  ASSUME NEW keys, NEW facts, NEW good, NEW blank
  PROVE  LET rules  == Evaluated(keys)
             missed == rules # Matched(keys, facts, good, blank)
             score  == IcpScore(keys, facts, good, blank, 0)
         IN  /\ score \in Nat /\ score <= 6000
             /\ score < 5000 <=> keys # {} /\ (missed \/ rules = {})
<1> DEFINE rules  == Evaluated(keys)
           part   == RulePart(keys, facts, good, blank)
           score  == IcpScore(keys, facts, good, blank, 0)
           missed == rules # Matched(keys, facts, good, blank)
           none   == rules = {}
<1>1. /\ part \in Nat /\ part <= 6000
      /\ none => part = 0
      /\ ~none /\ ~missed => part = 6000
      /\ missed => part <= 4800
  BY RulePartBounds
<1>2. keys = {} => score = 5000
  BY DEF IcpScore, NeutralScore
<1>3. keys # {} => score = part
  <2>1. SemanticPart(0) = 0
    BY SemanticBounds DEF One
  <2>2. keys # {} => score = part + SemanticPart(0)
    BY DEF IcpScore
  <2> HIDE DEF part, score
  <2> QED
    BY <1>1, <2>1, <2>2
<1> HIDE DEF part, score, missed, none
<1>4. score \in Nat /\ score <= 6000
  BY <1>1, <1>2, <1>3
<1>5. score < 5000 <=> keys # {} /\ (missed \/ none)
  BY <1>1, <1>2, <1>3
<1> QED
  BY <1>4, <1>5 DEF score, missed, none

\* No issue the validation raises counts as a hard failure.
LEMMA NoHardFailure ==
  ASSUME NEW score, NEW match, NEW trigger, NEW people, NEW quality
  PROVE  ~HardFail(Issues(score, match, trigger, people, quality))
<1> DEFINE issues == Issues(score, match, trigger, people, quality)
<1>1. \A i \in issues : i \in {"trigger_score_too_low_N",
          "icp_score_below_threshold_N", "insufficient_contacts_N",
          "data_quality_low_N"}
  BY SMT DEF Issues
<1> HIDE DEF issues
<1>2. "company_domain_missing" \notin issues
  BY <1>1, SMT
<1>3. "icp_score_below_threshold" \notin issues
  BY <1>1, SMT
<1>4. ~HardFail(issues)
  BY <1>2, <1>3, SMT DEF HardFail
<1> QED
  BY <1>4 DEF issues

\* A plain pass that ended did so as the property says.
LEMMA PlainMeansOneMiss == Inv /\ PlainInv => OneMissDisqualifies
<1> SUFFICES ASSUME Inv, PlainInv, NEW p \in Passes, pass[p].pc = "ended",
                    pass[p].via = "runs", pass[p].failed = {}
             PROVE  LET s      == pass[p]
                        rules  == Evaluated(s.used)
                        missed == rules # Matched(s.used, s.facts,
                                                  Good[s.company], s.blank)
                        issues == Issues(s.score, s.match, s.trigger, s.people,
                                         s.quality)
                    IN  /\ s.action = "disqualify" <=>
                             s.used # {} /\ (missed \/ rules = {})
                        /\ s.action = "none" <=>
                             s.action # "disqualify" /\ issues # {}
  BY DEF OneMissDisqualifies
<1> DEFINE s      == pass[p]
           low    == s.score < 5000
           issues == IssuesOf(s)
<1>1. s \in PassStates /\ Plain(s)
  BY DEF Inv, PassInv, PlainInv
<1>2. /\ s.score = ScoreOf(s)
      /\ s.passed = Passed(issues, s.score)
      /\ s.hitl = NeedsHuman(issues, s.score)
      /\ s.hitl => s.action = "none"
      /\ ~s.hitl =>
           s.action = RecommendedAction(s.score, s.passed, s.contacts, s.hitl)
  BY <1>1 DEF Plain, BeforeScorer
<1>3. /\ s.score \in Nat /\ s.score <= 6000
      /\ low <=> /\ s.used # {}
                 /\ \/ Evaluated(s.used)
                         # Matched(s.used, s.facts, Good[s.company], s.blank)
                    \/ Evaluated(s.used) = {}
  BY <1>2, RulesDecide DEF ScoreOf
<1>4. ~HardFail(issues)
  BY NoHardFailure DEF IssuesOf
<1>5. s.passed <=> issues = {}
  <2> HIDE DEF issues
  <2>1. Passed(issues, s.score) <=>
          issues = {} \/ (~HardFail(issues) /\ s.score >= 8000)
    BY SMT DEF Passed, AutoApprove
  <2>2. ~(s.score >= 8000)
    BY <1>3
  <2> QED
    BY <1>2, <2>1, <2>2
<1>6. s.hitl <=> issues # {} /\ ~low
  BY <1>2, <1>3, <1>4, <1>5 DEF NeedsHuman, ReviewLower, ReviewUpper
<1>7. s.hitl => s.action = "none"
  BY <1>2
<1>8. ~s.hitl => s.action = IF low THEN "disqualify" ELSE "nurture"
  BY <1>2, <1>3 DEF RecommendedAction
<1>9. /\ s.action = "disqualify" <=> low
      /\ s.action = "none" <=> s.action # "disqualify" /\ issues # {}
  <2> HIDE DEF low, issues
  <2>1. CASE s.hitl
    BY <1>6, <1>7, <2>1
  <2>2. CASE ~s.hitl
    BY <1>6, <1>8, <2>2
  <2> QED
    BY <2>1, <2>2
<1> QED
  BY <1>3, <1>9 DEF IssuesOf

\* For every company and every configuration: a run of POST /runs whose agents
\* succeed disqualifies exactly those that miss a rule, or whose rules are no
\* rules, and leaves to a human those others that give reason for it.
THEOREM OneMiss == Spec => []OneMissDisqualifies
<1>1. Init => PlainInv
  <2> SUFFICES ASSUME Init, NEW p \in Passes PROVE Plain(pass[p])
    BY DEF PlainInv
  <2>1. pass[p] = Idle
    BY DEF Init
  <2> QED
    BY <2>1, EarlyIsPlain DEF Idle, BeforeScorer
<1> QED
  BY <1>1, InvHolds, PlainStep, PlainMeansOneMiss, PTL DEF Spec
=============================================================================
