------------------------- MODULE PlannerGraphProofs -------------------------
(***************************************************************************)
(* Theorems about PlannerGraph, for every set of selections and of custom  *)
(* agents: whatever list the user sends, of whatever length.               *)
(***************************************************************************)
EXTENDS PlannerGraph, FoldLemmas

-----------------------------------------------------------------------------
(* Types.                                                                  *)

Statuses == {"running", "completed", "failed", "skipped", "awaiting_hitl"}

TypeInv ==
  /\ given \in BOOLEAN /\ force \in BOOLEAN /\ processed \in BOOLEAN
  /\ pc \in {"build", "skip", "node", "edge", "ended", "returned", "raised",
             "aborted"}
  /\ at \in Nat /\ Len(seq) \in Nat
  /\ status \in Statuses /\ hitl \in BOOLEAN
  /\ failures \in Nat /\ items \in Nat /\ records \in Nat
  /\ row \in {"running", "completed", "failed"}

\* A review is asked for by validation alone, the row is written by summary
\* alone, an item without a review is announced as a failure.
LEMMA Outcomes ==
  ASSUME NEW name, NEW o \in OutcomesOf(name)
  PROVE  /\ o.status \in {"running", "completed", "failed", "awaiting_hitl"}
         /\ o.hitl = "yes" =>
              /\ name = "validation" /\ o.status = "awaiting_hitl"
              /\ ~o.announced
         /\ "row" \in o.does => name = "summary" /\ "item" \notin o.does
         /\ "item" \in o.does => o.hitl = "yes" \/ o.announced
<1>0. \/ o = Outcome("running", "keep", {}, FALSE)
      \/ o = Outcome("running", "keep", {"record"}, FALSE)
      \/ o = Outcome("running", "no", {}, FALSE)
      \/ /\ o = Outcome("awaiting_hitl", "yes", {"item"}, FALSE)
         /\ name = "validation"
      \/ o = Outcome("completed", "keep", {}, FALSE)
      \/ o = Outcome("completed", "keep", {"row"}, FALSE) /\ name = "summary"
      \/ o = Outcome("failed", "keep", {}, FALSE)
      \/ o = Outcome("failed", "keep", {}, TRUE)
      \/ o = Outcome("failed", "keep", {"record"}, TRUE)
      \/ o = Outcome("failed", "keep", {"item"}, TRUE)
      \/ o = Outcome("failed", "keep", {"row"}, TRUE) /\ name = "summary"
  BY DEF OutcomesOf, EnrichmentOutcomes, ValidationOutcomes, SummaryOutcomes,
     PlainOutcomes, CustomOutcomes, Fails
<1>1. o.status \in {"running", "completed", "failed", "awaiting_hitl"}
  BY <1>0 DEF Outcome
<1>2. o.hitl = "yes" => name = "validation"
  BY <1>0 DEF Outcome
<1>3. o.hitl = "yes" => o.status = "awaiting_hitl"
  BY <1>0 DEF Outcome
<1>4. o.hitl = "yes" => ~o.announced
  BY <1>0 DEF Outcome
<1>5. "row" \in o.does => name = "summary"
  BY <1>0 DEF Outcome
<1>6. "row" \in o.does => "item" \notin o.does
  BY <1>0 DEF Outcome
<1>7. "item" \in o.does => o.hitl = "yes" \/ o.announced
  BY <1>0 DEF Outcome
<1> QED
  BY <1>1, <1>2, <1>3, <1>4, <1>5, <1>6, <1>7

\* What agents leave in the stores keeps its type.
LEMMA LeavesTyped ==
  ASSUME TypeInv, NEW does, Leaves(does)
  PROVE  items' \in Nat /\ records' \in Nat
  BY DEF TypeInv, Leaves

\* The chain that build_planner_graph makes of the user's list.
Chain == IF selected # <<>> THEN KnownOf(selected) ELSE DefaultSequence

\* What is kept of a list are ids of agents.
LEMMA KnownTyped ==
  ASSUME NEW list \in Seq(STRING)
  PROVE  KnownOf(list) \in Seq(KnownIds)
<1> DEFINE parts == [i \in DOMAIN list |->
                       IF list[i] \in KnownIds THEN <<list[i]>> ELSE <<>>]
<1>1. \A i \in DOMAIN list : parts[i] \in Seq(KnownIds)
  OBVIOUS
<1>2. parts \in Seq(Seq(KnownIds))
  <2>1. DOMAIN parts = 1..Len(list) /\ Len(list) \in Nat
    OBVIOUS
  <2>2. parts = [i \in 1..Len(list) |-> parts[i]]
    BY <2>1
  <2> QED
    BY <1>1, <2>1, <2>2
<1> HIDE DEF parts
<1> QED
  BY <1>2, FlattenTyped DEF KnownOf, parts

\* A chain is as long as a list is.
LEMMA ChainLength ==
  ASSUME selected = <<>> \/ selected \in Seq(STRING)
  PROVE  Len(Chain) \in Nat
<1>1. CASE selected = <<>>
  BY <1>1 DEF Chain, DefaultSequence
<1>2. CASE selected # <<>>
  <2>1. KnownOf(selected) \in Seq(KnownIds)
    BY <1>2, KnownTyped
  <2> QED
    BY <1>2, <2>1 DEF Chain
<1> QED
  BY <1>1, <1>2

\* The user's list is fixed; without one there are no ids in it.
Listed ==
  /\ selected = <<>> \/ selected \in Seq(STRING)
  /\ ~given => selected = <<>>
  /\ pc \notin {"build"} => seq = Chain

\* The steps of a pass keep its types.
LEMMA TypeStep == TypeInv /\ Listed /\ [Next]_vars => TypeInv' /\ Listed'
<1> SUFFICES ASSUME TypeInv, Listed, [Next]_vars PROVE TypeInv' /\ Listed'
  OBVIOUS
<1>1. CASE Build
  <2>1. seq' = Chain /\ UNCHANGED inputs /\ pc' \in {"raised", "skip"}
    BY <1>1 DEF Build, Chain, RaisesOut
  <2>2. Len(seq') \in Nat
    BY <2>1, ChainLength DEF Listed
  <2>3. row' \in {"running", "completed", "failed"}
    BY <1>1 DEF Build, RaisesOut, TypeInv
  <2>4. Chain' = Chain
    BY <2>1 DEF Chain, inputs
  <2> HIDE DEF Chain
  <2>5. Listed'
    BY <2>1, <2>4 DEF Listed, inputs
  <2> QED
    BY <1>1, <2>1, <2>2, <2>3, <2>5 DEF Build, TypeInv, inputs
<1>2. CASE ~Build
  <2>1. /\ UNCHANGED <<inputs, seq>> /\ (pc # "build" \/ pc' = pc)
    BY <1>2 DEF Next, CheckSkip, SkipNode, RunNode, Edge, Finish, StoreRaises,
       vars, inputs
  <2>2. Chain' = Chain
    BY <2>1 DEF Chain, inputs
  <2>3. Listed'
    BY <2>1, <2>2 DEF Listed, inputs
  <2>4. TypeInv'
    <3>1. CASE CheckSkip
      BY <3>1 DEF CheckSkip, TypeInv, inputs, Statuses
    <3>2. CASE SkipNode
      BY <3>2 DEF SkipNode, TypeInv, inputs
    <3>3. CASE RunNode
      <4>1. PICK o \in OutcomesOf(AgentName(seq[at])) :
              /\ status' = o.status
              /\ hitl' = IF o.hitl = "keep" THEN hitl ELSE o.hitl = "yes"
              /\ failures' = IF o.announced THEN failures + 1 ELSE failures
              /\ Leaves(o.does)
              /\ row' = IF "row" \in o.does THEN "completed" ELSE row
        BY <3>3 DEF RunNode
      <4>2. status' \in Statuses
        BY <4>1, Outcomes DEF Statuses
      <4>3. items' \in Nat /\ records' \in Nat
        BY <4>1, LeavesTyped
      <4>4. hitl' \in BOOLEAN
        BY <4>1, Zenon DEF TypeInv
      <4>5. failures' \in Nat
        BY <4>1 DEF TypeInv
      <4> QED
        BY <3>3, <4>1, <4>2, <4>3, <4>4, <4>5 DEF RunNode, TypeInv, inputs
    <3>4. CASE Edge
      BY <3>4 DEF Edge, RaisesOut, TypeInv, inputs
    <3>5. CASE Finish
      BY <3>5 DEF Finish, TypeInv, inputs
    <3>6. CASE StoreRaises
      <4>1. items' \in Nat /\ records' \in Nat
        <5>1. CASE UNCHANGED <<items, records>>
          BY <5>1 DEF TypeInv
        <5>2. CASE ~UNCHANGED <<items, records>>
          BY <3>6, <5>2, LeavesTyped DEF StoreRaises
        <5> QED
          BY <5>1, <5>2
      <4> QED
        BY <3>6, <4>1 DEF StoreRaises, RaisesOut, TypeInv, inputs
    <3>7. CASE UNCHANGED vars
      BY <3>7 DEF vars, inputs, TypeInv
    <3> QED
      BY <1>2, <3>1, <3>2, <3>3, <3>4, <3>5, <3>6, <3>7 DEF Next
  <2> QED
    BY <2>3, <2>4
<1> QED
  BY <1>1, <1>2

\* The types hold throughout.
LEMMA Typed == Spec => [](TypeInv /\ Listed)
<1>1. Init => TypeInv /\ Listed
  <2> SUFFICES ASSUME Init PROVE TypeInv /\ Listed
    OBVIOUS
  <2>1. TypeInv
    BY DEF Init, TypeInv, Statuses
  <2>2. Listed
    BY SelectionsAssumption DEF Init, Listed
  <2> QED
    BY <2>1, <2>2
<1> QED
  BY <1>1, TypeStep, PTL DEF Spec

-----------------------------------------------------------------------------
(* The bounds of the types.                                                *)

\* The graph has nodes for known ids only, the pass never leaves the chain, and
\* no node announces a second failure.
BoundInv ==
  /\ seq \in Seq(KnownIds)
  /\ pc \in {"build", "skip"} => at = 0 /\ ran = {} /\ failures = 0
  /\ pc = "skip" => seq # <<>>
  /\ pc \in {"node", "edge"} => at >= 1
  /\ at <= Len(seq)
  /\ ran \subseteq 1..Len(seq)
  /\ failures <= at
  /\ pc = "node" => failures <= at - 1

\* The chain is made of known ids.
LEMMA ChainTyped ==
  ASSUME selected = <<>> \/ selected \in Seq(STRING)
  PROVE  Chain \in Seq(KnownIds)
<1>1. CASE selected = <<>>
  <2>1. {"trigger_monitor", "icp_scorer", "contact_enrichment",
         "persona_finder", "validation", "summary"} \subseteq KnownIds
    BY DEF KnownIds, CoreIds
  <2>2. DefaultSequence \in Seq(KnownIds)
    BY <2>1 DEF DefaultSequence
  <2> QED
    BY <1>1, <2>2 DEF Chain
<1>2. CASE selected # <<>>
  BY <1>2, KnownTyped DEF Chain
<1> QED
  BY <1>1, <1>2

\* Every step keeps the bounds.
LEMMA BoundStep == TypeInv /\ Listed /\ BoundInv /\ [Next]_vars => BoundInv'
<1> SUFFICES ASSUME TypeInv, Listed, BoundInv, [Next]_vars PROVE BoundInv'
  OBVIOUS
<1>0. at \in Nat /\ failures \in Nat /\ Len(seq) \in Nat
  BY DEF TypeInv
<1>1. CASE Build
  <2>1. /\ seq' = Chain /\ pc = "build" /\ pc' \in {"raised", "skip"}
        /\ pc' = "skip" => seq' # <<>>
        /\ UNCHANGED <<at, failures, ran>>
    BY <1>1 DEF Build, Chain, RaisesOut
  <2>2. seq' \in Seq(KnownIds)
    BY <2>1, ChainTyped DEF Listed
  <2>3. Len(seq') \in Nat
    BY <2>2
  <2> QED
    BY <2>1, <2>2, <2>3 DEF BoundInv
<1>2. CASE CheckSkip
  <2>1. Len(seq) >= 1
    BY <1>0, <1>2 DEF CheckSkip, BoundInv
  <2> QED
    BY <1>0, <1>2, <2>1 DEF CheckSkip, BoundInv
<1>3. CASE SkipNode
  BY <1>0, <1>3 DEF SkipNode, BoundInv
<1>4. CASE RunNode
  <2>1. pc = "node" /\ pc' = "edge" /\ ran' = ran \union {at}
        /\ UNCHANGED <<seq, at>>
    BY <1>4 DEF RunNode
  <2>2. failures' \in {failures, failures + 1}
    BY <1>4 DEF RunNode
  <2> QED
    BY <1>0, <2>1, <2>2 DEF BoundInv
<1>5. CASE Edge
  BY <1>0, <1>5 DEF Edge, RaisesOut, BoundInv
<1>6. CASE Finish
  BY <1>0, <1>6 DEF Finish, BoundInv
<1>7. CASE StoreRaises
  <2>1. pc' = "aborted" /\ UNCHANGED <<seq, at, failures>>
    BY <1>7 DEF StoreRaises, RaisesOut
  <2>2. ran' = ran \/ (pc = "node" /\ ran' = ran \union {at})
    BY <1>7 DEF StoreRaises
  <2>3. ran' \subseteq 1..Len(seq)
    <3>1. CASE ran' = ran
      BY <3>1 DEF BoundInv
    <3>2. CASE pc = "node" /\ ran' = ran \union {at}
      <4>1. at \in 1..Len(seq)
        BY <1>0, <3>2 DEF BoundInv
      <4> QED
        BY <3>2, <4>1 DEF BoundInv
    <3> QED
      BY <2>2, <3>1, <3>2
  <2> QED
    BY <1>0, <2>1, <2>3 DEF BoundInv
<1>8. CASE UNCHANGED vars
  BY <1>8 DEF vars, inputs, BoundInv
<1> QED
  BY <1>1, <1>2, <1>3, <1>4, <1>5, <1>6, <1>7, <1>8 DEF Next

\* TypeOK, for lists of any length: the chain is made of known ids, the pass
\* stays inside it, and each node runs its agent and announces its failure at
\* most once.
THEOREM ChainBounds == Spec => []TypeOK
<1>1. Init => BoundInv
  BY DEF Init, BoundInv
<1>2. TypeInv /\ BoundInv => TypeOK
  <2> SUFFICES ASSUME TypeInv, BoundInv PROVE TypeOK
    OBVIOUS
  <2>1. at \in 0..Len(seq) /\ failures \in 0..Len(seq)
    BY DEF TypeInv, BoundInv
  <2> QED
    BY <2>1 DEF TypeInv, BoundInv, TypeOK, Statuses
<1> QED
  BY <1>1, <1>2, Typed, BoundStep, PTL DEF Spec

-----------------------------------------------------------------------------
(* How long a pass can be.                                                 *)

\* Twice the agents still ahead, a node and an edge each, and what is before
\* and behind the chain.
StepsLeft ==
  CASE pc = "build" -> 2 * Len(Chain) + 3
    [] pc = "skip"  -> 2 * Len(seq) + 2
    [] pc = "node"  -> 2 * (Len(seq) - at) + 3
    [] pc = "edge"  -> 2 * (Len(seq) - at) + 2
    [] pc = "ended" -> 1
    [] OTHER        -> 0

StepsFall ==
  /\ {StepsLeft, StepsLeft'} \subseteq Nat
  /\ StepsLeft' < StepsLeft

\* There is never less than nothing left to do.
LEMMA StepsLeftTyped ==
  TypeInv /\ Listed /\ BoundInv => StepsLeft \in Nat
<1> SUFFICES ASSUME TypeInv, Listed, BoundInv PROVE StepsLeft \in Nat
  OBVIOUS
<1>1. Len(Chain) \in Nat
  BY ChainTyped DEF Listed
<1>2. at \in Nat /\ Len(seq) \in Nat /\ at <= Len(seq)
  BY DEF TypeInv, BoundInv
<1> QED
  BY <1>1, <1>2 DEF StepsLeft

\* Every step takes something off.
LEMMA StepsLeftFall ==
  TypeInv /\ Listed /\ BoundInv /\ Next => StepsLeft' < StepsLeft
<1> SUFFICES ASSUME TypeInv, Listed, BoundInv, Next
             PROVE  StepsLeft' < StepsLeft
  OBVIOUS
<1>0. /\ at \in Nat /\ Len(seq) \in Nat /\ at <= Len(seq)
      /\ pc \in {"node", "edge"} => at >= 1
  BY DEF TypeInv, BoundInv
<1>1. CASE Build
  <2>1. /\ seq' = Chain /\ pc = "build" /\ pc' \in {"raised", "skip"}
    BY <1>1 DEF Build, Chain, RaisesOut
  <2>2. Len(Chain) \in Nat
    BY ChainTyped DEF Listed
  <2> QED
    BY <2>1, <2>2 DEF StepsLeft
<1>2. CASE CheckSkip
  <2>1. /\ pc = "skip" /\ seq' = seq
        /\ pc' = "ended" \/ (pc' = "node" /\ at' = 1)
    BY <1>2 DEF CheckSkip
  <2> QED
    BY <1>0, <2>1 DEF StepsLeft
<1>3. CASE SkipNode \/ RunNode
  <2>1. pc = "node" /\ pc' = "edge" /\ UNCHANGED <<seq, at>>
    BY <1>3 DEF SkipNode, RunNode
  <2> QED
    BY <1>0, <2>1 DEF StepsLeft
<1>4. CASE Edge
  <2>1. /\ pc = "edge" /\ seq' = seq
        /\ \/ pc' \in {"ended", "raised"}
           \/ pc' = "node" /\ at' = at + 1 /\ at < Len(seq)
    BY <1>4 DEF Edge, RaisesOut
  <2> QED
    BY <1>0, <2>1 DEF StepsLeft
<1>5. CASE Finish
  <2>1. pc = "ended" /\ pc' = "returned"
    BY <1>5 DEF Finish
  <2> QED
    BY <2>1 DEF StepsLeft
<1>6. CASE StoreRaises
  <2>1. pc \in {"skip", "node"} /\ pc' = "aborted"
    BY <1>6 DEF StoreRaises, RaisesOut
  <2> QED
    BY <1>0, <2>1 DEF StepsLeft
<1> QED
  BY <1>1, <1>2, <1>3, <1>4, <1>5, <1>6 DEF Next

\* No list of agents, whatever it repeats or leaves out, makes a pass go round
\* in circles: every step is one of the at most 2 n + 3 that a chain of n agents
\* allows.  With the fairness of FairSpec, this is why a pass ends.
THEOREM PassIsFinite == Spec => [][StepsFall]_vars
<1>1. Init => BoundInv
  BY DEF Init, BoundInv
<1>2. TypeInv /\ Listed /\ BoundInv /\ (TypeInv /\ Listed /\ BoundInv)'
        /\ [Next]_vars
        => [StepsFall]_vars
  <2> SUFFICES ASSUME TypeInv, Listed, BoundInv,
                      (TypeInv /\ Listed /\ BoundInv)', Next
               PROVE  StepsFall
    OBVIOUS
  <2>1. StepsLeft \in Nat /\ StepsLeft' < StepsLeft
    BY StepsLeftTyped, StepsLeftFall
  <2>2. StepsLeft' \in Nat
    <3>1. (TypeInv /\ Listed /\ BoundInv => StepsLeft \in Nat)'
      BY StepsLeftTyped, PTL
    <3> QED
      BY <3>1
  <2> QED
    BY <2>1, <2>2 DEF StepsFall
<1> QED
  BY <1>1, <1>2, BoundStep, Typed, PTL DEF Spec

-----------------------------------------------------------------------------
(* Reviews.                                                                *)

\* ReviewEndsChain made inductive: whoever asked for a human was the last to
\* run, and no node is entered after it; an item in the queue of a pass that
\* goes on is the trace of an announced failure.
ReviewInv ==
  /\ pc \in {"build", "skip"} => ran = {} /\ at = 0 /\ items = 0 /\ row = "running"
  /\ \A i \in ran : i \in Nat /\ i <= at
  /\ hitl => /\ pc \in {"edge", "ended", "returned"}
             /\ AgentName(seq[at]) = "validation"
  /\ pc # "aborted" /\ ~hitl /\ items > 0 => failures > 0

\* The ids of the validation agent.
LEMMA ValidationIds ==
  \A id : IsValidation(id) <=> AgentName(id) = "validation"
<1>1. \A id : id \in {"validation", "validation_agent"} <=>
              AgentName(id) = "validation"
  BY DEF AgentName
<1> QED
  BY <1>1 DEF IsValidation

\* An executed agent keeps ReviewInv.
LEMMA RunReview ==
  ASSUME TypeInv, ReviewInv, RunNode
  PROVE  ReviewInv'
<1>1. PICK o \in OutcomesOf(AgentName(seq[at])) :
        /\ status' = o.status
        /\ hitl' = IF o.hitl = "keep" THEN hitl ELSE o.hitl = "yes"
        /\ failures' = IF o.announced THEN failures + 1 ELSE failures
        /\ Leaves(o.does)
        /\ row' = IF "row" \in o.does THEN "completed" ELSE row
  BY DEF RunNode
<1>2. /\ pc = "node" /\ pc' = "edge" /\ ran' = ran \union {at}
      /\ UNCHANGED <<seq, at>>
  BY DEF RunNode
<1>3. ~hitl
  BY <1>2 DEF ReviewInv
<1>4. hitl' => o.hitl = "yes"
  BY <1>1, <1>3
<1>5. hitl' => AgentName(seq[at]) = "validation"
  BY <1>4, Outcomes
<1>6. ~hitl' /\ items' > 0 => failures' > 0
  <2>1. CASE "item" \in o.does
    <3>1. o.hitl = "yes" \/ o.announced
      BY <2>1, Outcomes
    <3>2. o.hitl = "yes" => hitl'
      BY <1>1
    <3>3. o.announced => failures' = failures + 1
      BY <1>1
    <3> QED
      BY <3>1, <3>2, <3>3 DEF TypeInv
  <2>2. CASE "item" \notin o.does
    <3>1. items' = items
      BY <1>1, <2>2 DEF Leaves
    <3>2. failures' \in {failures, failures + 1}
      BY <1>1
    <3> QED
      BY <1>2, <1>3, <3>1, <3>2 DEF ReviewInv, TypeInv
  <2> QED
    BY <2>1, <2>2
<1> QED
  BY <1>2, <1>5, <1>6 DEF ReviewInv, TypeInv

\* Every step keeps ReviewInv.
LEMMA ReviewStep == TypeInv /\ ReviewInv /\ [Next]_vars => ReviewInv'
<1> SUFFICES ASSUME TypeInv, ReviewInv, [Next]_vars PROVE ReviewInv'
  OBVIOUS
<1>1. CASE Build
  <2>1. pc' \in {"raised", "skip"} /\ row' = IF pc' = "skip" THEN row ELSE "failed"
    BY <1>1 DEF Build, RaisesOut
  <2> QED
    BY <1>1, <2>1 DEF Build, ReviewInv
<1>2. CASE CheckSkip
  <2>1. pc' \in {"ended", "node"} /\ at' \in {0, 1} /\ ran = {} /\ items = 0 /\ ~hitl
    BY <1>2 DEF CheckSkip, ReviewInv
  <2> QED
    BY <1>2, <2>1 DEF CheckSkip, ReviewInv
<1>3. CASE SkipNode
  BY <1>3 DEF SkipNode, ReviewInv
<1>4. CASE RunNode
  BY <1>4, RunReview
<1>5. CASE Edge
  <2>1. /\ pc = "edge" /\ pc' \in {"ended", "node", "raised"}
        /\ pc' = "ended" \/ ~hitl \/ ~IsValidation(seq[at])
        /\ at' = at \/ (at' = at + 1 /\ pc' = "node")
        /\ UNCHANGED <<seq, hitl, ran, items, failures>>
    BY <1>5 DEF Edge, RaisesOut
  <2>2. pc' # "ended" => ~hitl
    BY <2>1, ValidationIds DEF ReviewInv
  <2>3. \A i \in ran : i <= at'
    BY <2>1 DEF ReviewInv, TypeInv
  <2>4. hitl' => pc' = "ended" /\ at' = at
    BY <2>1, <2>2
  <2> QED
    BY <2>1, <2>2, <2>3, <2>4 DEF ReviewInv
<1>6. CASE Finish
  BY <1>6 DEF Finish, ReviewInv
<1>7. CASE StoreRaises
  <2>1. ~hitl /\ pc' = "aborted" /\ UNCHANGED <<seq, at, hitl>>
    BY <1>7 DEF StoreRaises, RaisesOut, ReviewInv
  <2>2. ran' = ran \/ ran' = ran \union {at}
    BY <1>7 DEF StoreRaises
  <2> QED
    BY <2>1, <2>2 DEF ReviewInv, TypeInv
<1>8. CASE UNCHANGED vars
  BY <1>8 DEF vars, inputs, ReviewInv
<1> QED
  BY <1>1, <1>2, <1>3, <1>4, <1>5, <1>6, <1>7, <1>8 DEF Next

\* ReviewInv holds throughout.
LEMMA Reviewed == Spec => []ReviewInv
<1>1. Init => ReviewInv
  BY DEF Init, ReviewInv
<1> QED
  BY <1>1, Typed, ReviewStep, PTL DEF Spec

\* For any list of agents in any order: once validation has asked for a human,
\* no later agent runs.
THEOREM ReviewEnds == Spec => []ReviewEndsChain
<1>1. ReviewInv => ReviewEndsChain
  BY DEF ReviewInv, ReviewEndsChain
<1> QED
  BY <1>1, Reviewed, PTL

\* For any list of agents in any order: a summary decides for a company with an
\* item in the queue only if an agent has failed.
THEOREM NoDecision == Spec => NoDecisionBehindReview
<1>1. TypeInv /\ ReviewInv /\ [Next]_vars =>
        [row # "completed" /\ row' = "completed" /\ items > 0
           => failures > 0]_vars
  <2> SUFFICES ASSUME TypeInv, ReviewInv, [Next]_vars, row # "completed",
                      row' = "completed", items > 0
               PROVE  failures > 0
    OBVIOUS
  <2>1. RunNode
    BY DEF Next, Build, CheckSkip, SkipNode, Edge, Finish, StoreRaises,
       RaisesOut, vars, inputs
  <2>2. pc = "node"
    BY <2>1 DEF RunNode
  <2> QED
    BY <2>2 DEF ReviewInv
<1> QED
  BY <1>1, Typed, Reviewed, PTL DEF Spec, NoDecisionBehindReview

-----------------------------------------------------------------------------
(* Which agents run, and which lists do.                                   *)

Chosen(i) == given => AgentName(seq[i]) \in ToSet(selected)

\* SelectionDecides made inductive: what has run so far.
RanInv ==
  /\ pc \in {"node", "edge"} => at >= 1
  /\ pc \in {"build", "skip"} => ran = {}
  /\ pc = "node" => ran = {i \in 1..at - 1 : Chosen(i)}
  /\ pc = "edge" => ran = {i \in 1..at : Chosen(i)}
  /\ pc \in {"ended", "returned"} /\ ~hitl /\ status # "skipped" =>
       at = Len(seq) /\ ran = {i \in 1..at : Chosen(i)}

\* A step of the graph keeps the lists that Chosen compares.
LEMMA SameChoice ==
  ASSUME UNCHANGED <<inputs, seq>>
  PROVE  \A i : Chosen(i)' <=> Chosen(i)
  BY DEF Chosen, inputs

\* Every step keeps RanInv.
LEMMA RanStep == TypeInv /\ ReviewInv /\ RanInv /\ [Next]_vars => RanInv'
<1> SUFFICES ASSUME TypeInv, ReviewInv, RanInv, [Next]_vars PROVE RanInv'
  OBVIOUS
<1>1. CASE Build
  <2>1. pc' \in {"raised", "skip"} /\ ran' = ran /\ ran = {}
    BY <1>1 DEF Build, RaisesOut, RanInv
  <2> QED
    BY <2>1 DEF RanInv
<1>2. CASE CheckSkip
  <2>1. \/ pc' = "ended" /\ status' = "skipped"
        \/ pc' = "node" /\ at' = 1
    BY <1>2 DEF CheckSkip
  <2>2. ran' = {}
    BY <1>2 DEF CheckSkip, RanInv
  <2>3. pc' = "node" => ran' = {i \in 1..at' - 1 : Chosen(i)'}
    BY <2>1, <2>2
  <2> QED
    BY <2>1, <2>3 DEF RanInv
<1>3. CASE SkipNode \/ RunNode
  <2>1. /\ pc = "node" /\ pc' = "edge" /\ at' = at /\ UNCHANGED <<inputs, seq>>
        /\ ran' = IF Chosen(at) THEN ran \union {at} ELSE ran
    <3>1. SkippedByUser(seq[at]) <=> ~Chosen(at)
      BY DEF SkippedByUser, Chosen
    <3> QED
      BY <1>3, <3>1 DEF SkipNode, RunNode
  <2>2. ran = {i \in 1..at - 1 : Chosen(i)} /\ at >= 1 /\ at \in Nat
    BY <2>1 DEF RanInv, TypeInv
  <2>3. \A i : Chosen(i)' <=> Chosen(i)
    BY <2>1, SameChoice
  <2> HIDE DEF Chosen
  <2>4. ran' = {i \in 1..at : Chosen(i)}
    BY <2>1, <2>2
  <2>5. ran' = {i \in 1..at' : Chosen(i)'}
    BY <2>1, <2>3, <2>4
  <2> QED
    BY <2>1, <2>2, <2>5 DEF RanInv
<1>4. CASE Edge
  <2>1. /\ pc = "edge" /\ UNCHANGED <<inputs, seq, hitl, ran, status>>
        /\ \/ pc' = "ended" /\ at' = at /\ (hitl \/ at = Len(seq))
           \/ pc' = "raised"
           \/ pc' = "node" /\ at' = at + 1
    BY <1>4 DEF Edge, RaisesOut
  <2>2. ran = {i \in 1..at : Chosen(i)} /\ at >= 1 /\ at \in Nat
    BY <2>1 DEF RanInv, TypeInv
  <2>3. \A i : Chosen(i)' <=> Chosen(i)
    BY <2>1, SameChoice
  <2>4. CASE pc' = "node" /\ at' = at + 1
    <3>1. at' - 1 = at
      BY <2>2, <2>4
    <3>2. ran' = {i \in 1..at' - 1 : Chosen(i)'}
      BY <2>1, <2>2, <2>3, <3>1
    <3> QED
      BY <2>2, <2>4, <3>2 DEF RanInv
  <2>5. CASE pc' = "ended" /\ at' = at /\ (hitl \/ at = Len(seq))
    <3>1. ran' = {i \in 1..at' : Chosen(i)'}
      BY <2>1, <2>2, <2>3, <2>5
    <3> QED
      BY <2>1, <2>5, <3>1 DEF RanInv
  <2>6. CASE pc' = "raised"
    BY <2>6 DEF RanInv
  <2> QED
    BY <2>1, <2>4, <2>5, <2>6
<1>5. CASE Finish
  <2>1. /\ pc = "ended" /\ pc' = "returned"
        /\ UNCHANGED <<inputs, seq, at, hitl, ran, status>>
    BY <1>5 DEF Finish
  <2>2. \A i : Chosen(i)' <=> Chosen(i)
    BY <2>1, SameChoice
  <2> HIDE DEF Chosen
  <2>3. ran = {i \in 1..at : Chosen(i)} => ran' = {i \in 1..at' : Chosen(i)'}
    BY <2>1, <2>2
  <2> QED
    BY <2>1, <2>3 DEF RanInv
<1>6. CASE StoreRaises
  BY <1>6 DEF StoreRaises, RaisesOut, RanInv
<1>7. CASE UNCHANGED vars
  <2>1. UNCHANGED <<inputs, seq, at, hitl, ran, status, pc>>
    BY <1>7 DEF vars, inputs
  <2>2. \A i : Chosen(i)' <=> Chosen(i)
    BY <2>1, SameChoice
  <2> QED
    BY <2>1, <2>2 DEF RanInv
<1> QED
  BY <1>1, <1>2, <1>3, <1>4, <1>5, <1>6, <1>7 DEF Next

\* RanInv holds throughout.
LEMMA Ran == Spec => []RanInv
<1>1. Init => RanInv
  BY DEF Init, RanInv
<1> QED
  BY <1>1, Typed, Reviewed, RanStep, PTL DEF Spec

\* For any list of agents: a pass that returns without a review has run exactly
\* the agents of its chain whose own name is in the list, whatever failed.
THEOREM ListDecides == Spec => []SelectionDecides
<1>1. RanInv => SelectionDecides
  BY DEF RanInv, SelectionDecides, Returned, Chosen
<1> QED
  BY <1>1, Ran, PTL

\* For any list of agents: with the stores up the graph fails only if the list
\* names no agent, names one twice or has two agents after a validation.
THEOREM RunnableListReturns == Spec => []RunnableReturns
<1> DEFINE Inv == RunnableReturns
<1>1. Init => Inv
  BY DEF Init, RunnableReturns
<1>2. TypeInv /\ Listed /\ RanInv /\ Inv /\ [Next]_vars => Inv'
  <2> SUFFICES ASSUME TypeInv, Listed, RanInv, Inv, [Next]_vars, pc' = "raised"
               PROVE  given' /\ selected' # <<>> /\ ~Runnable(selected)'
    BY DEF RunnableReturns
  <2>1. UNCHANGED inputs
    BY DEF Next, Build, CheckSkip, SkipNode, RunNode, Edge, Finish,
       StoreRaises, vars, inputs
  <2>2. SUFFICES given /\ selected # <<>> /\ ~Runnable(selected)
    BY <2>1 DEF inputs, Runnable
  <2>3. CASE pc = "raised"
    BY <2>3 DEF RunnableReturns
  <2>4. CASE Build
    <3>1. Chain = <<>> \/ ~IsInjective(Chain)
      BY <2>4 DEF Build, Chain, RaisesOut
    <3>2. DefaultSequence # <<>> /\ IsInjective(DefaultSequence)
      BY DEF DefaultSequence, IsInjective
    <3>3. selected # <<>>
      BY <3>1, <3>2 DEF Chain
    <3> QED
      BY <3>1, <3>3 DEF Chain, Runnable, Listed
  <2>5. CASE Edge /\ pc # "raised"
    <3>1. /\ pc = "edge" /\ at < Len(seq) /\ IsValidation(seq[at])
          /\ seq[Len(seq)] # seq[at + 1]
      BY <2>5 DEF Edge, RaisesOut, RouteAfterValidation
    <3>2. seq = Chain /\ at \in Nat /\ at >= 1 /\ Len(seq) \in Nat
      BY <3>1 DEF Listed, RanInv, TypeInv
    <3>3. at \in 1..Len(seq) - 2
      BY <3>1, <3>2
    <3>4. selected # <<>>
      <4>1. SUFFICES ASSUME seq = DefaultSequence PROVE FALSE
        BY <3>2 DEF Chain
      <4>2. at \in 1..4
        BY <3>3, <4>1 DEF DefaultSequence
      <4> QED
        BY <3>1, <4>1, <4>2 DEF DefaultSequence, IsValidation
    <3> QED
      BY <3>1, <3>2, <3>3, <3>4 DEF Chain, Runnable, Listed
  <2>6. CASE ~Build /\ ~Edge /\ pc # "raised"
    BY <2>6 DEF Next, CheckSkip, SkipNode, RunNode, Finish, StoreRaises,
       RaisesOut, vars
  <2> QED
    BY <2>3, <2>4, <2>5, <2>6
<1> QED
  BY <1>1, <1>2, Typed, Ran, PTL DEF Spec

-----------------------------------------------------------------------------
(* The default chain.                                                      *)

\* The outcomes of the six default agents when none fails.
LEMMA DefaultOutcomes ==
  ASSUME NEW n \in 1..6, NEW o \in OutcomesOf(AgentName(DefaultSequence[n])),
         ~o.announced
  PROVE  /\ "record" \in o.does <=> n = 3
         /\ o.hitl = "yes" => n = 5 /\ o.status = "awaiting_hitl"
         /\ n = 6 => o.status = "completed"
<1>0. \/ n \in {1, 2, 4} /\ o = Outcome("running", "keep", {}, FALSE)
      \/ n = 3 /\ o = Outcome("running", "keep", {"record"}, FALSE)
      \/ n = 5 /\ o = Outcome("running", "no", {}, FALSE)
      \/ n = 5 /\ o = Outcome("awaiting_hitl", "yes", {"item"}, FALSE)
      \/ n = 6 /\ o = Outcome("completed", "keep", {"row"}, FALSE)
  <2>1. \A st, review, does : Outcome(st, review, does, TRUE).announced
    BY DEF Outcome
  <2>2. o # Outcome("failed", "keep", {}, TRUE)
    BY <2>1
  <2>3. o # Outcome("failed", "keep", {"record"}, TRUE)
    BY <2>1
  <2>4. o # Outcome("failed", "keep", {"item"}, TRUE)
    BY <2>1
  <2>5. o # Outcome("failed", "keep", {"row"}, TRUE)
    BY <2>1
  <2>6. CASE n \in {1, 2, 4}
    <3>1. OutcomesOf(AgentName(DefaultSequence[n])) = PlainOutcomes
      BY <2>6 DEF OutcomesOf, AgentName, DefaultSequence
    <3> QED
      BY <2>2, <2>6, <3>1 DEF PlainOutcomes, Fails
  <2>7. CASE n = 3
    BY <2>2, <2>3, <2>7 DEF OutcomesOf, EnrichmentOutcomes, Fails, AgentName,
       DefaultSequence
  <2>8. CASE n = 5
    BY <2>2, <2>4, <2>8 DEF OutcomesOf, ValidationOutcomes, Fails, AgentName,
       DefaultSequence
  <2>9. CASE n = 6
    BY <2>2, <2>5, <2>9 DEF OutcomesOf, SummaryOutcomes, Fails, AgentName,
       DefaultSequence
  <2>10. n \in {1, 2, 4} \/ n = 3 \/ n = 5 \/ n = 6
    OBVIOUS
  <2> QED
    BY <2>6, <2>7, <2>8, <2>9, <2>10
<1>1. "record" \in o.does <=> n = 3
  BY <1>0 DEF Outcome
<1>2. o.hitl = "yes" => n = 5
  BY <1>0 DEF Outcome
<1>3. o.hitl = "yes" => o.status = "awaiting_hitl"
  BY <1>0 DEF Outcome
<1>4. n = 6 => o.status = "completed"
  BY <1>0 DEF Outcome
<1> QED
  BY <1>1, <1>2, <1>3, <1>4

\* DefaultPassRecords made inductive: the enrichment's record, and the status
\* the fallback will see.
DefaultInv ==
  /\ pc = "skip" => seq = DefaultSequence
  /\ pc \in {"build", "skip"} => records = 0 /\ ~hitl
  /\ pc \in {"node", "edge"} => at \in 1..6 /\ seq = DefaultSequence
  /\ pc = "node" => ~hitl
  /\ failures = 0 =>
       /\ pc = "node" => records = IF at > 3 THEN 1 ELSE 0
       /\ pc = "edge" => /\ records = IF at >= 3 THEN 1 ELSE 0
                         /\ hitl => at = 5 /\ status = "awaiting_hitl"
                         /\ at = 6 => status = "completed"
       /\ pc = "ended" => \/ status = "skipped" /\ records = 0
                          \/ status \in {"awaiting_hitl", "completed"}
                             /\ records = 1
       /\ pc = "returned" => \/ status = "skipped" /\ records = 0
                             \/ status = "awaiting_hitl" /\ records = 2
                             \/ status = "completed" /\ records = 1

\* An executed agent of the default chain keeps DefaultInv.
LEMMA RunDefault ==
  ASSUME TypeInv, DefaultInv, RunNode
  PROVE  DefaultInv'
<1>1. PICK o \in OutcomesOf(AgentName(seq[at])) :
        /\ status' = o.status
        /\ hitl' = IF o.hitl = "keep" THEN hitl ELSE o.hitl = "yes"
        /\ failures' = IF o.announced THEN failures + 1 ELSE failures
        /\ Leaves(o.does)
        /\ row' = IF "row" \in o.does THEN "completed" ELSE row
  BY DEF RunNode
<1>2. /\ pc = "node" /\ pc' = "edge" /\ UNCHANGED <<seq, at>>
      /\ at \in 1..6 /\ seq = DefaultSequence /\ ~hitl
  BY DEF RunNode, DefaultInv
<1>3. ASSUME failures' = 0
      PROVE  /\ records' = IF at >= 3 THEN 1 ELSE 0
             /\ hitl' => at = 5 /\ status' = "awaiting_hitl"
             /\ at = 6 => status' = "completed"
  <2>1. ~o.announced
    BY <1>1, <1>3 DEF TypeInv
  <2>2. failures = 0 /\ records = IF at > 3 THEN 1 ELSE 0
    BY <1>1, <1>2, <1>3, <2>1 DEF DefaultInv
  <2>3. /\ "record" \in o.does <=> at = 3
        /\ o.hitl = "yes" => at = 5 /\ o.status = "awaiting_hitl"
        /\ at = 6 => o.status = "completed"
    BY <1>2, <2>1, DefaultOutcomes
  <2>4. records' = IF at = 3 THEN records + 1 ELSE records
    BY <1>1, <2>3 DEF Leaves
  <2>5. hitl' => o.hitl = "yes"
    BY <1>1, <1>2
  <2> QED
    BY <1>1, <1>2, <2>2, <2>3, <2>4, <2>5
<1> QED
  BY <1>2, <1>3 DEF DefaultInv

\* For a run without a list: what a pass without failures records is one
\* entry, none for a company it skips, two when it stops for a review.
THEOREM DefaultRecords == Spec => []DefaultPassRecords
<1>1. Init => (~given => DefaultInv)
  BY DEF Init, DefaultInv
<1>2. /\ TypeInv /\ Listed /\ ReviewInv /\ (~given => DefaultInv) /\ [Next]_vars
      => (~given => DefaultInv)'
  <2> SUFFICES ASSUME TypeInv, Listed, ReviewInv, ~given => DefaultInv,
                      [Next]_vars, ~given'
               PROVE  DefaultInv'
    OBVIOUS
  <2>0. DefaultInv /\ selected = <<>> /\ ~given
    <3>1. UNCHANGED inputs
      BY DEF Next, Build, CheckSkip, SkipNode, RunNode, Edge, Finish,
         StoreRaises, vars, inputs
    <3> QED
      BY <3>1 DEF inputs, Listed
  <2>1. CASE Build
    BY <2>0, <2>1 DEF Build, RaisesOut, DefaultInv
  <2>2. CASE CheckSkip
    <3>1. /\ pc = "skip"
          /\ \/ pc' = "ended" /\ status' = "skipped"
             \/ pc' = "node" /\ at' = 1
          /\ UNCHANGED <<seq, hitl, records>>
      BY <2>2 DEF CheckSkip
    <3> QED
      BY <2>0, <3>1 DEF DefaultInv
  <2>3. CASE SkipNode
    BY <2>0, <2>3 DEF SkipNode, SkippedByUser
  <2>4. CASE RunNode
    BY <2>0, <2>4, RunDefault
  <2>5. CASE Edge
    <3>1. /\ pc = "edge" /\ UNCHANGED <<seq, hitl, records, status, failures>>
          /\ \/ pc' = "ended" /\ (hitl \/ at = Len(seq))
             \/ pc' = "raised"
             \/ pc' = "node" /\ at' = at + 1 /\ at < Len(seq)
                /\ (IsValidation(seq[at]) => ~hitl)
      BY <2>5 DEF Edge, RaisesOut
    <3>2. at \in 1..6 /\ seq = DefaultSequence /\ Len(seq) = 6
      BY <2>0, <3>1 DEF DefaultInv, DefaultSequence
    <3>3. failures = 0 =>
            /\ records = IF at >= 3 THEN 1 ELSE 0
            /\ hitl => at = 5 /\ status = "awaiting_hitl"
            /\ at = 6 => status = "completed"
      BY <2>0, <3>1 DEF DefaultInv
    <3>4. CASE pc' = "ended" /\ (hitl \/ at = Len(seq))
      BY <3>1, <3>2, <3>3, <3>4 DEF DefaultInv
    <3>5. CASE pc' = "raised"
      BY <3>5 DEF DefaultInv
    <3>6. CASE pc' = "node"
      <4>1. at' = at + 1 /\ at' \in 1..6 /\ seq' = DefaultSequence
        BY <3>1, <3>2, <3>6
      <4>2. failures' = 0 => records' = IF at' > 3 THEN 1 ELSE 0
        BY <3>1, <3>2, <3>3, <4>1
      <4>3. ~hitl'
        BY <3>1, <3>6, ValidationIds DEF ReviewInv
      <4> QED
        BY <3>6, <4>1, <4>2, <4>3 DEF DefaultInv
    <3> QED
      BY <3>1, <3>4, <3>5, <3>6
  <2>6. CASE Finish
    BY <2>0, <2>6 DEF Finish, Settled, DefaultInv
  <2>7. CASE StoreRaises
    BY <2>7 DEF StoreRaises, RaisesOut, DefaultInv
  <2>8. CASE UNCHANGED vars
    BY <2>0, <2>8 DEF vars, inputs, DefaultInv
  <2> QED
    BY <2>1, <2>2, <2>3, <2>4, <2>5, <2>6, <2>7, <2>8 DEF Next
<1>3. (~given => DefaultInv) => DefaultPassRecords
  BY DEF DefaultInv, DefaultPassRecords, Returned
<1> QED
  BY <1>1, <1>2, <1>3, Typed, Reviewed, PTL DEF Spec

-----------------------------------------------------------------------------
(* The contract.                                                           *)

\* Every step of the graph is a step of the contract that RunLifecycle relies
\* on, or none: only the summary writes the row, failures are announced one at
\* a time, and an exception leaves the row failed.  (That a pass ends, the
\* other half of ImplementsPass, is a matter of fairness.)
THEOREM StepsOfPass == Spec => Pass!Init /\ [][Pass!Next]_(Pass!passVars)
<1>1. Init => Pass!Init
  BY DEF Init, Pass!Init
<1>2. [Next]_vars => [Pass!Next]_(Pass!passVars)
  <2> SUFFICES ASSUME [Next]_vars PROVE [Pass!Next]_(Pass!passVars)
    OBVIOUS
  <2>1. CASE Build
    BY <2>1 DEF Build, RaisesOut, Pass!Next, Pass!RaiseOut, Pass!passVars
  <2>2. CASE CheckSkip \/ SkipNode
    BY <2>2 DEF CheckSkip, SkipNode, Pass!passVars
  <2>3. CASE RunNode
    BY <2>3 DEF RunNode, Pass!Next, Pass!Node, Pass!passVars
  <2>4. CASE Edge
    BY <2>4 DEF Edge, RaisesOut, Pass!Next, Pass!RaiseOut, Pass!passVars
  <2>5. CASE Finish
    BY <2>5 DEF Finish, Pass!Next, Pass!Return, Pass!passVars
  <2>6. CASE StoreRaises
    BY <2>6 DEF StoreRaises, RaisesOut, Pass!Next, Pass!RaiseOut, Pass!passVars
  <2>7. CASE UNCHANGED vars
    BY <2>7 DEF vars, inputs, Pass!passVars
  <2> QED
    BY <2>1, <2>2, <2>3, <2>4, <2>5, <2>6, <2>7 DEF Next
<1> QED
  BY <1>1, <1>2, PTL DEF Spec
=============================================================================
