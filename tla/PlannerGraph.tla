---------------------------- MODULE PlannerGraph ----------------------------
(***************************************************************************)
(* PlannerAgent.run for one company: the graph built from the user's       *)
(* selection of agents, its nodes and conditional edges, and what is left  *)
(* behind in the stores when it returns or raises.                         *)
(*                                                                         *)
(* What an agent computes is abstracted to its outcome: the status it      *)
(* returns, the writes it has made by then (an agent may raise between two *)
(* writes) and, for validation, whether a human has to review.             *)
(***************************************************************************)
EXTENDS Naturals, Sequences, SequencesExt

CONSTANTS
  Selections,  (* the selected_agents lists considered: sequences of ids   *)
  CustomIds    (* ids of the workers/*.json agents; one equal to a core id *)
               (* would replace that agent, and is left out                *)

CoreIds == {"trigger_monitor", "company_icp_agent", "icp_scorer",
            "contact_enrichment", "persona_finder", "validation_agent",
            "validation", "summary_agent", "summary"}

ASSUME CustomIdsAssumption == CustomIds \intersect CoreIds = {}

ASSUME SelectionsAssumption == Selections \subseteq Seq(STRING)

KnownIds == CoreIds \union CustomIds

\* agent.agent_name of the agent an id stands for: three ids are aliases.
AgentName(id) ==
  CASE id = "company_icp_agent" -> "icp_scorer"
    [] id = "validation_agent"  -> "validation"
    [] id = "summary_agent"     -> "summary"
    [] OTHER                    -> id

DefaultSequence == <<"trigger_monitor", "icp_scorer", "contact_enrichment",
                     "persona_finder", "validation", "summary">>

VARIABLES
  given,     (* selected_agents is a list, not None                        *)
  selected,  (* the list; <<>> when it is None                             *)
  force,     (* icp_config["force"]                                        *)
  processed, (* what should_skip_company would answer                      *)
  pc,        (* where PlannerAgent.run is                                  *)
  seq,       (* the graph's chain of agent nodes                           *)
  at,        (* position in seq of the current node                        *)
  status,    (* state["status"]                                            *)
  hitl,      (* state["hitl_required"]                                     *)
  ran,       (* history: positions whose agent executed                    *)
  failures,  (* run_failed events published                                *)
  items,     (* hitl_queue rows created                                    *)
  records,   (* record_company_enriched calls                              *)
  row        (* status of the agent_runs row                               *)

inputs == <<given, selected, force, processed>>
vars   == <<given, selected, force, processed, pc, seq, at, status, hitl,
            ran, failures, items, records, row>>

-----------------------------------------------------------------------------
(* The agents.                                                             *)

Outcome(st, review, does, announced) ==
  [status |-> st, hitl |-> review, does |-> does, announced |-> announced]

\* BaseAgent.run turns an exception into status "failed" and a run_failed
\* event; "does" are the writes made before the exception.
Fails(does) == Outcome("failed", "keep", does, TRUE)

\* TriggerMonitor, IcpScorer, PersonaFinder: their writes are not followed here.
PlainOutcomes == { Outcome("running", "keep", {}, FALSE), Fails({}) }

\* ContactEnrichment records the company, then returns.
EnrichmentOutcomes ==
  { Outcome("running", "keep", {"record"}, FALSE),
    Fails({}), Fails({"record"}) }

\* Validation inserts the review item, then the audit entry, which may raise.
ValidationOutcomes ==
  { Outcome("running", "no", {}, FALSE),
    Outcome("awaiting_hitl", "yes", {"item"}, FALSE),
    Fails({}), Fails({"item"}) }

\* Summary updates the row, then appends the audit entry, which may raise.
SummaryOutcomes ==
  { Outcome("completed", "keep", {"row"}, FALSE),
    Fails({}), Fails({"row"}) }

\* CustomWorkerAgent catches the exceptions of the worker it imports; only the
\* publish of agent_completed makes BaseAgent.run announce a failure.
CustomOutcomes ==
  { Outcome("completed", "keep", {}, FALSE),
    Outcome("failed", "keep", {}, FALSE), Fails({}) }

OutcomesOf(name) ==
  CASE name = "contact_enrichment" -> EnrichmentOutcomes
    [] name = "validation"         -> ValidationOutcomes
    [] name = "summary"            -> SummaryOutcomes
    [] name \in {"trigger_monitor", "icp_scorer", "persona_finder"}
                                   -> PlainOutcomes
    [] OTHER                       -> CustomOutcomes

\* What an agent leaves in the stores besides the row.
Leaves(does) ==
  /\ items' = IF "item" \in does THEN items + 1 ELSE items
  /\ records' = IF "record" \in does THEN records + 1 ELSE records

\* Mutant: None is taken for an empty list.
SkippedUnlessListed(id) == AgentName(id) \notin ToSet(selected)

\* The node returns {} unless the user's list holds the agent's own name.
SkippedByUser(id) == given /\ AgentName(id) \notin ToSet(selected)

-----------------------------------------------------------------------------
Init ==
  /\ given \in BOOLEAN
  /\ selected \in IF given THEN Selections ELSE {<<>>}
  /\ force \in BOOLEAN /\ processed \in BOOLEAN
  /\ pc = "build" /\ seq = <<>> /\ at = 0
  /\ status = "running" /\ hitl = FALSE
  /\ ran = {} /\ failures = 0 /\ items = 0 /\ records = 0
  /\ row = "running"

\* Mutant: the except branch only re-raises.
RaisesUnmarked(why) == pc' = why /\ UNCHANGED row

\* An exception leaves the graph: the except branch marks the row failed and
\* re-raises.  It is the graph's own ("raised") or a store's ("aborted").
RaisesOut(why) == pc' = why /\ row' = "failed"

\* Mutant: unknown ids are kept.
EveryId(list) == list

\* The selected ids that name an agent.
KnownOf(list) ==
  FlattenSeq([i \in DOMAIN list |->
                IF list[i] \in KnownIds THEN <<list[i]>> ELSE <<>>])

\* build_planner_graph: a repeated id (add_node) and a list of unknown ids only
\* (compile: the first node "summary" does not exist) are errors.
Build ==
  /\ pc = "build"
  /\ seq' = IF selected # <<>>
            THEN KnownOf(selected) ELSE DefaultSequence
  /\ IF seq' = <<>> \/ ~IsInjective(seq')
     THEN RaisesOut("raised")
     ELSE pc' = "skip" /\ UNCHANGED row
  /\ UNCHANGED <<inputs, at, status, hitl, ran, failures, items, records>>

\* _check_skip_node and the conditional edge after it.
CheckSkip ==
  /\ pc = "skip"
  /\ IF selected = <<>> /\ ~force /\ processed
     THEN pc' = "ended" /\ status' = "skipped" /\ UNCHANGED at
     ELSE pc' = "node"  /\ status' = "running" /\ at' = 1
  /\ UNCHANGED <<inputs, seq, hitl, ran, failures, items, records, row>>

\* A node whose agent the user did not select.
SkipNode ==
  /\ pc = "node" /\ SkippedByUser(seq[at])
  /\ pc' = "edge"
  /\ UNCHANGED <<inputs, seq, at, status, hitl, ran, failures, items,
                 records, row>>

\* A node that executes its agent.
RunNode ==
  /\ pc = "node" /\ ~SkippedByUser(seq[at])
  /\ \E o \in OutcomesOf(AgentName(seq[at])) :
       /\ status' = o.status
       /\ hitl' = IF o.hitl = "keep" THEN hitl ELSE o.hitl = "yes"
       /\ failures' = IF o.announced THEN failures + 1 ELSE failures
       /\ Leaves(o.does)
       /\ row' = IF "row" \in o.does THEN "completed" ELSE row
  /\ ran' = ran \union {at}
  /\ pc' = "edge"
  /\ UNCHANGED <<inputs, seq, at>>

\* Mutant: the Studio's id of the validation agent is forgotten.
IsValidationByName(id) == id = "validation"

IsValidation(id) == id \in {"validation", "validation_agent"}

\* Mutant: a fixed route.
RouteToSummary == "summary"

\* _route_after_val_dynamic returns the variable nxt of the enclosing function,
\* which after the loop names the last agent of the sequence.
RouteAfterValidation == seq[Len(seq)]

\* The edges of the chain.  A route that is not in the conditional edge's own
\* path map, {"end_hitl", next node}, is a KeyError inside ainvoke.
Edge ==
  /\ pc = "edge"
  /\ \/ /\ at = Len(seq)
        /\ pc' = "ended" /\ UNCHANGED <<at, row>>
     \/ /\ at < Len(seq)
        /\ IsValidation(seq[at]) /\ hitl
        /\ pc' = "ended" /\ UNCHANGED <<at, row>>
     \/ /\ at < Len(seq)
        /\ IsValidation(seq[at]) /\ ~hitl
        /\ RouteAfterValidation # seq[at + 1]
        /\ RaisesOut("raised") /\ UNCHANGED at
     \/ /\ at < Len(seq)
        /\ IsValidation(seq[at]) =>
             ~hitl /\ RouteAfterValidation = seq[at + 1]
        /\ pc' = "node" /\ at' = at + 1 /\ UNCHANGED row
  /\ UNCHANGED <<inputs, seq, status, hitl, ran, failures, items, records>>

\* Mutant: a completed pass is not recognised.
SettledTooFew == {"failed", "skipped"}

\* The statuses after which the planner needs no fallback record.
Settled == {"completed", "failed", "skipped"}

\* ainvoke has returned: the fallback record, then return.
Finish ==
  /\ pc = "ended"
  /\ records' = IF status \in Settled THEN records ELSE records + 1
  /\ pc' = "returned"
  /\ UNCHANGED <<inputs, seq, at, status, hitl, ran, failures, items, row>>

\* A store is down outside an agent's try block: in check_skip, in the publish
\* of agent_started, or in that of run_failed, when the agent's writes have been
\* made.  (record_company_enriched never raises.)
StoreRaises ==
  /\ \/ pc = "skip" /\ UNCHANGED <<items, records, ran>>
     \/ /\ pc = "node" /\ ~SkippedByUser(seq[at])
        /\ \E o \in OutcomesOf(AgentName(seq[at])) :
             o.announced /\ Leaves(o.does)
        /\ ran' = ran \union {at}
  /\ RaisesOut("aborted")
  /\ UNCHANGED <<inputs, seq, at, status, hitl, failures>>

Next == \/ Build \/ CheckSkip \/ SkipNode \/ RunNode \/ Edge \/ Finish
        \/ StoreRaises

Spec == Init /\ [][Next]_vars

\* The coroutine is the only thread of its event loop and every await ends.
FairSpec == Spec /\ WF_vars(Next)

-----------------------------------------------------------------------------
(* Properties.                                                             *)

Returned == pc = "returned"

\* Every variable keeps its type.
TypeOK ==
  /\ given \in BOOLEAN /\ force \in BOOLEAN /\ processed \in BOOLEAN
  /\ pc \in {"build", "skip", "node", "edge", "ended", "returned", "raised",
             "aborted"}
  /\ seq \in Seq(KnownIds)
  /\ at \in 0..Len(seq)
  /\ status \in {"running", "completed", "failed", "skipped",
                 "awaiting_hitl"}
  /\ hitl \in BOOLEAN
  /\ ran \subseteq 1..Len(seq)
  /\ failures \in 0..Len(seq)
  /\ items \in Nat /\ records \in Nat
  /\ row \in {"running", "completed", "failed"}

\* A summary never decides for a company whose review item was just queued,
\* in whatever order the user put the agents, unless an agent failed: the
\* validation that raised after its INSERT leaves an orphan item behind.
NoDecisionBehindReview ==
  [][ row # "completed" /\ row' = "completed" /\ items > 0
        => failures > 0 ]_vars

\* Once validation has asked for a human, no later agent of the chain runs.
ReviewEndsChain ==
  hitl => AgentName(seq[at]) = "validation" /\ \A i \in ran : i <= at

\* The lists build_planner_graph and its edges can run: at least one known id,
\* none twice, and at most one agent after a validation.
Runnable(list) ==
  LET known == KnownOf(list) IN
  /\ known # <<>> /\ IsInjective(known)
  /\ \A i \in 1..Len(known) - 2 : ~IsValidation(known[i])

\* With the stores up, only a list that is not Runnable makes the run fail:
\* None, the empty list and every Runnable list end normally, however many
\* agents raise.
RunnableReturns ==
  pc = "raised" => given /\ selected # <<>> /\ ~Runnable(selected)

\* What a pass of the default chain leaves when no agent fails: nothing if the
\* company is skipped, one record normally, and two if the pass stopped for a
\* review, because the fallback takes awaiting_hitl for "not yet written".
DefaultPassRecords ==
  Returned /\ ~given /\ failures = 0
    => records = (CASE status = "skipped"       -> 0
                    [] status = "awaiting_hitl" -> 2
                    [] status = "completed"     -> 1)

\* The pass implements what RunLifecycle assumes of it.
Pass == INSTANCE CompanyPass
          WITH phase <- CASE pc = "returned"               -> "returned"
                          [] pc \in {"raised", "aborted"}  -> "raised"
                          [] OTHER                         -> "graph"
ImplementsPass == Pass!Spec

\* A pass that returns without a review has run exactly the agents of its chain
\* whose own name the user's list holds, all of them for None: no edge jumps an
\* agent and no failure ends the chain early, but an agent selected under one
\* of the three aliases is passed over, and the empty list runs none of six.
SelectionDecides ==
  Returned /\ ~hitl /\ status # "skipped"
    => ran = {i \in 1..Len(seq) :
                given => AgentName(seq[i]) \in ToSet(selected)}
=============================================================================
