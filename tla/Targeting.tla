----------------------------- MODULE Targeting ------------------------------
(***************************************************************************)
(* From a tenant's ICP configurations to the action recommended for a      *)
(* company: the configurations and their editing (routes/icp.py), the runs *)
(* that carry one (routes/runs.py, routes/studio.py), what the web says of *)
(* the company (web_enricher.py), the semantic pre-score, and the agents   *)
(* of the default chain, any of which may fail.                            *)
(***************************************************************************)
EXTENDS Scoring, Sequences

CONSTANTS
  Keep,          (* rules_json is not in the body of a request             *)
  Companies,     (* companies a run may be about                           *)
  Seed,          (* company -> facts tasks.py knows before asking the web  *)
  Good,          (* company -> facts that satisfy a rule about them        *)
  People,        (* company -> number of people it is seeded with          *)
  Findings,      (* sets of facts a website may reveal                     *)
  RuleSets,      (* sets of keys a tenant writes into rules_json           *)
  Updates,       (* bodies of PUT and DELETE: a set of keys and is_active,  *)
                 (* either of which may be "keep"                          *)
  Extras,        (* what the Studio extracts or is overridden with: keys,   *)
                 (* those nested under rules_json or icp_rules, and a      *)
                 (* semantic_score, 0 if none                              *)
  Similarities,  (* scores of a search hit                                 *)
  Growths,       (* headcount growth since the previous run, in percent    *)
  Passes,        (* passes considered                                      *)
  Editors,       (* PUT and DELETE requests on configurations              *)
  MaxConfigs,    (* bound on the configurations                            *)
  MaxEvents      (* bound on edits, failing agents and stores, together    *)

ASSUME InputsAssumption ==
  /\ Companies # {} /\ People \in [Companies -> Nat]
  /\ \A c \in Companies : IsFiniteSet(Seed[c])
  /\ \A found \in Findings : IsFiniteSet(found)
  /\ {MaxConfigs, MaxEvents} \subseteq Nat /\ Growths \subseteq Int
  /\ \A s \in Similarities : s \in Nat /\ s <= One
  /\ \A x \in Extras :
       /\ x.given \in Int
       /\ x.given # 0 => "semantic_score" \in x.keys
       /\ x.nested # {} => x.keys \intersect {"rules_json", "icp_rules"} # {}

VARIABLES
  configs,    (* icp_configs of the tenant: rules_json, is_active          *)
  editor,     (* request -> its progress                                   *)
  graph,      (* companies in Neo4j, those of all tenants                  *)
  vectors,    (* companies in Qdrant, those of all tenants                 *)
  processed,  (* the tenant's processed set in Redis                       *)
  pass,       (* pass -> where it is, its inputs and the graph's state     *)
  events

vars == <<configs, editor, graph, vectors, processed, pass, events>>

Agents == {"trigger_monitor", "icp_scorer", "contact_enrichment",
           "persona_finder", "validation", "summary"}

\* The state of the graph before any agent has run: an agent that fails leaves
\* the defaults of state.get in place.
Idle ==
  [pc |-> "idle", via |-> "none", company |-> CHOOSE c \in Companies : TRUE,
   flat |-> {}, nested |-> {}, given |-> 0, facts |-> {}, blank |-> FALSE,
   growth |-> 0, fresh |-> FALSE, semantic |-> 0, trigger |-> 0,
   used |-> {}, score |-> 0, match |-> FALSE, people |-> 0, contacts |-> 0,
   quality |-> 0, passed |-> FALSE, hitl |-> FALSE, action |-> "none",
   failed |-> {}]

NoEdit == [pc |-> "idle", config |-> 1, wasActive |-> TRUE,
           body |-> [rules |-> Keep, active |-> "keep"]]

Init ==
  /\ configs = <<>> /\ editor = [e \in Editors |-> NoEdit]
  \* what earlier runs of this and of other tenants have left
  /\ graph \in {{}, Companies} /\ vectors \in {{}, Companies}
  /\ processed \in {{}, Companies}
  /\ pass = [p \in Passes |-> Idle]
  /\ events = 0

Event == events < MaxEvents /\ events' = events + 1

-----------------------------------------------------------------------------
(* Configurations.                                                         *)

NewConfig(rules) == [rules |-> rules, active |-> TRUE]
HasRoom == Len(configs) < MaxConfigs

\* Bound: later edits have no reader, the pass having loaded its rules.
BeforeScoring ==
  \A p \in Passes : pass[p].pc \in {"idle", "research", "prescore",
                                    "trigger_monitor", "icp_scorer"}

CreateIcp ==
  /\ HasRoom /\ BeforeScoring
  /\ \E rules \in RuleSets : configs' = Append(configs, NewConfig(rules))
  /\ UNCHANGED <<editor, graph, vectors, processed, pass, events>>

\* update_icp and delete_icp check that the configuration is the tenant's, ...
BeginEdit(e) ==
  /\ editor[e].pc = "idle" /\ BeforeScoring /\ Event
  /\ \E c \in DOMAIN configs, body \in Updates :
       editor' = [editor EXCEPT ![e] =
         [@ EXCEPT !.pc = "checked", !.config = c, !.body = body]]
  /\ UNCHANGED <<configs, graph, vectors, processed, pass>>

\* ... repo.update loads it again ...
LoadEdit(e) ==
  /\ editor[e].pc = "checked" /\ BeforeScoring
  /\ editor' = [editor EXCEPT ![e].pc = "loaded",
                              ![e].wasActive = configs[editor[e].config].active]
  /\ UNCHANGED <<configs, graph, vectors, processed, pass, events>>

\* Mutant: the UPDATE writes the whole row back as it was loaded.
ActiveWhole(e, old) ==
  LET asked == editor[e].body.active IN
  IF asked = "keep" THEN editor[e].wasActive ELSE asked = "on"

\* The columns that differ from those loaded are written: is_active only when
\* the request changes it.
ActiveAfter(e, old) ==
  LET asked == editor[e].body.active IN
  IF asked = "keep" \/ (asked = "on") = editor[e].wasActive
  THEN old ELSE asked = "on"

\* ... and commits.
CommitEdit(e) ==
  LET body == editor[e].body IN
  /\ editor[e].pc = "loaded" /\ BeforeScoring
  /\ configs' = [configs EXCEPT ![editor[e].config] =
       [rules  |-> IF body.rules = Keep THEN @.rules ELSE body.rules,
        active |-> ActiveAfter(e, @.active)]]
  /\ editor' = [editor EXCEPT ![e] = [NoEdit EXCEPT !.pc = "answered"]]
  /\ UNCHANGED <<graph, vectors, processed, pass, events>>

Edit(e) == BeginEdit(e) \/ LoadEdit(e) \/ CommitEdit(e)

-----------------------------------------------------------------------------
(* Creating a run.                                                         *)

\* create_run nests the rules of the configuration under icp_rules.  The check
\* does not ask whether it is active.
CreateRun(p) ==
  /\ pass[p].pc = "idle"
  /\ \E c \in DOMAIN configs, company \in Companies :
       pass' = [pass EXCEPT ![p] =
         [@ EXCEPT !.pc = "research", !.via = "runs", !.company = company,
                   !.flat = {"force"}, !.nested = configs[c].rules]]
  /\ UNCHANGED <<configs, editor, graph, vectors, processed, events>>

\* execute_workflow passes what it has merged as it is, and stores it as a new
\* active configuration of the tenant.  An override may nest rules, or bring a
\* semantic score along.  (One of "force" is CompanyMemory's subject, and one of
\* company_domain only chooses another company.)
ExecuteWorkflow(p) ==
  /\ pass[p].pc = "idle" /\ HasRoom
  /\ \E extras \in Extras, company \in Companies :
       /\ pass' = [pass EXCEPT ![p] =
            [@ EXCEPT !.pc = "research", !.via = "studio",
                      !.company = company, !.given = extras.given,
                      !.flat = {"force"} \union extras.keys,
                      !.nested = extras.nested]]
       /\ configs' = Append(configs, NewConfig({"force"} \union extras.keys))
  /\ UNCHANGED <<editor, graph, vectors, processed, events>>

-----------------------------------------------------------------------------
(* The pass.                                                               *)

\* enrich_company_from_web: without the site the seed is all there is; with it
\* the country has a default and an industry not found is "", or None if the
\* language model answered null.  The people are the seed's.
Research(p) ==
  LET seed == Seed[pass[p].company] IN
  /\ pass[p].pc = "research"
  /\ \E found \in Findings \union {{}}, blank \in BOOLEAN :
       /\ blank => found # {}
       /\ pass' = [pass EXCEPT ![p] =
            [@ EXCEPT !.pc = "prescore", !.blank = blank,
                      !.people = People[pass[p].company],
                      !.facts = IF found = {} THEN seed
                                ELSE seed \union found \union {"hq_country"}]]
  /\ UNCHANGED <<configs, editor, graph, vectors, processed, events>>

\* Mutant: companies already processed are candidates too.
CandidateAlways(company) == company \in vectors

\* find_icp_candidates: a hit of the vector store that the tenant has not
\* processed.  The graph's answer is fetched and not used.
Candidate(company) == company \in vectors /\ company \notin processed

\* find_similar_companies: the points of all tenants.  The filters compare what
\* was known of the company when it was recorded, and of those that pass only
\* the first fifty are hits.
Hits(company) ==
  IF Candidate(company) THEN Similarities \union {0} ELSE {0}

\* _check_skip_node: force is set by both routes, so that no company is
\* skipped.  Only a flat description is searched for; who is no candidate
\* scores 0.
PreScore(p) ==
  LET company == pass[p].company IN
  /\ pass[p].pc = "prescore"
  /\ \E growth \in IF company \in graph THEN Growths ELSE {0},
        semantic \in IF "description" \in pass[p].flat THEN Hits(company)
                     ELSE {0} :
       pass' = [pass EXCEPT ![p] =
         [@ EXCEPT !.pc = "trigger_monitor", !.growth = growth,
                   !.fresh = company \notin processed,
                   !.semantic = semantic]]
  /\ UNCHANGED <<configs, editor, graph, vectors, processed, events>>

\* record_company_enriched: one write per store, each of which may fail by
\* itself; that is logged and nothing else.
Record(company, written) ==
  /\ graph'     = graph \union {c \in {company} : "neo4j" \in written}
  /\ vectors'   = vectors \union {c \in {company} : "qdrant" \in written}
  /\ processed' = processed \union {c \in {company} : "redis" \in written}

Stores == {"neo4j", "qdrant", "redis"}

\* BaseAgent.run: an exception leaves the outputs unset.  The enrichment may
\* have recorded the company by then.
Fails(p, agent, next) ==
  /\ pass[p].pc = agent /\ Event
  /\ pass' = [pass EXCEPT ![p].pc = next, ![p].failed = @ \union {agent}]
  /\ \E written \in IF agent = "contact_enrichment" THEN SUBSET Stores
                    ELSE {{}} : Record(pass[p].company, written)
  /\ UNCHANGED <<configs, editor>>

TriggerMonitor(p) ==
  /\ pass[p].pc = "trigger_monitor"
  /\ pass' = [pass EXCEPT ![p] =
       [@ EXCEPT !.pc = "icp_scorer", !.trigger =
           TriggerScore(pass[p].facts, pass[p].growth)]]
  /\ UNCHANGED <<configs, editor, graph, vectors, processed, events>>

ActiveRules == {configs[c].rules : c \in {c \in DOMAIN configs :
                                            configs[c].active}}

\* Mutant: the two forms are merged before the table is asked.
RulesMerged(p) == {pass[p].nested \union pass[p].flat}

\* The rules scored by: nested, flat with a scoring key, or those of one of the
\* tenant's active configurations, whichever the query returns first.
RulesFor(p) ==
  IF pass[p].nested # {} THEN {pass[p].nested}
  ELSE IF pass[p].flat \intersect RuleKeys # {} THEN {pass[p].flat}
  ELSE IF ActiveRules # {} THEN ActiveRules ELSE {{}}

\* company_data's semantic_score, else the one the configuration came with.
Similarity(s) == IF s.semantic # 0 THEN s.semantic ELSE s.given

\* IcpScoreModel accepts no score outside the unit interval.
IcpScorer(p) ==
  LET s == pass[p] IN
  /\ s.pc = "icp_scorer"
  /\ \E keys \in RulesFor(p) :
       LET score == IcpScore(keys, s.facts, Good[s.company], s.blank,
                             Similarity(s))
       IN  pass' = [pass EXCEPT ![p] =
             IF Raises(keys, s.facts, s.blank) \/ score \notin 0..One
             THEN [s EXCEPT !.pc = "contact_enrichment", !.used = keys,
                            !.failed = @ \union {"icp_scorer"}]
             ELSE [s EXCEPT !.pc = "contact_enrichment", !.used = keys,
                            !.score = score, !.match = IsMatch(keys, score)]]
  /\ UNCHANGED <<configs, editor, graph, vectors, processed, events>>

\* The agent goes on whichever of the writes failed.
ContactEnrichment(p) ==
  LET s == pass[p] IN
  /\ s.pc = "contact_enrichment"
  /\ \E written \in SUBSET Stores :
       /\ Record(s.company, written)
       /\ IF written = Stores THEN UNCHANGED events ELSE Event
  /\ pass' = [pass EXCEPT ![p] =
       [@ EXCEPT !.pc = "persona_finder", !.contacts = s.people,
                 !.quality = Quality(s.facts, s.people)]]
  /\ UNCHANGED <<configs, editor>>

\* The people with an e-mail address stay: all of them.
PersonaFinder(p) ==
  /\ pass[p].pc = "persona_finder"
  /\ pass' = [pass EXCEPT ![p].pc = "validation"]
  /\ UNCHANGED <<configs, editor, graph, vectors, processed, events>>

Validation(p) ==
  LET s      == pass[p]
      issues == Issues(s.score, s.match, s.trigger, s.people, s.quality)
      hitl   == NeedsHuman(issues, s.score)
  IN
  /\ s.pc = "validation"
  /\ pass' = [pass EXCEPT ![p] =
       [@ EXCEPT !.pc = IF hitl THEN "ended" ELSE "summary",
                 !.passed = Passed(issues, s.score), !.hitl = hitl]]
  /\ UNCHANGED <<configs, editor, graph, vectors, processed, events>>

Summary(p) ==
  LET s == pass[p] IN
  /\ s.pc = "summary"
  /\ pass' = [pass EXCEPT ![p] =
       [@ EXCEPT !.pc = "ended",
                 !.action = RecommendedAction(s.score, s.passed, s.contacts,
                                              s.hitl)]]
  /\ UNCHANGED <<configs, editor, graph, vectors, processed, events>>

AgentFails(p) ==
  \/ Fails(p, "trigger_monitor", "icp_scorer")
  \/ Fails(p, "icp_scorer", "contact_enrichment")
  \/ Fails(p, "contact_enrichment", "persona_finder")
  \/ Fails(p, "persona_finder", "validation")
  \/ Fails(p, "validation", "summary")
  \/ Fails(p, "summary", "ended")

\* Redis loses the processed set.
FlushRedis ==
  /\ Event /\ processed # {} /\ processed' = {}
  /\ UNCHANGED <<configs, editor, graph, vectors, pass>>

Pass(p) ==
  \/ CreateRun(p) \/ ExecuteWorkflow(p) \/ Research(p) \/ PreScore(p)
  \/ TriggerMonitor(p) \/ IcpScorer(p) \/ ContactEnrichment(p)
  \/ PersonaFinder(p) \/ Validation(p) \/ Summary(p) \/ AgentFails(p)

Next == \/ CreateIcp
        \/ \E e \in Editors : Edit(e)
        \/ \E p \in Passes : Pass(p)
        \/ FlushRedis

Spec == Init /\ [][Next]_vars

-----------------------------------------------------------------------------
(* Properties.                                                             *)

Actions == {"none", "outreach", "nurture", "disqualify"}

\* Every variable keeps its type, and no score leaves the unit interval.
TypeOK ==
  /\ \A c \in DOMAIN configs : configs[c].active \in BOOLEAN
  /\ Len(configs) <= MaxConfigs
  /\ graph \union vectors \union processed \subseteq Companies
  /\ events \in 0..MaxEvents
  /\ \A p \in Passes :
       /\ pass[p].trigger \in 0..One /\ pass[p].score \in 0..One
       /\ pass[p].quality \in 0..One /\ pass[p].semantic \in 0..One
       /\ pass[p].action \in Actions /\ pass[p].failed \subseteq Agents

\* "outreach" is recommended only to a Studio run, for a company with a contact,
\* and only when neither the scorer nor the enrichment nor the validation has
\* failed.  At least 0.20 of its score is semantic, which rules never make up
\* for: either the search for a description found the company among those of
\* the vector store, not in the tenant's processed set when the run began, or
\* the request brought a semantic score.  A run created through POST /runs never
\* gets there, whatever the company: what its configuration says stays nested
\* where neither is looked for, and the rules alone give 0.60.
OutreachIsEarned ==
  \A p \in Passes : pass[p].action = "outreach" =>
    /\ pass[p].via = "studio"
    /\ SemanticPart(Similarity(pass[p])) >= 2000
    /\ \/ pass[p].given > 0
       \/ /\ pass[p].semantic > 0
          /\ "description" \in pass[p].flat /\ pass[p].fresh
    /\ pass[p].contacts > 0
    /\ pass[p].failed \subseteq {"trigger_monitor", "persona_finder"}

\* The outcome of a run created through POST /runs whose agents all succeed: it
\* is disqualified as soon as one evaluated rule is missed, or when the rules
\* hold none, however many others match; a company that meets them all is
\* nurtured, or reviewed if there is anything to object to.
OneMissDisqualifies ==
  \A p \in Passes :
    LET s      == pass[p]
        rules  == Evaluated(s.used)
        missed == rules # Matched(s.used, s.facts, Good[s.company], s.blank)
        issues == Issues(s.score, s.match, s.trigger, s.people, s.quality)
    IN  s.pc = "ended" /\ s.via = "runs" /\ s.failed = {} =>
          /\ s.action = "disqualify" <=> s.used # {} /\ (missed \/ rules = {})
          /\ s.action = "none" <=> s.action # "disqualify" /\ issues # {}

\* A deleted configuration is active again only through a request that asks for
\* it: an update of other columns that had loaded the row before the deletion
\* does not bring it back.
DeletedStaysDeleted ==
  [][ \A c \in DOMAIN configs :
        ~configs[c].active /\ configs'[c].active =>
          \E e \in Editors : /\ editor[e].pc = "loaded"
                             /\ editor[e].config = c
                             /\ editor[e].body.active = "on" ]_vars

\* A run asked for with rules, nested or flat, is scored by those it was created
\* with, the nested ones first, however the table is edited while it waits; one
\* without scoring keys by rules that some active configuration holds, or by
\* none.
OwnRulesFirst ==
  [][ \A p \in Passes : pass[p].pc = "icp_scorer" /\ pass'[p].used # {} =>
        \/ pass'[p].used = pass[p].nested
        \/ pass[p].nested = {} /\ pass'[p].used = pass[p].flat
        \/ /\ pass[p].nested = {} /\ pass[p].flat \intersect RuleKeys = {}
           /\ pass'[p].used \in ActiveRules ]_vars
=============================================================================
