--------------------------- MODULE CompanyMemory ----------------------------
(***************************************************************************)
(* MemoryManager for ONE company: should_skip_company and                  *)
(* record_company_enriched over the four stores, called by concurrent      *)
(* pipeline passes of several tenants.                                     *)
(*                                                                         *)
(* A store's content is the set of <<write, tenant>> it has received.      *)
(* Neo4j and Qdrant key the company by its domain only: there the tenant   *)
(* is a history the code cannot read.  Every Neo4j write MERGEs the        *)
(* Company node.                                                           *)
(***************************************************************************)
EXTENDS Naturals, Sequences, SequencesExt

CONSTANTS
  Tenants,
  Passes,     (* concurrent PlannerAgent runs on the company               *)
  Others,     (* the stores that take one write and that no check reads:   *)
              (* Qdrant and Postgres                                       *)
  MaxMishaps  (* Bound: calls that raise and workers that die; Redis may   *)
              (* restart empty any number of times                         *)

Stores == {"neo4j", "redis"} \union Others

GraphWrites == {"signal", "company", "targets"}
RedisWrites == {"mark", "summary"}
Writes      == GraphWrites \union RedisWrites \union Others
NoWork      == [s \in Stores |-> <<>>]

ASSUME MishapsAssumption == MaxMishaps \in Nat

ASSUME OthersAssumption ==
  Others \intersect ({"neo4j", "redis"} \union GraphWrites \union RedisWrites)
    = {}

\* The coroutines record_company_enriched gathers; the persons and signals
\* written between company and targets only MERGE the node again, and the one
\* write of another store bears its name.
Program ==
  [s \in Stores |-> CASE s = "neo4j"  -> <<"company", "targets">>
                      [] s = "redis"  -> <<"mark", "summary">>
                      [] s \in Others -> <<s>>]

VARIABLES
  stored,  (* the <<write, tenant>> pairs the stores hold                  *)
  tenant,  (* tenant[p]: on whose behalf p runs, always the same           *)
  pc,      (* pc[p]: where pass p is                                       *)
  todo,    (* todo[p][s]: the writes s has still to receive from p         *)
  failed,  (* failed[p]: stores whose coroutine raised in p's last record  *)
  mustSkip,(* history: p checks, and the node existed when it began        *)
  spoilt,  (* history: tenants one of whose records missed Neo4j           *)
  mishaps  (* how many there have been                                     *)

history == <<mustSkip, spoilt, mishaps>>
vars    == <<stored, tenant, pc, todo, failed, mustSkip, spoilt, mishaps>>

Mishap    == mishaps < MaxMishaps /\ mishaps' = mishaps + 1
Node      == \E t \in Tenants, w \in GraphWrites : <<w, t>> \in stored
Marked(t) == <<"mark", t>> \in stored
Put(p, w) == stored' = stored \union {<<w, tenant[p]>>}
Goto(p, next) == pc' = [pc EXCEPT ![p] = next]

Over    == {"over", "skipped"}   \* not begun, ended, failed or dead; skipped
Working == {"agents", "recording", "recorded"}

Init ==
  /\ stored = {}
  /\ tenant \in [Passes -> Tenants]
  /\ pc = [p \in Passes |-> "over"]
  /\ todo = [p \in Passes |-> NoWork]
  /\ failed = [p \in Passes |-> {}]
  /\ spoilt = {} /\ mishaps = 0
  /\ mustSkip = [p \in Passes |-> FALSE]

-----------------------------------------------------------------------------
\* _check_skip_node: no check when the run is forced, or names its agents.
Begin(p) ==
  /\ pc[p] \in Over
  /\ \/ Goto(p, "redis")  /\ mustSkip' = [mustSkip EXCEPT ![p] = Node]
     \/ Goto(p, "agents") /\ mustSkip' = [mustSkip EXCEPT ![p] = FALSE]
  /\ UNCHANGED <<stored, tenant, todo, failed, spoilt, mishaps>>

\* is_company_processed(tenant, domain).
CheckRedis(p) ==
  /\ pc[p] = "redis"
  /\ Goto(p, IF Marked(tenant[p]) THEN "skipped" ELSE "graph")
  /\ UNCHANGED <<stored, tenant, todo, failed, history>>

\* Mutants: no fallback to Neo4j; a back-fill that does not look at its answer.
CheckGraphNever(p) ==
  /\ pc[p] = "graph"
  /\ Goto(p, "agents")
  /\ UNCHANGED <<stored, tenant, todo, failed, history>>

CheckGraphAlways(p) ==
  /\ pc[p] = "graph"
  /\ Goto(p, "backfill")
  /\ UNCHANGED <<stored, tenant, todo, failed, history>>

\* company_exists(domain).
CheckGraph(p) ==
  /\ pc[p] = "graph"
  /\ Goto(p, IF Node THEN "backfill" ELSE "agents")
  /\ UNCHANGED <<stored, tenant, todo, failed, history>>

\* mark_company_processed, and the pass skips.
Backfill(p) ==
  /\ pc[p] = "backfill"
  /\ Put(p, "mark")
  /\ Goto(p, "skipped")
  /\ UNCHANGED <<tenant, todo, failed, history>>

\* TriggerMonitor.add_signal or PersonaFinder.upsert_person, before any record.
AgentWrites(p) ==
  /\ pc[p] \in {"agents", "recorded"}
  /\ Put(p, "signal")
  /\ UNCHANGED <<tenant, pc, todo, failed, history>>

\* record_company_enriched: by ContactEnrichment, or the planner's fallback.
Record(p) ==
  /\ pc[p] \in {"agents", "recorded"}
  /\ Goto(p, "recording")
  /\ todo' = [todo EXCEPT ![p] = Program]
  /\ failed' = [failed EXCEPT ![p] = {}]
  /\ UNCHANGED <<stored, tenant, history>>

Write(p, s) ==
  /\ pc[p] = "recording" /\ todo[p][s] # <<>>
  /\ Put(p, Head(todo[p][s]))
  /\ todo' = [todo EXCEPT ![p][s] = Tail(@)]
  /\ UNCHANGED <<tenant, pc, failed, history>>

\* A record that gives up Neo4j before its first write is remembered.
Spoils(p) == IF todo[p]["neo4j"] = Program["neo4j"] /\ ~Node
             THEN spoilt \union {tenant[p]} ELSE spoilt

\* Mutant: gather without return_exceptions, the other coroutines cancelled.
AbandonedAll(p, s) == [todo EXCEPT ![p] = NoWork]

Abandoned(p, s) == [todo EXCEPT ![p][s] = <<>>]

\* A coroutine raises, its write applied or not; the others are not cancelled.
WriteFails(p, s) ==
  /\ Mishap
  /\ pc[p] = "recording" /\ todo[p][s] # <<>>
  /\ Put(p, Head(todo[p][s])) \/ UNCHANGED stored
  /\ todo' = Abandoned(p, s)
  /\ failed' = [failed EXCEPT ![p] = @ \union {s}]
  /\ spoilt' = IF s = "neo4j" THEN Spoils(p) ELSE spoilt
  /\ UNCHANGED <<tenant, pc, mustSkip>>

\* Mutant: the record does not wait for its coroutines.
JoinEarly(p) ==
  /\ pc[p] = "recording"
  /\ Goto(p, "recorded")
  /\ UNCHANGED <<stored, tenant, todo, failed, history>>

\* gather returns when every coroutine has; failures are only logged.
Join(p) ==
  /\ pc[p] = "recording" /\ todo[p] = NoWork
  /\ Goto(p, "recorded")
  /\ UNCHANGED <<stored, tenant, todo, failed, history>>

\* The graph ends, with or without a record.
End(p) ==
  /\ pc[p] \in {"agents", "recorded"}
  /\ Goto(p, "over")
  /\ failed' = [failed EXCEPT ![p] = {}]
  /\ UNCHANGED <<stored, tenant, todo, history>>

\* A store call outside the gather raises out of the pass; the write of the
\* back-fill may have been applied.
Raise(p) ==
  /\ Mishap
  /\ pc[p] \in {"redis", "graph", "backfill", "agents"}
  /\ UNCHANGED stored \/ (pc[p] = "backfill" /\ Put(p, "mark"))
  /\ Goto(p, "over")
  /\ UNCHANGED <<tenant, todo, failed, mustSkip, spoilt>>

\* The worker dies; a redelivered task is another pass.
Die(p) ==
  /\ Mishap
  /\ pc[p] \notin Over
  /\ Goto(p, "over")
  /\ todo' = [todo EXCEPT ![p] = NoWork]
  /\ failed' = [failed EXCEPT ![p] = {}]
  /\ spoilt' = Spoils(p)
  /\ UNCHANGED <<stored, tenant, mustSkip>>

\* Redis restarts and has persisted nothing.
Flush ==
  /\ \E e \in stored : e[1] \in RedisWrites
  /\ stored' = {e \in stored : e[1] \notin RedisWrites}
  /\ UNCHANGED <<tenant, pc, todo, failed, history>>

Step(p) ==
  \/ Begin(p) \/ CheckRedis(p) \/ CheckGraph(p) \/ Backfill(p)
  \/ AgentWrites(p) \/ Record(p) \/ Join(p) \/ End(p) \/ Raise(p) \/ Die(p)
  \/ \E s \in Stores : Write(p, s) \/ WriteFails(p, s)

Next == Flush \/ \E p \in Passes : Step(p)

Spec == Init /\ [][Next]_vars

-----------------------------------------------------------------------------
\* Every variable keeps its type; writes remain to be made only while a record
\* is being written.
TypeOK ==
  /\ stored \subseteq Writes \X Tenants
  /\ tenant \in [Passes -> Tenants]
  /\ mustSkip \in [Passes -> BOOLEAN] /\ spoilt \subseteq Tenants
  /\ mishaps \in 0..MaxMishaps
  /\ pc \in [Passes -> Over \union Working \union {"redis", "graph",
                                                   "backfill"}]
  /\ todo \in [Passes -> [Stores -> Seq(Writes)]]
  /\ failed \in [Passes -> SUBSET Stores]
  /\ \A p \in Passes : pc[p] # "recording" => todo[p] = NoWork

\* Once the company is in Neo4j, no check that begins later lets a pass work on
\* it, whichever tenant asks, even if Redis is flushed between any two steps of
\* the check and whatever stores fail meanwhile.
KnownIsSkipped ==
  \A p \in Passes : mustSkip[p] => pc[p] \notin Working

\* Redis never claims more than Neo4j will confirm: a tenant's mark means the
\* node exists, or the very record that set the mark is still about to create
\* it, or one of its records lost Neo4j before writing there.
MarkIsBacked ==
  \A t \in Tenants : Marked(t) =>
    \/ Node \/ t \in spoilt
    \/ \E p \in Passes : /\ tenant[p] = t /\ pc[p] = "recording"
                         /\ todo[p]["neo4j"] = Program["neo4j"]

\* A store that fails costs only its own data: when record_company_enriched has
\* returned, every coroutine that did not raise has made all its writes (those of
\* Redis may be flushed at once).
StoresFailAlone ==
  \A p \in Passes, s \in Stores :
    /\ pc[p] = "recorded" /\ s # "redis" /\ s \notin failed[p]
    => \A w \in ToSet(Program[s]) : <<w, tenant[p]>> \in stored

\* What CompanyDedup sees: knowledge is durable when the node exists, cached
\* when only some tenant's mark does.
Knowledge ==
  IF Node THEN "durable"
  ELSE IF \E t \in Tenants : Marked(t) THEN "cached" ELSE "none"

VerdictAt(place) ==
  CASE place \in {"redis", "graph"}      -> "checking"
    [] place \in {"backfill", "skipped"} -> "skip"
    [] place \in Working                 -> "work"
    [] OTHER                             -> "over"

Dedup == INSTANCE CompanyDedup
  WITH known <- Knowledge, verdict <- [p \in Passes |-> VerdictAt(pc[p])]

\* The decisions linearise: the checks, spread over two stores and two awaits,
\* behave as the one atomic decision of CompanyDedup.
DecisionsLinearise == Dedup!Spec

\* manager.py: "Determine whether this company has already been fully
\* processed": when a pass skips, its tenant's record is in the stores.
SkippedIsFullyProcessed ==
  \A p \in Passes : pc[p] = "skipped" =>
    \A w \in Writes \ {"signal"} : <<w, tenant[p]>> \in stored
=============================================================================
