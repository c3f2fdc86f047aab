------------------------------- MODULE Review -------------------------------
(***************************************************************************)
(* What people do with a company after its passes: the review queue        *)
(* (routes/hitl.py), the company's verdict buttons and the results of a    *)
(* run (routes/results.py), beside the passes that feed them.  One tenant  *)
(* and one company, which several runs research.                           *)
(*                                                                         *)
(* Of the company's episodic list in Redis only the newest entry is ever   *)
(* looked at (prior[-1]), so that entry stands for the list.  How a score  *)
(* comes about is the subject of module Targeting: here a summary's        *)
(* verdict is any member of Verdicts, and validation asks for a human when *)
(* it likes.                                                               *)
(***************************************************************************)
EXTENDS Naturals, Sequences, FiniteSetsExt

CONSTANTS
  Runs,          (* runs that research the company                         *)
  Requests,      (* reviewers' requests on items of the queue              *)
  Verdicts,      (* (icp_score, recommended_action) of a summary           *)
  Undecided,     (* what the results show without one: 0.0 and "review"    *)
  Nobody,        (* author of no entry                                     *)
  Reviewer,      (* author of an entry that a person's click appended      *)
  MaxDeliveries, (* bound: how often the broker delivers runs              *)
  MaxMishaps,    (* bound: failing calls, lost replies, expiries           *)
  MaxVisits      (* bound on what people begin: reviews, clicks, views      *)

ASSUME NamesAssumption ==
  Undecided \notin Verdicts /\ Nobody \notin Runs /\ Reviewer \notin Runs
ASSUME BoundsAssumption ==
  {MaxDeliveries, MaxMishaps, MaxVisits} \subseteq Nat /\ IsFiniteSet(Runs)

Operations == {"approve", "reject", "edit"}
Decision(op) == IF op = "reject" THEN "rejected" ELSE "approved"

VARIABLES
  pass,     (* run -> where its pass through the graph is                  *)
  time,     (* run -> number of its present execution, 0 before the first  *)
  verdict,  (* run -> what the present execution's summary decided         *)
  stumbled, (* run -> an agent of the present execution failed             *)
  audit,    (* run -> company_enriched entries of the audit log            *)
  known,    (* the graph has a node for the company                        *)
  newest,   (* last entry of the episodic list                             *)
  items,    (* hitl_queue: its rows in order of insertion                  *)
  request,  (* request -> its progress and what it has read                *)
  view,     (* one get_results request                                     *)
  mishaps, visits

passVars == <<pass, time, verdict, stumbled, audit, known>>
people   == <<request, view, visits>>
vars     == <<passVars, newest, items, people, mishaps>>

Entry(by, t, v) == [by |-> by, time |-> t, verdict |-> v]
NoEntry == Entry(Nobody, 0, Undecided)

NoRequest == [pc |-> "idle", op |-> "approve", item |-> 0, base |-> {},
              earlier |-> {}, found |-> "pending", loaded |-> {}]
NoView == [pc |-> "idle", run |-> Nobody, entries |-> 0, raw |-> <<>>]

Init ==
  /\ pass = [r \in Runs |-> "queued"] /\ time = [r \in Runs |-> 0]
  /\ verdict = [r \in Runs |-> Undecided]
  /\ stumbled = [r \in Runs |-> FALSE]
  /\ audit = [r \in Runs |-> 0] /\ known = FALSE
  /\ newest = NoEntry /\ items = <<>>
  /\ request = [q \in Requests |-> NoRequest] /\ view = NoView
  /\ mishaps = 0 /\ visits = 0

Smooth == UNCHANGED mishaps
Visit  == visits < MaxVisits /\ visits' = visits + 1
Mishap == mishaps < MaxMishaps /\ mishaps' = mishaps + 1

-----------------------------------------------------------------------------
(* A pass, as far as its traces show here.  Which agents run in which      *)
(* order is PlannerGraph's subject: this is the default chain.             *)

Goes(r, to) == pass' = [pass EXCEPT ![r] = to]
Stumbles(r) == stumbled' = [stumbled EXCEPT ![r] = TRUE]

Deliveries == MapThenSumSet(LAMBDA r : time[r], Runs)

\* The broker delivers the run: for the first time, again, or after a crash of
\* the worker in the middle of a pass.
Deliver(r) ==
  /\ Deliveries < MaxDeliveries
  /\ \/ pass[r] \in {"queued", "ended", "paused"} /\ Smooth
     \/ Mishap
  /\ time' = [time EXCEPT ![r] = @ + 1] /\ Goes(r, "signals")
  /\ verdict' = [verdict EXCEPT ![r] = Undecided]
  /\ stumbled' = [stumbled EXCEPT ![r] = FALSE]
  /\ UNCHANGED <<audit, known, newest, items, people>>

\* save_run_summary by a pass.  A lost reply makes the client repeat the call
\* (retry_on_error) while others may append in between: the pass stays where it
\* is.  A call that fails for good leaves the list alone.
Saves(r, v) == newest' = Entry(r, time[r], v)
SavesAgain(r, v) == Saves(r, v) /\ Mishap /\ UNCHANGED pass
SaveFails == Mishap /\ UNCHANGED newest

\* trigger_monitor: the signals it finds go to the graph, then the entry.  When
\* a write raises, the agent has failed and the chain goes on.
Signals(r) ==
  /\ pass[r] = "signals"
  /\ known' \in {known, TRUE}
  /\ \/ Saves(r, Undecided) /\ Smooth /\ Goes(r, "record")
        /\ UNCHANGED stumbled
     \/ SavesAgain(r, Undecided) /\ UNCHANGED stumbled
     \/ SaveFails /\ Goes(r, "record") /\ Stumbles(r)
  /\ UNCHANGED <<time, verdict, audit, items, people>>

\* record_company_enriched: four writes gathered with return_exceptions, so
\* that each may fail without the others and nothing is raised.
Recorded(r, to) ==
  \/ /\ Smooth /\ Saves(r, Undecided) /\ known' = TRUE
     /\ audit' = [audit EXCEPT ![r] = @ + 1] /\ Goes(r, to)
  \/ /\ Mishap /\ Goes(r, to)
     /\ known' \in {known, TRUE}
     /\ audit' \in {audit, [audit EXCEPT ![r] = @ + 1]}
     /\ Saves(r, Undecided) \/ UNCHANGED newest

\* contact_enrichment.
Record(r) ==
  /\ pass[r] = "record" /\ Recorded(r, "validate")
  /\ UNCHANGED <<time, verdict, stumbled, items, people>>

NewItem(r) == [run |-> r, time |-> time[r], status |-> "pending",
               reason |-> FALSE, payload |-> {}, last |-> Nobody]

\* Mutant: the INSERT is repeated.
EnqueueTwice(r) == items' = items \o <<NewItem(r), NewItem(r)>>

Enqueue(r) == items' = Append(items, NewItem(r))

\* Mutant: a failure to insert the item is swallowed.
AsksHumanAnyway(r) ==
  \/ Enqueue(r) /\ Smooth /\ Goes(r, "fallback") /\ UNCHANGED stumbled
  \/ Mishap /\ Goes(r, "fallback") /\ UNCHANGED <<items, stumbled>>

\* The item is inserted, then the audit entry, which may raise: the agent has
\* failed, hitl_required stays unset, and the chain goes on to the summary.
AsksHuman(r) ==
  \/ Enqueue(r) /\ Smooth /\ Goes(r, "fallback") /\ UNCHANGED stumbled
  \/ Enqueue(r) /\ Mishap /\ Goes(r, "summary") /\ Stumbles(r)

\* validation.  _route_after_val_dynamic ends the chain of a pass that needs a
\* human; any other goes on to the summary.
Validate(r) ==
  /\ pass[r] = "validate"
  /\ \/ AsksHuman(r)
     \/ Goes(r, "summary") /\ Smooth /\ UNCHANGED <<items, stumbled>>
     \/ Goes(r, "summary") /\ Mishap /\ Stumbles(r) /\ UNCHANGED items
  /\ UNCHANGED <<time, verdict, audit, known, newest, people>>

\* Mutant: a completed pass gets the fallback record too.
SettledTooFew(r) == Goes(r, "fallback")

\* A summary leaves the status completed or failed: no fallback record.
Settled(r) == Goes(r, "ended")

\* SummaryAgent determines the recommended action and saves it, the same one
\* again when the call is repeated.
Summarise(r) ==
  /\ pass[r] = "summary"
  /\ \E v \in IF verdict[r] = Undecided THEN Verdicts ELSE {verdict[r]} :
       /\ verdict' = [verdict EXCEPT ![r] = v]
       /\ \/ Saves(r, v) /\ Smooth /\ Settled(r) /\ UNCHANGED stumbled
          \/ SavesAgain(r, v) /\ UNCHANGED stumbled
          \/ SaveFails /\ Settled(r) /\ Stumbles(r)
  /\ UNCHANGED <<time, audit, known, items, people>>

\* PlannerAgent.run takes awaiting_hitl for "no summary agent ran", and records
\* the company once more.  The task then completes the run.
Fallback(r) ==
  /\ pass[r] = "fallback" /\ Recorded(r, "paused")
  /\ UNCHANGED <<time, verdict, stumbled, items, people>>

\* The list's TTL runs out, or Redis is flushed.
Expire ==
  /\ Mishap /\ newest # NoEntry /\ newest' = NoEntry
  /\ UNCHANGED <<passVars, items, people>>

-----------------------------------------------------------------------------
(* The review queue.                                                       *)

Edits(i) == {q \in Requests : request[q].pc \in {"written", "answered"}
                              /\ request[q].op = "edit" /\ request[q].item = i}

\* _get_and_verify: the item and its run are read; edit keeps the payload.
Verify(q, op, i) ==
  /\ request[q].pc = "idle" /\ Visit
  /\ request' = [request EXCEPT ![q] =
       IF op = "edit"
       THEN [@ EXCEPT !.pc = "verified", !.op = op, !.item = i,
                      !.base = items[i].payload, !.earlier = Edits(i)]
       ELSE [@ EXCEPT !.pc = "verified", !.op = op, !.item = i]]
  /\ UNCHANGED <<passVars, newest, items, view, mishaps>>

\* repo.update loads the row again.
Load(q) ==
  LET i == request[q].item IN
  /\ request[q].pc = "verified"
  /\ request' = [request EXCEPT ![q].pc = "loaded",
                                ![q].found = items[i].status,
                                ![q].loaded = items[i].payload]
  /\ UNCHANGED <<passVars, newest, items, view, visits, mishaps>>

\* Mutant: the edits replace the payload.
MergedOver(q) == {q}

\* {**item.payload_json, **body.edited_payload}: each edit sets its own keys.
Merged(q) == request[q].base \union {q}

\* Mutant: only a pending item is decided.
NewStatusOnce(q, old) ==
  IF old = "pending" THEN Decision(request[q].op) ELSE old

\* SQLAlchemy updates the columns whose value differs from the one loaded.
NewStatus(q, old) ==
  IF request[q].found = Decision(request[q].op)
  THEN old ELSE Decision(request[q].op)

NewPayload(q, old) ==
  IF request[q].op = "edit" /\ Merged(q) # request[q].loaded
  THEN Merged(q) ELSE old

\* The UPDATE is committed.  Nothing resumes: the planner has no
\* resume_from_hitl, for which _resume_pipeline asks.
Commit(q) ==
  LET i   == request[q].item
      old == items[i]
  IN
  /\ request[q].pc = "loaded"
  /\ items' = [items EXCEPT ![i] =
       [old EXCEPT !.status  = NewStatus(q, old.status),
                   !.payload = NewPayload(q, old.payload),
                   !.reason  = old.reason \/ request[q].op = "reject",
                   !.last    = q]]
  /\ request' = [request EXCEPT
       ![q].pc = IF request[q].op = "reject" THEN "written" ELSE "answered",
       ![q].base = {}, ![q].loaded = {}]
  /\ UNCHANGED <<passVars, newest, view, visits, mishaps>>

\* reject_hitl tells the episodic store; a failure is swallowed.
Announce(q) ==
  /\ request[q].pc = "written"
  /\ \/ newest' = Entry(Reviewer, 0, Undecided) /\ Smooth
     \/ SaveFails
  /\ request' = [request EXCEPT ![q].pc = "answered"]
  /\ UNCHANGED <<passVars, items, view, visits>>

Review(q) ==
  \/ \E op \in Operations, i \in DOMAIN items : Verify(q, op, i)
  \/ Load(q) \/ Commit(q) \/ Announce(q)

-----------------------------------------------------------------------------
(* Results.                                                                *)

\* approve_company and reject_company.
Click ==
  /\ Visit
  /\ newest' = Entry(Reviewer, 0, Undecided)
  /\ UNCHANGED <<passVars, items, request, view, mishaps>>

\* get_results: the run's company_enriched entries.
ReadAudit(r) ==
  /\ view.pc = "idle" /\ Visit
  /\ view' = [pc |-> IF audit[r] > 0 THEN "entries" ELSE "graph",
              run |-> r, entries |-> audit[r], raw |-> <<>>]
  /\ UNCHANGED <<passVars, newest, items, request, mishaps>>

\* last_summary.get("icp_score", ...) and .get("recommended_action"): an entry
\* that is no summary shows as undecided.
Shown == newest.verdict

\* One audit entry: the company's graph data and its list are read.
ReadEntry ==
  /\ view.pc = "entries" /\ Len(view.raw) < view.entries
  /\ view' = [view EXCEPT !.raw = Append(@, Shown)]
  /\ UNCHANGED <<passVars, newest, items, request, visits, mishaps>>

\* No audit entry: the domain in plan_json, if the graph knows the company.
ReadGraph ==
  /\ view.pc = "graph"
  /\ view' = [view EXCEPT !.pc = "entries",
                          !.raw = IF known THEN <<Shown>> ELSE <<>>]
  /\ UNCHANGED <<passVars, newest, items, request, visits, mishaps>>

\* A store that is down makes the loop over the entries a 500; the fallback
\* leaves the company out.
ReadFails ==
  /\ Mishap
  /\ \/ view.pc = "entries" /\ Len(view.raw) < view.entries
        /\ view' = NoView
     \/ view.pc = "graph" /\ view' = [view EXCEPT !.pc = "entries"]
  /\ UNCHANGED <<passVars, newest, items, request, visits>>

\* Mutant: the duplicates are returned.
EveryOne(raw) == raw

\* One result per domain, the last.
Deduplicated(raw) == IF raw = <<>> THEN <<>> ELSE <<raw[Len(raw)]>>

Respond ==
  /\ view.pc = "entries" /\ Len(view.raw) >= view.entries
  /\ view' = [view EXCEPT !.pc = "answered", !.raw = Deduplicated(@)]
  /\ UNCHANGED <<passVars, newest, items, request, visits, mishaps>>

-----------------------------------------------------------------------------
Step(r) == \/ Deliver(r) \/ Signals(r) \/ Record(r) \/ Validate(r)
           \/ Summarise(r) \/ Fallback(r)

Results == \/ \E r \in Runs : ReadAudit(r)
           \/ ReadEntry \/ ReadGraph \/ ReadFails \/ Respond

Next == \/ \E r \in Runs : Step(r)
        \/ \E q \in Requests : Review(q)
        \/ Results \/ Click \/ Expire

Spec == Init /\ [][Next]_vars

-----------------------------------------------------------------------------
(* Properties.                                                             *)

Places == {"queued", "signals", "record", "validate", "summary",
           "fallback", "ended", "paused"}
Shows == Verdicts \union {Undecided}

\* Every variable keeps its type; the queue holds at most one item of each
\* execution.
TypeOK ==
  /\ pass \in [Runs -> Places] /\ time \in [Runs -> 0..MaxDeliveries]
  /\ verdict \in [Runs -> Shows] /\ stumbled \in [Runs -> BOOLEAN]
  /\ audit \in [Runs -> 0..2 * MaxDeliveries] /\ known \in BOOLEAN
  /\ newest \in [by : Runs \union {Nobody, Reviewer},
                 time : 0..MaxDeliveries, verdict : Shows]
  /\ Len(items) <= MaxDeliveries
  /\ \A i \in DOMAIN items :
       items[i] \in [run : Runs, time : 1..MaxDeliveries,
                     status : {"pending", "approved", "rejected"},
                     reason : BOOLEAN, payload : SUBSET Requests,
                     last : Requests \union {Nobody}]
  /\ \A q \in Requests :
       request[q] \in [pc : {"idle", "verified", "loaded", "written",
                             "answered"},
                       op : Operations, item : 0..Len(items),
                       base : SUBSET Requests, earlier : SUBSET Requests,
                       found : {"pending", "approved", "rejected"},
                       loaded : SUBSET Requests]
  /\ view.pc \in {"idle", "entries", "graph", "answered"}
  /\ mishaps \in 0..MaxMishaps /\ visits \in 0..MaxVisits

\* A pass that stopped for a review has put exactly one item into the queue in
\* this execution; one that went on has not, unless an agent of it failed (the
\* validation that raised after its INSERT leaves an orphan to review).
QueueMatchesPauses ==
  \A r \in Runs :
    LET mine == {i \in DOMAIN items : items[i].run = r
                                      /\ items[i].time = time[r]} IN
    /\ pass[r] \in {"fallback", "paused"} => Cardinality(mine) = 1
    /\ pass[r] \notin {"fallback", "paused"} /\ mine # {} => stumbled[r]

\* When a pass is over and the newest entry is of its making, that entry shows
\* its verdict, and none if it stopped for a review: its own later writes, the
\* lost replies and the second record of a paused pass never hide it.
OwnVerdictShows ==
  \A r \in Runs :
    /\ pass[r] \in {"ended", "paused"} /\ ~stumbled[r]
    /\ newest.by = r /\ newest.time = time[r]
    => newest.verdict = verdict[r]

\* The results list the company at most once although a paused or repeated
\* pass has recorded it several times, and always if the run recorded it,
\* whatever has happened to Redis and to the graph.
ListedOnce ==
  view.pc = "answered" =>
    Len(view.raw) <= 1 /\ (view.entries > 0 => Len(view.raw) = 1)

\* An answered decision takes effect unless it repeats the one it found: when
\* the status is not what the last request decided, that request found its own
\* decision already there and another overtook it.
OnlyRepeatsAreIgnored ==
  \A i \in DOMAIN items : items[i].last # Nobody =>
    LET q == items[i].last IN
    items[i].status = Decision(request[q].op)
      \/ request[q].found = Decision(request[q].op)

\* An answered edit is missing from the payload only if it was overwritten by
\* an edit that had read the item before this one was committed.
EditsAreLostToRacesOnly ==
  \A i \in DOMAIN items : \A q \in Edits(i) :
    \/ q \in items[i].payload
    \/ \E other \in Edits(i) : other # q /\ q \notin request[other].earlier

\* results.py: "Full enriched results for a completed run" and "try Redis
\* summary first": the results of a run whose pass ended with a summary show
\* that summary's verdict.
CompletedRunShowsVerdict ==
  [][ Len(view'.raw) > Len(view.raw) /\ pass[view.run] = "ended"
      /\ ~stumbled[view.run]
        => view'.raw[Len(view'.raw)] = verdict[view.run] ]_vars
=============================================================================
