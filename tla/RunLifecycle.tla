---------------------------- MODULE RunLifecycle ----------------------------
(***************************************************************************)
(* The life of ONE discovery run: the agent_runs row in Postgres, the      *)
(* Celery task that executes it, the HTTP handlers that create and cancel  *)
(* it, and the terminal events published for it.                           *)
(*                                                                         *)
(* Four kinds of process touch the row without any lock or version column: *)
(*   - the creating request (POST /runs, or POST /studio/execute),         *)
(*   - Celery workers running app/tasks.py:_run_pipeline_async, possibly   *)
(*     several at once when the broker redelivers the task,                *)
(*   - cancelling requests (DELETE /runs/{id}),                            *)
(* and each of their BaseRepository.update calls is a SELECT followed,     *)
(* after an await, by an UPDATE of the columns whose value changed.        *)
(*                                                                         *)
(* Runs share nothing here except the worker pool, so one run is modelled. *)
(***************************************************************************)
EXTENDS Naturals, Sequences, SequencesExt

CONSTANTS
  Workers,        (* Celery worker processes.                              *)
  Clients,        (* Cancelling requests; each handles one DELETE.         *)
  Origins,        (* Which of the two creating routes are considered.      *)
  Companies,      (* Companies of the plan: 1 (custom domain) or 3 (demo). *)
  Faults,         (* The failures the environment may produce.             *)
  MaxDeliveries,  (* Bound: copies of the task ever put in the queue.      *)
  MaxEvents       (* Bound: no agent failure event past this feed length.  *)

AllFaults ==
  { "crash",      (* a worker process dies while it runs the task          *)
    "restart",    (* a worker restarts and forgets the revoked ids         *)
    "visibility", (* the broker's visibility timeout expires on a live task*)
    "flush",      (* Redis restarts; it persists nothing                   *)
    "broker",     (* the broker is unreachable for one call of the API     *)
    "apiDies",    (* an API process dies between two steps of a handler    *)
    "raise" }     (* a call made by the worker raises                      *)

ASSUME ConstantsAssumption ==
  /\ Workers # {}
  /\ Origins \subseteq {"runs", "studio"}
  /\ Companies \in Nat \ {0}
  /\ Faults \subseteq AllFaults
  /\ MaxDeliveries \in Nat \ {0}
  /\ MaxEvents \in Nat

VARIABLES
  row,      (* the agent_runs row: [status, completed_at set?]             *)
  origin,   (* the route that created the run                              *)
  creator,  (* step of the creating request                                *)
  seenByCreator,  (* status its fallback update has read                   *)
  queued,   (* ready copies of the task in the broker                      *)
  sent,     (* copies ever put in the queue                                *)
  held,     (* held[w]: the broker still counts w's delivery as unacked    *)
  expired,  (* history: a visibility timeout has expired                   *)
  stage,    (* stage[w]: where worker w is in _run_pipeline_async          *)
  seen,     (* seen[w]: status read by w's pending update                  *)
  left,     (* left[w]: companies w has still to process                   *)
  revoking, (* workers the revoke broadcast has not reached yet            *)
  revoked,  (* workers that remember the task id as revoked                *)
  cancel,   (* cancel[c]: step of the cancelling request c                 *)
  seenBy,   (* seenBy[c]: status read by c's update                        *)
  feed,     (* terminal events published on run:{id}:events                *)
  unanswered, (* history: a run_completed was published, yet its publish   *)
              (* raised: the reply was lost, also on the client's retries  *)
  lost      (* history: why work on the run was given up without a write   *)

rowVars     == <<row>>
apiVars     == <<origin, creator, seenByCreator>>
brokerVars  == <<queued, sent, held, expired>>
workerVars  == <<stage, seen, left>>
revokeVars  == <<revoking, revoked>>
cancelVars  == <<cancel, seenBy>>
vars == <<row, origin, creator, seenByCreator, queued, sent, held, expired,
          stage, seen, left, revoking, revoked, cancel, seenBy, feed,
          unanswered, lost>>

Status    == {"absent", "pending", "running", "completed", "failed",
              "cancelled"}
Terminal  == {"completed", "failed", "cancelled"}
Unread    == "unread"
Reasons   == {"undispatched", "raised", "terminated", "flushed", "duplicate"}
Events    == {"run_completed", "run_failed"}

Stages == {"idle", "connect", "start", "company", "plan", "graph", "summary",
           "planFail", "final", "pubDone", "fail", "pubFail", "ack"}

(***************************************************************************)
(* The stages that are a BaseRepository.update of the row: what each       *)
(* writes, and where the coroutine continues once it has committed.        *)
(***************************************************************************)
Writes == [start    |-> "running",   \* tasks.py, before the first company
           plan     |-> "running",   \* PlannerAgent.run, once per company
           summary  |-> "completed", \* SummaryAgent, inside the graph
           planFail |-> "failed",    \* PlannerAgent.run, except branch
           final    |-> "completed", \* tasks.py, after the last company
           fail     |-> "failed"]    \* tasks.py, except branch

\* Mutants: the planner swallows its exception; the task retries itself after
\* a failure; a completed task does not publish.
ContinuesSwallowing == [start |-> "company", plan |-> "graph",
  summary |-> "graph", planFail |-> "company", final |-> "pubDone",
  fail |-> "pubFail"]
ContinuesRetrying == [start |-> "company", plan |-> "graph",
  summary |-> "graph", planFail |-> "fail", final |-> "pubDone",
  fail |-> "start"]
ContinuesSilent == [start |-> "company", plan |-> "graph",
  summary |-> "graph", planFail |-> "fail", final |-> "ack",
  fail |-> "pubFail"]

Continues == [start |-> "company", plan |-> "graph", summary |-> "graph",
              planFail |-> "fail", final |-> "pubDone", fail |-> "pubFail"]

Updates == DOMAIN Writes

(***************************************************************************)
(* BaseRepository.update commits only net changes: a status equal to the   *)
(* one read by its SELECT is not part of the UPDATE, so a value committed  *)
(* in between by somebody else survives.                                   *)
(***************************************************************************)
Updated(read, new, stamp) ==
  [status       |-> IF read = new THEN row.status ELSE new,
   completed_at |-> row.completed_at \/ stamp]

Live(w)  == stage[w] # "idle"

-----------------------------------------------------------------------------
Init ==
  /\ row = [status |-> "absent", completed_at |-> FALSE]
  /\ origin \in Origins
  /\ creator = "idle" /\ seenByCreator = Unread
  /\ queued = 0 /\ sent = 0
  /\ held = [w \in Workers |-> FALSE] /\ expired = FALSE
  /\ stage = [w \in Workers |-> "idle"]
  /\ seen = [w \in Workers |-> Unread]
  /\ left = [w \in Workers |-> 0]
  /\ revoking = {} /\ revoked = {}
  /\ cancel = [c \in Clients |-> "idle"]
  /\ seenBy = [c \in Clients |-> Unread]
  /\ feed = <<>> /\ unanswered = FALSE
  /\ lost = {}

-----------------------------------------------------------------------------
(* The creating request.                                                   *)

\* run_repo.create(status="pending") of either route.
CreateRow ==
  /\ creator = "idle"
  /\ row' = [status |-> "pending", completed_at |-> FALSE]
  /\ creator' = "created"
  /\ UNCHANGED <<origin, seenByCreator, brokerVars, workerVars, revokeVars,
                 cancelVars, feed, unanswered, lost>>

\* Mutant: both ways of sending are used.
DispatchTwice ==
  /\ creator = "created"
  /\ queued' = queued + 2
  /\ sent' = sent + 2
  /\ creator' = "done"
  /\ UNCHANGED <<row, origin, seenByCreator, held, expired, workerVars,
                 revokeVars, cancelVars, feed, unanswered, lost>>

\* celery_app.send_task(..., task_id=run_id) or run_pipeline.delay(...).
Dispatch ==
  /\ creator = "created"
  /\ queued' = queued + 1
  /\ sent' = sent + 1
  /\ creator' = "done"
  /\ UNCHANGED <<row, origin, seenByCreator, held, expired, workerVars,
                 revokeVars, cancelVars, feed, unanswered, lost>>

\* The send raises.  POST /runs catches it and falls through to an update of
\* the row; POST /studio/execute lets the exception out.
DispatchFails ==
  /\ "broker" \in Faults
  /\ creator = "created"
  /\ creator' = IF origin = "runs" THEN "fallback" ELSE "done"
  /\ lost' = lost \union {"undispatched"}
  /\ UNCHANGED <<row, origin, seenByCreator, brokerVars, workerVars,
                 revokeVars, cancelVars, feed, unanswered>>

\* The API process dies after the row exists and before the task is sent.
CreatorDies ==
  /\ "apiDies" \in Faults
  /\ creator \in {"created", "fallback"}
  /\ creator' = "done"
  /\ seenByCreator' = Unread
  /\ lost' = lost \union {"undispatched"}
  /\ UNCHANGED <<row, origin, brokerVars, workerVars, revokeVars, cancelVars,
                 feed, unanswered>>

\* run_repo.update(run.id, status="running"): the "inline" branch, which
\* executes nothing.
FallbackGet ==
  /\ creator = "fallback" /\ seenByCreator = Unread
  /\ seenByCreator' = row.status
  /\ UNCHANGED <<row, origin, creator, brokerVars, workerVars, revokeVars,
                 cancelVars, feed, unanswered, lost>>

FallbackCommit ==
  /\ creator = "fallback" /\ seenByCreator # Unread
  /\ row' = Updated(seenByCreator, "running", FALSE)
  /\ creator' = "done"
  /\ seenByCreator' = Unread
  /\ UNCHANGED <<origin, brokerVars, workerVars, revokeVars, cancelVars, feed,
                 unanswered, lost>>

-----------------------------------------------------------------------------
(* The broker and the worker's consumer, as celery_config.py sets them up: *)
(* late acknowledgement, requeue when the process running the task is      *)
(* lost, Redis transport.                                                  *)

Rest(w) == /\ stage' = [stage EXCEPT ![w] = "idle"]
           /\ seen' = [seen EXCEPT ![w] = Unread]
           /\ left' = [left EXCEPT ![w] = 0]

\* A worker takes a copy; one that knows the id as revoked discards it.
Receive(w) ==
  /\ stage[w] = "idle" /\ queued > 0
  /\ queued' = queued - 1
  /\ IF w \in revoked
     THEN /\ lost' = lost \union {"terminated"}
          /\ UNCHANGED <<held, stage, left>>
     ELSE /\ held' = [held EXCEPT ![w] = TRUE]
          /\ stage' = [stage EXCEPT ![w] = "connect"]
          /\ left' = [left EXCEPT ![w] = Companies]
          /\ UNCHANGED lost
  /\ UNCHANGED <<row, apiVars, sent, expired, seen, revokeVars, cancelVars,
                 feed, unanswered>>

\* The task function returns or raises: acks_late acknowledges either way.
Acknowledge(w) ==
  /\ stage[w] = "ack"
  /\ Rest(w)
  /\ held' = [held EXCEPT ![w] = FALSE]
  /\ UNCHANGED <<row, apiVars, queued, sent, expired, revokeVars, cancelVars,
                 feed, unanswered, lost>>

\* The process running the task is lost: a delivery still unacknowledged
\* goes back to the queue.
Crash(w) ==
  /\ "crash" \in Faults
  /\ Live(w)
  /\ held[w] => sent < MaxDeliveries
  /\ Rest(w)
  /\ held' = [held EXCEPT ![w] = FALSE]
  /\ IF held[w]
     THEN queued' = queued + 1 /\ sent' = sent + 1 /\ UNCHANGED lost
     ELSE lost' = lost \union {"duplicate"} /\ UNCHANGED <<queued, sent>>
  /\ UNCHANGED <<row, apiVars, expired, revokeVars, cancelVars, feed,
                 unanswered>>

\* An idle worker restarts: its set of revoked ids is only in memory.
Restart(w) ==
  /\ "restart" \in Faults
  /\ stage[w] = "idle"
  /\ w \in revoked \union revoking
  /\ revoked' = revoked \ {w}
  /\ revoking' = revoking \ {w}
  /\ UNCHANGED <<row, apiVars, brokerVars, workerVars, cancelVars, feed,
                 unanswered, lost>>

\* The visibility timeout of the Redis transport expires on a live delivery.
VisibilityTimeout(w) ==
  /\ "visibility" \in Faults
  /\ Live(w) /\ held[w] /\ sent < MaxDeliveries
  /\ held' = [held EXCEPT ![w] = FALSE]
  /\ queued' = queued + 1
  /\ sent' = sent + 1
  /\ expired' = TRUE
  /\ UNCHANGED <<row, apiVars, workerVars, revokeVars, cancelVars, feed,
                 unanswered, lost>>

\* Redis restarts with --save "" --appendonly no: queue, unacknowledged
\* deliveries and broadcasts in flight are gone.
Flush ==
  /\ "flush" \in Faults
  /\ queued > 0 \/ \E w \in Workers : held[w]
  /\ queued' = 0
  /\ held' = [w \in Workers |-> FALSE]
  /\ revoking' = {}
  /\ lost' = lost \union {"flushed"}
  /\ UNCHANGED <<row, apiVars, sent, expired, workerVars, revoked, cancelVars,
                 feed, unanswered>>

-----------------------------------------------------------------------------
(* The task: _run_pipeline_async, PlannerAgent.run and SummaryAgent.       *)

Goto(w, next) == stage' = [stage EXCEPT ![w] = next]

\* The stores connect; this is before the try block.
Connect(w) ==
  /\ stage[w] = "connect"
  /\ Goto(w, "start")
  /\ UNCHANGED <<row, apiVars, brokerVars, seen, left, revokeVars, cancelVars,
                 feed, unanswered, lost>>

\* SELECT of an update of the row.
UpdateGet(w) ==
  /\ stage[w] \in Updates /\ seen[w] = Unread
  /\ seen' = [seen EXCEPT ![w] = row.status]
  /\ UNCHANGED <<row, apiVars, brokerVars, stage, left, revokeVars, cancelVars,
                 feed, unanswered, lost>>

\* UPDATE and commit; only SummaryAgent also sets completed_at.
UpdateCommit(w) ==
  /\ stage[w] \in Updates /\ seen[w] # Unread
  /\ row' = Updated(seen[w], Writes[stage[w]], stage[w] = "summary")
  /\ Goto(w, Continues[stage[w]])
  /\ seen' = [seen EXCEPT ![w] = Unread]
  /\ UNCHANGED <<apiVars, brokerVars, left, revokeVars, cancelVars, feed,
                 unanswered, lost>>

\* Mutants: the loop runs once too often; the final update is missing.
NextCompanyOffByOne(w) ==
  /\ stage[w] = "company"
  /\ Goto(w, IF left[w] >= 0 THEN "plan" ELSE "final")
  /\ UNCHANGED <<row, apiVars, brokerVars, seen, left, revokeVars, cancelVars,
                 feed, unanswered, lost>>

NextCompanyUncommitted(w) ==
  /\ stage[w] = "company"
  /\ Goto(w, IF left[w] > 0 THEN "plan" ELSE "pubDone")
  /\ UNCHANGED <<row, apiVars, brokerVars, seen, left, revokeVars, cancelVars,
                 feed, unanswered, lost>>

\* Head of the loop over companies; a failing web enrichment is swallowed.
NextCompany(w) ==
  /\ stage[w] = "company"
  /\ Goto(w, IF left[w] > 0 THEN "plan" ELSE "final")
  /\ UNCHANGED <<row, apiVars, brokerVars, seen, left, revokeVars, cancelVars,
                 feed, unanswered, lost>>

\* The graph reaches its summary node.
SummaryRuns(w) ==
  /\ stage[w] = "graph"
  /\ Goto(w, "summary")
  /\ UNCHANGED <<row, apiVars, brokerVars, seen, left, revokeVars, cancelVars,
                 feed, unanswered, lost>>

\* An agent raises: BaseAgent.run publishes run_failed and the graph goes on.
\* The summary agent is one of them, and its update of the row may be what
\* raises.
AgentFails(w) ==
  /\ stage[w] \in {"graph", "summary"}
  /\ Len(feed) < MaxEvents
  /\ feed' = Append(feed, "run_failed")
  /\ Goto(w, "graph")
  /\ seen' = [seen EXCEPT ![w] = Unread]
  /\ UNCHANGED <<row, apiVars, brokerVars, left, revokeVars, cancelVars,
                 unanswered, lost>>

\* ainvoke returns (also on a skip or for human review), whatever the status.
GraphEnds(w) ==
  /\ stage[w] = "graph"
  /\ Goto(w, "company")
  /\ left' = [left EXCEPT ![w] = @ - 1]
  /\ UNCHANGED <<row, apiVars, brokerVars, seen, revokeVars, cancelVars, feed,
                 unanswered, lost>>

\* What a worker at its last publish has to say.
Outcome(w) == IF stage[w] = "pubDone" THEN "run_completed" ELSE "run_failed"

\* publish_run_completed / publish_run_failed of tasks.py.
Publish(w) ==
  /\ stage[w] \in {"pubDone", "pubFail"}
  /\ feed' = Append(feed, Outcome(w))
  /\ Goto(w, "ack")
  /\ UNCHANGED <<row, apiVars, brokerVars, seen, left, revokeVars,
                 cancelVars, unanswered, lost>>

\* Mutant: the task has no except branch.
HandlerUncaught(s) == IF s = "graph" THEN "planFail" ELSE "ack"

\* Where an exception raised at a stage surfaces: the planner's except
\* branch, the task's, or nowhere (outside the try, or in a handler).  An
\* UPDATE that is applied and raises is UpdateCommit, then Raise.
Handler(s) ==
  CASE s = "graph"                                          -> "planFail"
    [] s \in {"start", "company", "plan", "planFail",
              "final", "pubDone"}                           -> "fail"
    [] s \in {"connect", "fail", "pubFail"}                 -> "ack"

Raise(w) ==
  /\ "raise" \in Faults
  /\ stage[w] \notin {"idle", "ack", "summary"}
  /\ Goto(w, Handler(stage[w]))
  /\ seen' = [seen EXCEPT ![w] = Unread]
  /\ lost' = IF stage[w] \in {"connect", "fail"}
             THEN lost \union {"raised"} ELSE lost
  /\ UNCHANGED <<row, apiVars, brokerVars, left, revokeVars, cancelVars, feed,
                 unanswered>>

\* A publish that Redis has applied raises: its reply is lost, and so are those
\* of the client's retries.  Subscribers have the event, and the task goes where
\* an exception takes it.
PublishUnanswered(w) ==
  /\ "raise" \in Faults
  /\ stage[w] \in {"pubDone", "pubFail"}
  /\ feed' = Append(feed, Outcome(w))
  /\ unanswered' = (unanswered \/ stage[w] = "pubDone")
  /\ Goto(w, Handler(stage[w]))
  /\ UNCHANGED <<row, apiVars, brokerVars, seen, left, revokeVars,
                 cancelVars, lost>>

-----------------------------------------------------------------------------
(* The cancelling requests: get, revoke, update.                           *)

\* get + guard: any other status is answered with 400 and changes nothing.
CancelCheck(c) ==
  /\ cancel[c] = "idle"
  /\ row.status \in {"pending", "running"}
  /\ cancel' = [cancel EXCEPT ![c] = "checked"]
  /\ UNCHANGED <<row, apiVars, brokerVars, workerVars, revokeVars, seenBy,
                 feed, unanswered, lost>>

\* control.revoke(run_id, terminate=True): a broadcast that names the task id.
\* Only POST /runs gave the task the id of the run.  A failing call is
\* swallowed.
CancelRevoke(c) ==
  /\ cancel[c] = "checked"
  /\ cancel' = [cancel EXCEPT ![c] = "revoked"]
  /\ \/ revoking' = IF origin = "runs" THEN Workers ELSE revoking
     \/ "broker" \in Faults /\ UNCHANGED revoking
  /\ UNCHANGED <<row, apiVars, brokerVars, workerVars, revoked, seenBy, feed,
                 unanswered, lost>>

CancelGet(c) ==
  /\ cancel[c] = "revoked" /\ seenBy[c] = Unread
  /\ seenBy' = [seenBy EXCEPT ![c] = row.status]
  /\ UNCHANGED <<row, apiVars, brokerVars, workerVars, revokeVars, cancel,
                 feed, unanswered, lost>>

CancelCommit(c) ==
  /\ cancel[c] = "revoked" /\ seenBy[c] # Unread
  /\ row' = Updated(seenBy[c], "cancelled", TRUE)
  /\ cancel' = [cancel EXCEPT ![c] = "done"]
  /\ seenBy' = [seenBy EXCEPT ![c] = Unread]
  /\ UNCHANGED <<apiVars, brokerVars, workerVars, revokeVars, feed, unanswered,
                 lost>>

CancelDies(c) ==
  /\ "apiDies" \in Faults
  /\ cancel[c] \in {"checked", "revoked"}
  /\ cancel' = [cancel EXCEPT ![c] = "dead"]
  /\ seenBy' = [seenBy EXCEPT ![c] = Unread]
  /\ UNCHANGED <<row, apiVars, brokerVars, workerVars, revokeVars, feed,
                 unanswered, lost>>

\* Mutant: revoked without terminate=True.
RevokeArrivesGently(w) ==
  /\ w \in revoking
  /\ revoking' = revoking \ {w}
  /\ revoked' = revoked \union {w}
  /\ UNCHANGED <<row, apiVars, brokerVars, workerVars, cancelVars, feed,
                 unanswered, lost>>

\* The broadcast reaches a worker: it remembers the id, and a process that is
\* executing the task is terminated and its delivery acknowledged.
RevokeArrives(w) ==
  /\ w \in revoking
  /\ revoking' = revoking \ {w}
  /\ revoked' = revoked \union {w}
  /\ Rest(w)
  /\ held' = [held EXCEPT ![w] = FALSE]
  /\ lost' = IF Live(w) THEN lost \union {"terminated"} ELSE lost
  /\ UNCHANGED <<row, apiVars, queued, sent, expired, cancelVars, feed,
                 unanswered>>

-----------------------------------------------------------------------------
Api == \/ CreateRow \/ Dispatch \/ DispatchFails \/ CreatorDies
       \/ FallbackGet \/ FallbackCommit

Work(w) == \/ Receive(w) \/ Connect(w) \/ UpdateGet(w) \/ UpdateCommit(w)
           \/ NextCompany(w) \/ GraphEnds(w) \/ Publish(w) \/ Acknowledge(w)

Mishap(w) == \/ SummaryRuns(w) \/ AgentFails(w) \/ Raise(w)
             \/ PublishUnanswered(w)
             \/ Crash(w) \/ Restart(w) \/ VisibilityTimeout(w)

Cancel(c) == \/ CancelCheck(c) \/ CancelRevoke(c) \/ CancelGet(c)
             \/ CancelCommit(c) \/ CancelDies(c)

Next == \/ Api
        \/ \E w \in Workers : Work(w) \/ Mishap(w) \/ RevokeArrives(w)
        \/ \E c \in Clients : Cancel(c)
        \/ Flush

Spec == Init /\ [][Next]_vars

(***************************************************************************)
(* Worker processes keep running, a compiled graph is finite (strong       *)
(* fairness: it may pass through its summary node first), and a request    *)
(* handler that has started is scheduled to its end unless its process     *)
(* dies.  Nobody has to cancel, and no failure has to happen.              *)
(***************************************************************************)
Fairness ==
  /\ \A w \in Workers : /\ WF_vars(Work(w))
                        /\ SF_vars(GraphEnds(w))
                        /\ WF_vars(RevokeArrives(w))
  /\ WF_vars(Dispatch \/ FallbackGet \/ FallbackCommit)
  /\ \A c \in Clients : WF_vars(CancelRevoke(c) \/ CancelGet(c)
                                                \/ CancelCommit(c))

FairSpec == Spec /\ Fairness

-----------------------------------------------------------------------------
(* Properties.                                                             *)

\* Every variable keeps its type.
TypeOK ==
  /\ row \in [status : Status, completed_at : BOOLEAN]
  /\ origin \in Origins
  /\ creator \in {"idle", "created", "fallback", "done"}
  /\ seenByCreator \in Status \union {Unread}
  /\ queued \in Nat /\ sent \in Nat
  /\ held \in [Workers -> BOOLEAN] /\ expired \in BOOLEAN
  /\ stage \in [Workers -> Stages]
  /\ seen \in [Workers -> Status \union {Unread}]
  /\ left \in [Workers -> Nat]
  /\ revoking \subseteq Workers /\ revoked \subseteq Workers
  /\ cancel \in [Clients -> {"idle", "checked", "revoked", "done", "dead"}]
  /\ seenBy \in [Clients -> Status \union {Unread}]
  /\ feed \in Seq(Events) /\ unanswered \in BOOLEAN
  /\ lost \subseteq Reasons

\* A worker that still has a terminal status to commit.
Unfinished(w) == stage[w] \notin {"idle", "pubDone", "pubFail", "ack"}

\* Somebody still has the duty to bring the row to a terminal status.
Owned == \/ creator = "created"
         \/ queued > 0
         \/ \E w \in Workers : Unfinished(w)

\* A row that reads pending or running is being taken care of, unless work on
\* it was given up for one of the named reasons: whatever the interleaving of
\* the creator, duplicate workers, cancels and crashes, no SELECT-then-UPDATE
\* race on agent_runs alone leaves a run unfinished with nobody working on it.
NoSilentAbandon ==
  row.status \in {"pending", "running"} => Owned \/ lost # {}

\* A worker that has yet to write a terminal status the row does not hold:
\* Unfinished, and not about to commit an UPDATE that leaves the status out
\* because its SELECT already read that value.
Obliged(w) ==
  /\ Unfinished(w)
  /\ stage[w] \in {"final", "fail"} => seen[w] # Writes[stage[w]]

\* The inductive strengthening of NoSilentAbandon.  "Unfinished" is not enough:
\* a worker whose final SELECT read completed commits nothing, so when a
\* duplicate has set the row back to running it is the duplicate that must be
\* obliged, and it is, since a SELECT of a running row cannot read completed.
AbandonInv ==
  /\ row.status \in {"pending", "running"} =>
        \/ creator = "created" \/ queued > 0 \/ lost # {}
        \/ \E w \in Workers : Obliged(w)
  /\ creator = "fallback" => lost # {}
  /\ \A w \in Workers : stage[w] \notin Updates => seen[w] = Unread

\* Late acknowledgement and requeue hand the task to one worker at a time,
\* through crashes, requeues, revocations and a Redis that forgets: only an
\* expired visibility timeout lets two workers execute it.
OneExecution ==
  ~expired =>
    /\ queued > 0 => queued = 1 /\ \A w \in Workers : ~Live(w)
    /\ \A w, v \in Workers : Live(w) /\ Live(v) => w = v

\* Once every worker has received the revocation of a cancelled run, nothing
\* brings the row back: terminate=True stops the execution whose UPDATE was
\* still pending, and a redelivered copy is discarded.
CancelHoldsOnceRevoked ==
  [][ row.status = "cancelled" /\ revoked = Workers /\ creator = "done"
        => row'.status = "cancelled" ]_vars

\* A revocation that has reached every worker leaves no execution behind a
\* finished cancel (runs.py: "Cancel an in-progress run by revoking the
\* Celery task").
CancelStopsTask ==
  (\E c \in Clients : cancel[c] = "done") /\ revoking = {}
    => \A w \in Workers : ~Live(w)

\* A failed run stays failed: the two except branches write last, so only a
\* cancel that had read an older status, or a second delivery of the task,
\* overwrites it.
FailedIsFinal ==
  [][ row.status = "failed" /\ sent = 1
        => row'.status \in {"failed", "cancelled"} ]_vars

Quiet == /\ creator = "done" /\ queued = 0
         /\ \A w \in Workers : ~Live(w)

\* What the stream said last and what the row says agree in the end: for a
\* task delivered once, never cancelled and not given up, the row reads
\* completed exactly when the last terminal event is run_completed and whoever
\* published it was told so, whatever agents published run_failed before, and
\* also when the final update raises or a publish does before it is applied.
\* A run_completed that was applied and yet raised is the one exception: the
\* row then reads failed, under the old event if run_failed is not published
\* either.
FeedAgreesWithRow ==
  Quiet /\ sent = 1 /\ lost = {} /\ (\A c \in Clients : cancel[c] = "idle")
    => /\ row.status \in {"completed", "failed"}
       /\ row.status = "completed"
            <=> /\ feed # <<>> /\ Last(feed) = "run_completed"
                /\ ~unanswered

\* Every created run comes to rest, terminal unless work was given up.
RunSettles ==
  creator # "idle"
    ~> [](Quiet /\ (row.status \in Terminal \/ lost # {}))

\* DELETE /runs/{run_id} "cancel in-progress run": a cancelled run stays so.
CancelledStays ==
  [][ row.status = "cancelled" => row'.status = "cancelled" ]_vars
=============================================================================
