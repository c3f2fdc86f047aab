# A TLA+ model of the lead-discovery platform

The repository is a FastAPI application with a Celery worker. A *run* takes a
list of companies through six agents (a LangGraph graph), stores what they find
in Postgres, Redis, Neo4j and Qdrant, streams progress to the browser and may
stop for a human review. Beside it stands a web monitor that collects articles
from several sources. The modules here model the parts whose correctness
depends on order, interleaving, failure or arithmetic at a threshold.

## 1. Inventory

| Component | State it keeps | Operations | Talks to | Module |
|---|---|---|---|---|
| Run routes `app/api/routes/runs.py`, task `app/tasks.py`, `celery_config.py` | `agent_runs` row, the delivery, the position in the loop over companies | create, list, get, cancel; `_run_pipeline_async` | broker, Postgres | `RunLifecycle` |
| Studio routes `studio.py` | `agent_runs`, `icp_configs`, worker files | execute, build agent, parse intent | broker, Postgres, disk | `RunLifecycle`, `Targeting` (custom-agent files are not modelled) |
| Planner `app/agents/planner.py`, `base.py` | graph state, `agent_runs` | build graph, run, fall back, fail | agents, memory, events | `PlannerGraph`, `CompanyPass` |
| Agents `app/agents/*.py` | none of their own | trigger, ICP score, enrich, personas, validate, summarise; custom workers | memory, `hitl_queue`, `audit_log` | `Scoring`, `Targeting` |
| ICP configurations `routes/icp.py` | `icp_configs` rows | create, update, delete | Postgres | `Targeting` |
| Memory manager `app/memory/manager.py` and the stores | Redis sets and lists, Neo4j nodes, Qdrant points, Postgres rows | skip check, record, candidates | all four stores | `CompanyMemory`, `CompanyDedup` |
| Events and stream `core/events.py`, `routes/stream.py` | pub/sub subscriptions | publish, subscribe, forward | Redis, browser | `RunStream` |
| Review `routes/hitl.py` | `hitl_queue` rows | list, approve, reject, edit | Postgres, Redis | `Review` |
| Results `routes/results.py` | none | assemble, approve, reject | audit log, Redis, Neo4j | `Review` |
| Web monitor `core/` | seen articles | collect with retries, deduplicate | connectors, shared memory | `WebMonitor` |
| Web enricher, intent parser | none | read a company's site | web, language model | `Targeting`'s `Research` |
| Auth, start-up, migrations, seed scripts, front end, standalone pipeline scripts | | | | not modelled (section 6) |

**What is hard here.** The row's status is written by three kinds of process
with no lock and no version column, each write being a SELECT and, after an
await, an UPDATE of the columns that changed; reviewers and tenants edit their
rows the same way. Delivery is at least once and Redis, the broker, keeps
nothing across a restart. Revocation is a broadcast. The user chooses the order
of the agents. Four stores are written concurrently and their failures are only
logged; two of them answer "already processed?". Pub/sub forgets. A gather
without `return_exceptions` leaves coroutines behind. Thresholds of three agents
meet in one recommendation. `PROJECT.json` lists each hazard at its line.

**What makes each part correct.** Runs: an unfinished run has somebody to
finish it; one worker executes it; a cancel is final once its revocation is
delivered; stream and row agree at the end. Planner: only lists the graph
cannot express fail; a review ends the chain; no decision behind a review; the
agents that ran are those the list names. Memory: a known company stays
skipped, Redis never claims more than Neo4j confirms, a failing store costs only
its own data. Stream: completion is never announced early, and who subscribed
in time is told. Review: the queue matches the passes that stopped; decisions
and edits are lost only in named races; a pass's own writes never hide its
verdict. Targeting: what it takes to be recommended, disqualified or reviewed;
whose rules score a run; a deleted configuration stays deleted. Web monitor:
once per window, nothing marked or dropped undelivered, an honest outcome, and
every step ends.

## 2. Modules and how they correspond to the code

**`RunLifecycle`** - one run. `row` is the `agent_runs` row; `creator`, `cancel[c]`
and `stage[w]` are the program counters of the creating request, of each DELETE
and of each worker's coroutine; `seenByCreator`, `seenBy[c]` and `seen[w]` are
the status a pending `BaseRepository.update` has SELECTed. `Updated` is the
UPDATE: SQLAlchemy leaves out a column set to the value it was loaded with.
`Writes`/`Continues` is the table of the six places a worker updates the row,
`Handler` the except branches around them. `queued`, `held`, `revoking`,
`revoked` are the broker and the workers' remote control. A publish may return
(`Publish`), raise before Redis has it (`Raise`), or raise after Redis and the
subscribers have it, when its reply and those of the client's retries are lost
(`PublishUnanswered`). `lost` (why work was given up without writing the row),
`expired` (a visibility timeout has delivered the task a second time) and
`unanswered` (a `run_completed` was published and yet raised) are history
variables.

**`PlannerGraph`** - `PlannerAgent.run` for one company: `Build` is
`build_planner_graph`, `CheckSkip` the first node and its edge,
`SkipNode`/`RunNode` the wrapper of `_make_node`, `Edge` the edges including the
closed-over `nxt`, `Finish` the fallback record, `StoreRaises`/`RaisesOut` the
exception path. An agent is its set of outcomes: the status it returns, the
writes it has made by then, whether its failure was announced.

**`CompanyPass`** - the contract `RunLifecycle` relies on for its stage
`"graph"`; `PlannerGraph` is shown to implement it (`ImplementsPass`), so the two
modules compose without a product of their states.

**`RunStream`** - extends `RunLifecycle` with browser streams. Since `feed` only
grows, a subscription is a position in it.

**`CompanyMemory`** - `should_skip_company` and `record_company_enriched` for one
company: `stored` is what the four stores hold, `todo[p]` the four gathered
coroutines of pass `p`. **`CompanyDedup`** is its abstract specification: a
company's knowledge level (`Knowledge`) and each pass's verdict (`VerdictAt`); the refinement
`DecisionsLinearise` says the several-step checks behave as one atomic decision.

**`Scoring`** - the agents' arithmetic as operators, in ten-thousandths, to which
the code rounds: trigger score, rule share and semantic part of the ICP score,
data quality, issues, hard failure, recommended action. A company is its facts
(the truthy fields of `company_data`) and those of them that satisfy a rule; a
configuration is its keys.

**`Targeting`** - from a tenant's configurations to the recommendation.
`configs` is the tenant's `icp_configs`; `editor[e]` a PUT or DELETE request with
its check, its load and its commit (`ActiveAfter`: only columns that differ from
those loaded are written); `pass[p]` the graph's state, from the creating route
(`CreateRun` nests the rules, `ExecuteWorkflow` passes them flat and stores them
as one more active configuration) through `Research`, `PreScore` and the six
agents, any of which may raise (`Fails`). What the Studio extracts or is
overridden with (`Extras`) is a set of keys, the keys it nests under `icp_rules`
or `rules_json`, and a semantic score of its own, which the scorer takes when
the search has left none (`Similarity`). `graph`, `vectors` and `processed` are
the companies in Neo4j, in Qdrant and in the tenant's set in Redis; `Record`
writes any subset of the three, since the failure of one is only logged.

**`Review`** - what people do with a company after its passes. `items` is
`hitl_queue`, `request[q]` a reviewer's request (`Verify`, `Load`, `Commit`,
`Announce`), `newest` the last entry of the company's episodic list (the only one
`results.py` looks at), `audit` and `known` the sources of `get_results`, whose
steps are `view`. `Step(r)` is a pass as far as its traces show there, with
repeated deliveries, repeated appends after a lost reply (`SavesAgain`) and
failing calls.

**`WebMonitor`** - `WebMonitorAgent.execute`. `src[e]` holds one record for each
coroutine of the gather of execution `e`; `Acquire` is the semaphore and what
happens before the first await, `Fetch` and `Retry` the connector with its
retries, `GatherFails` and `Gather` the end of the gather and the normalisation
behind it (a record that cannot be normalised fails the step), `Recall` and
`Remember` one turn of the deduplication loop. `now[e]` is read once before the
loop. `raced` is a history variable: two executions deduplicated at once.

**`FoldLemmas`** - lemmas about the community modules' folds that several proofs
need: flattening a sequence of sequences, and sums over finite sets.

`MC*` modules give the constants their model values. Operators whose comment
begins with *Mutant* are variants of the definition that follows them: each is a
bug that could plausibly be made there, and substituting it makes the named
property fail. No specification uses them.

## 3. Runs

| Run | Question | Result |
|---|---|---|
| `run_all` | every fault, 2 workers, 2 companies, 1 cancel, both creating routes: is a run ever abandoned without a recorded reason (`NoSilentAbandon`, and `AbandonInv`, the invariant its proof uses); does a failed row stay failed; does the last event agree with the row, but for a completion published and yet raised; is the task executed once at a time; is a fully delivered revocation final | holds |
| `stream_live` | fair workers, exceptions, broker down, API dying, one cancel, 2 companies: every run settles; a viewer that subscribed in time is told; completion is never announced before it is committed, nor taken back but by a cancel or by its own publish raising | holds |
| `graph_all` | all selections up to 3 of 8 ids and the two full chains, agents and stores failing: reviews end the chain, no decision behind one, which lists can fail, which agents run, what is recorded; the pass implements `CompanyPass` and ends | holds |
| `memory_all` | 2 tenants, 2 concurrent passes that restart, any flushes, one failing call or worker: known companies are skipped, marks are backed, stores fail alone, decisions linearise | holds |
| `monitor_all` | 2 executions over one memory that is absent, local or remote and failing; good, failing, invalid and unregistered sources: repeats need a race, what is marked or collected is delivered or lost for a named reason, the outcome is honest, every step and every coroutine ends | holds |
| `review_all` | 2 runs of a company, 2 deliveries, one failing call, lost reply or expiry, 3 visits of reviewers, buttons and readers: the queue matches the pauses, a pass's verdict is not hidden by its own writes, decisions and edits are lost only as named, results list the company once | holds |
| `targeting_all` | a pass by either route over companies that meet all, all but one or none of the rules, with configurations created, edited and deleted meanwhile, Studio overrides, and any two failures of agents or records: what is recommended to whom, and by whose rules | holds |
| `run_studio` | "Cancel an in-progress run by revoking the Celery task" | violated: a Studio run's task has another id |
| `run_overwrite` | "cancel in-progress run" | violated: a pending update resurrects the run |
| `memory_skip` | "already been fully processed" | violated: one signal of a pass still recording, or dead, makes the node that the check asks for |
| `monitor_sources` | "one source failing never kills the whole step" | violated: the `KeyError` of an unregistered type escapes the gather |
| `review_verdict` | "try Redis summary first" | violated: a click on a verdict button becomes the last entry, which has no score |

**What `targeting_all` shows about the thresholds.** A run created through
`POST /runs` keeps its rules nested under `icp_rules`, where the pre-score does
not look for a description nor the scorer for a semantic score; without one the
rules give 0.60 when all are met and at most 0.48 otherwise. So one missed rule
disqualifies, meeting all of them is at best "nurture", and "outreach" (from
0.80) is unreachable (`OneMissDisqualifies`). A Studio run gets there in two
ways (`OutreachIsEarned`): the search for its description finds the company
among those the tenant has not processed, or an override hands in a
`semantic_score`, and then also for a company processed before. One that lifts
the score above 1.0 is rejected by `IcpScoreModel` and fails the scorer instead.
A low score's issue
carries its number, so that the exact-string test for a hard failure never
matches it (`HardFail`).

**Bounds.** *Runs*: two workers suffice for every race on the row, because a
third can only repeat what one of the two does; `MaxDeliveries` (copies of the
task ever queued) of 2 gives one redelivery, and the proofs cover the others.
Two companies show the loop's flip between completed and running; the real lists
have 1 or 3. `MaxEvents` there caps only the agents' failure events, not the
task's own. *Planner*: selections of three ids contain every pair of neighbours
and every position of a validation in a chain with aliases, repeats and unknown
ids; the full chains add length six. *Memory*: two passes are needed for any
race; they restart, so histories are unbounded. `memory_all` has one of the two
`Others` (Qdrant, Postgres), which no step reads. `MaxMishaps` (store calls that
raise, workers that die) is 1: the state a mishap leaves can be reached again by
the next pass; flushes are not bounded. *Targeting*: one pass, since passes meet
only in the three stores, whose earlier contents `Init` chooses, each by itself;
`MaxConfigs` of 2 leaves a choice of active configurations, `MaxEvents` of 2
allows any two of edits, failing agents, incomplete records and flushes. Four
overrides: none, a lone fact, flat rules with a description, and nested rules
with a semantic score of 1.5, which is rejected beside rules that are all met
and accepted otherwise. *Review*: `MaxDeliveries` of
2 is either two runs or one run delivered twice; `MaxVisits` of 3 is two racing
requests and a reader. *Monitor*: `MaxRetries` and `Window` of 1 have every
outcome of a retry and of a window; `MaxClock` of 1 lets a mark expire once. The
proofs of section 4 need none of these bounds. Workers, requests, passes,
tenants, runs and editors are symmetric where a run says `SYMMETRY`, which runs
with liveness properties do not.

**Faults.** `RunLifecycle` takes its faults from the set `Faults`; each run names
those it allows: worker crash and restart, visibility timeout, Redis flush, an
unreachable broker, an API process that dies, a raising store. `OneExecution`
claims nothing once a visibility timeout has expired, which by design delivers
the task to a second worker. In `PlannerGraph` a pass ends `"raised"` by the
graph's own error and `"aborted"` by a store that is down. In `Targeting`,
`Review` and `CompanyMemory` any agent, call or store write may fail within the
bound, each of the gathered writes by itself; in
`WebMonitor` every fetch may fail in each way its connector distinguishes, and a
remote memory may raise at any call, applied or not.

**Deadlock** checking is off: a run settles, a pass returns, a step ends.

**Fairness.** `RunLifecycle!Fairness`: a live worker process keeps executing its
coroutine (weak fairness of `Work(w)`); a compiled graph is finite, so it returns
although it may pass through its summary first (strong fairness of `GraphEnds`);
a revocation broadcast is delivered; a request handler that has begun is
scheduled until it ends or its process dies. No fault, cancel or agent failure
is fair. `PlannerGraph!FairSpec`: the coroutine is alone on its event loop and
its awaits end. `StreamFair` adds the generator's poll loop.
`WebMonitor!Fairness`: the event loop runs every coroutine; fetches have
timeouts and backoffs are finite; neither `Start` nor the clock is fair.

**Comments that disagree with the code and have no run.**

* `planner.py:183` defines `_route_after_error`, which would end the chain at a
  failed agent; no edge uses it, so the chain goes on (`Edge`).
* `planner.py:300` "Use exact sequence selected by user": ids that are aliases are
  built into the chain and passed over by `planner.py:86` (`SelectionDecides`
  states what happens).
* `planner.py:451` "Fallback: if no summary agent ran": the status is tested, so a
  pass that waits for a review records a second time (`DefaultPassRecords`).
* `runs.py:132` "If Celery is not running, execute inline": the row is set to
  running and nothing executes; `NoSilentAbandon` counts it as a recorded loss.
* `stream.py:74` "Stop streaming on run_completed or run_failed": one agent's
  failure event ends every stream although the run may complete.
* `hitl.py:97` "resume the LangGraph graph execution" and `hitl.py:119`
  "triggering replanning": the planner has no `resume_from_hitl`, so an approved
  item changes its row only (`Commit`).
* `base_connector.py:75` "Any other exception is treated as retryable by default":
  `web_monitor.py:240` gives up on it (`Fetch`).
* `manager.py:257` "verify it also passes Neo4j structural rules": the graph's
  answer is fetched and not used (`Candidate`).

## 4. What is proved

TLAPS checks these for every value of the constants that satisfies the named
assumptions.

`RunLifecycleProofs` (`ConstantsAssumption`):

* `TypeCorrect` - `Spec => []TypeOK`.
* `AbandonHolds` - `Spec => []AbandonInv`, and from it `AbandonSafe` - `Spec =>
  []NoSilentAbandon`. The property is not inductive by itself: a worker counts as owner up to its last update, but an update whose SELECT
  already read the value it writes commits nothing, so the owner must be one
  that is *going to change* the row. `AbandonInv` says so (`Obliged`), adds that
  the fallback branch is only reached when the loss is on record, and that only a
  pending update has read anything. One lemma per group of actions
  (`AbandonWork`, `AbandonMishap`, `AbandonRest`), one step per action;
  `KeepsDuty` is the fact they share: a step that leaves another worker alone
  leaves its obligation alone.
* `CancelHolds` - `Spec => CancelHoldsOnceRevoked`, from type correctness: a
  worker that knows the id as revoked can only forget it by restarting.
* `ExecutedOnce` - `Spec => []OneExecution`, by `OneInv`: before the creator has
  sent the task nobody can execute it, and an expired timeout has sent it again.
* `FailedStays` - `Spec => FailedIsFinal`, by `FailInv`: in a task sent once, a
  failed row means that its only execution is past every other update.
* `FeedAgrees` - `Spec => []FeedAgreesWithRow`. `CommitInv` follows a completion
  from the SELECT that found it or the update that wrote it (`Completing`) to its
  event, and allows the row of one announced to read failed only after its
  publish was `unanswered`; `AgreeInv` does the same for both outcomes and says
  that an acknowledgement due, or nobody at work, means agreement. `Moves` sums
  up where a step that leaves the row alone may take a worker. The exception is
  real: viewers were told of a completion, and the except branch, which cannot
  know, writes failed.

* `TaskIsFinite` - the half of `RunSettles` that needs no fairness. A worker that
  moves takes a delivery, runs agents of one company's graph, or lowers `TaskLeft`,
  whatever is raised, lost or revoked: an except branch is always nearer to the
  end than what it is reached from. That the graph itself ends is `PassIsFinite`.

`RunStreamProofs`, for any number of viewers:

* `RunUndisturbed` - `StreamSpec => Spec`: what is proved of the run alone holds
  of the run with its viewers. The others use it with `CommitInv` and `AbandonInv`.
* `StreamTypes` - `StreamSpec => []StreamTypeOK`, since the feed only grows
  (`FeedGrows`), and `CompletedCommitted` - `StreamSpec => []CompletedIsCommitted`.

* `EndIsPublished` - the half of `ViewerIsTold` that needs no fairness: a run at rest
  with no loss on record and no publish that raised has published its end. By
  `ToldInv`: what was sent is queued, has an event still to publish (`Unpublished`),
  or was announced.

`PlannerGraphProofs`, for every list of ids (`CustomIdsAssumption`,
`SelectionsAssumption`: ids are strings). `Listed` ties the chain to the list
it was built from, position by position:

* `ReviewEnds` - `Spec => []ReviewEndsChain` and `NoDecision` - `Spec =>
  NoDecisionBehindReview`, by `ReviewInv`: a review is asked for by the validation
  at which the pass stands, and an item without a review is an orphan of a
  failure.
* `ListDecides` - `Spec => []SelectionDecides`, by `RanInv`: what ran is, up to
  where the pass stands, exactly what the list names.
* `RunnableListReturns` - `Spec => []RunnableReturns`: the routes of a list with at
  most one agent behind a validation stay inside their edge maps.
* `DefaultRecords` - `Spec => []DefaultPassRecords`, by `DefaultInv`: the summary,
  last of six, writes the only record but the fallback's.
* `ChainBounds` - `Spec => []TypeOK`: the chain is made of known ids, the pass
  stays inside it (`BoundInv`), and the effects of a node are counted once.
* `PassIsFinite` - every step lowers `StepsLeft`, a natural number that is 2 n + 3
  for a chain of n agents. With the fairness of `FairSpec` this is why a pass ends.
* `StepsOfPass` - `Spec => Pass!Init /\ [][Pass!Next]_(Pass!passVars)`, the safety
  half of the refinement of `CompanyPass`.

`CompanyMemoryProofs`, for all sets of tenants and passes and every `MaxMishaps`
in `Nat` (`MishapsAssumption`), whatever `Others` there are besides Neo4j and Redis
(`OthersAssumption`: no name stands for two things). All five properties of `memory_all`:

* `TypeCorrect` - `Spec => []TypeOK`, with `Rests`: what a store still has to
  receive is a suffix of its program (`NextWrite`).
* `KnownSkips` - `Spec => []KnownIsSkipped`. Strengthened (`KnownInv`) by "a pass
  that must skip implies the node" and "a pass that back-fills implies the
  node"; the first is what survives a flush between the two reads, since nothing
  removes a node (`StoresKeep`).
* `MarksAreBacked` - `Spec => []MarkIsBacked`. `BackedInv` adds the debt of every
  pass that is writing a record, whether or not its mark is there yet;
  `DebtStep` says how a debt is settled, `NewMark` who can set a mark.
* `FailuresStayApart` - `Spec => []StoresFailAlone`, from `LandedInv`: each write of
  a coroutine that has not raised is made or still to be made.
* `Linearises` - `Spec => DecisionsLinearise`, the refinement of `CompanyDedup`:
  `CheckRedis` or `CheckGraph` is the decision, every write is `Learn` or a stutter
  (`Learning`), a flush is `Forget` or a stutter.

`TargetingProofs`, for all companies, facts, configurations, editors and passes
(`InputsAssumption`: numbers of people are natural, growths are integers,
similarities lie in the unit interval, a company has finitely many facts, the
bounds are natural, and a score or rules that come with a request are under their
keys; the score itself is any integer). All five properties of `targeting_all`:

* `ScoresInRange` - `Spec => []TypeOK`: every score stays between 0.0 and 1.0.
  `TriggerBounds` and `QualityBounds` bound the two that are sums over sets, by
  the lemmas of `FoldLemmas`; a score a request inflates is rejected, not stored.
  `SizeInv` adds the bounds on configurations and events, and that the stores
  hold nothing but companies. No store is a subset of another: each write of a
  record may fail by itself.
* `OutreachEarned` - `Spec => []OutreachIsEarned`. `Inv` says of a pass, wherever
  it is, what its later fields may be: `Searched` (a hit needs a flat
  description and a company new to the tenant, a score of its own a Studio run),
  `Scored` (0.80 needs a semantic part of 0.20, whichever of the two it is from,
  and a scorer that did not fail, by `ScoreBounds`), `Judged` (contacts and a
  passed validation need agents that did not fail). One lemma per step of a pass.
* `OneMiss` - `Spec => []OneMissDisqualifies`. `PlainInv` ties the score, the
  verdict and the action of a run without failing agents to the operators of
  `Scoring`; `RulePartBounds` and `RulesDecide` are the arithmetic, for any set of
  the five rules: 0.60 if all are met, at most 0.48 if one is missed, 0 without a
  rule; `NoHardFailure` says that no issue is a hard failure.
* `StaysDeleted` - `Spec => DeletedStaysDeleted` and `OwnRules` - `Spec =>
  OwnRulesFirst`, action properties by `Inv`: a commit touches `is_active` only
  when the request asks for another value than it loaded; no step but a pass's
  own changes that pass (`StepsTouchOne`).

`ReviewProofs`, for all runs, requests and verdicts and every bound
(`NamesAssumption`: nobody and a reviewer are not runs; `BoundsAssumption`: the
runs are finitely many, the bounds natural). All six properties of `review_all`,
each by an invariant of its own over `TypeInv`, the types without the bounds:

* `QueueBounds` - `Spec => []TypeOK`. `CountInv` says that the queue has no
  more items than there are executions past their validation (`Validated`, summed
  over the runs), and that a run's audit entries and those its execution may still
  append (`Left`) are two at most for each of its executions; `RangeInv` keeps the
  requests on items that exist, and the other counters in their ranges.
* `QueueMatches` - `Spec => []QueueMatchesPauses`, by `QueueInv`: no item is of an
  execution that has not begun, and none of the present one is there before its
  validation, so that the item a pause inserts is the only one.
* `RepeatsOnly` - `Spec => []OnlyRepeatsAreIgnored`, by `DecisionInv`: the last
  request on an item has committed, so that what it found no longer changes.
* `EditsKept` - `Spec => []EditsAreLostToRacesOnly`, by `EditInv`: a payload holds
  committed edits only, and an edit on its way has in its copy all it knew of,
  except what was already lost to a race. That a commit always writes (its keys
  are not in the row it loaded) follows from the first part.
* `OwnVerdict` - `Spec => []OwnVerdictShows`, by `EntryShows`: until its summary a
  pass's own entry is undecided, during it the entry may be the one a lost reply
  left; other runs and reviewers replace the entry but never write in its name.
* `Listed` - `Spec => []ListedOnce`, inductive with the types.

`WebMonitorProofs`, for any number of executions, lists of sources and records,
retries (`NatAssumption`, `SetupAssumption`: at least one slot,
`SourcesAssumption`). All of `monitor_all`'s safety:

* `SlotsAndAttemptsBounded` - `Spec => []TypeOK`. `SourceBounds` adds that a source
  in its backoff has an attempt left; `Moved` is what one step of a coroutine does
  to its source, so that `SlotBound` only has to count the one that takes a slot;
  `ClockBounds` keeps every mark within the clock.
* `EveryStepAdvances` and `SlotsComeBack` - the two halves of `StepEnds` that need no
  fairness. Every step but the clock's ends a part of one execution, or lowers
  what its loop (`TurnsLeft`) or one of its sources (`CallsLeft`) may still do; and
  while a coroutine has not ended, one is at work or may take a free slot.
* `HonestResult` - `Spec => []ResultIsHonest`, by `HonestInv`: sources that have
  all ended do not move any more (`EndedStay`). An answer without records counts
  as one.
* `MarksDeliver` - `Spec => []MarkedIsDelivered`, inductive with the types: a step
  marks only what it delivers or loses with its memory (`MarksOfStep`), and a
  claim once made is kept (`ClaimsKept`).
* `NoneDropped` - `Spec => []NothingIsDropped`, by `DropInv`: what was collected is
  still in the batch or accounted for. An article recalled as seen is accounted
  for by whoever `MarkedIsDelivered` names.
* `NoRepeatAlone` - `Spec => []RepeatsNeedARace` for `Window > 0` (with an empty
  window every mark is expired at once). `RaceInv` adds that two who deduplicate
  at once are known to have raced, that an execution that was alone is not later
  than those still at work, that its marks are at its time or later, and that
  what it recalled as unseen is still unseen.

`FoldLemmas`. Induction over data is not available, since the library's theorems
take an operator; a minimal counterexample stands in for it. `Least` is
well-foundedness of `<`. `ConcatenationExists` and `ConcatenationTyped` find no least
length at which flattening is undefined or leaves the sequences of the elements
(`FlattenTyped`); the sums over finite sets (`SumBounded`, `SumChanges`,
`SumMonotone`) take a smallest set in the same way.

**Only model-checked.** Liveness and ENABLED are out of the prover's reach:
`RunSettles`, `ViewerIsTold`, `StepEnds` and the fairness half of
`ImplementsPass`. Every safety invariant and action property of the passing runs
is stated by a theorem, and of each liveness property the part that needs no
fairness is proved: `TaskIsFinite`, `EndIsPublished`, `EveryStepAdvances` and
`SlotsComeBack`, `PassIsFinite`.

## 5. Assumptions worth knowing

* A worker process terminated by `revoke(terminate=True)` has its delivery
  acknowledged; an idle worker that restarts forgets the revoked ids.
* LangGraph accepts a node's empty update, as its recent versions do
  (`_filter_available_agents` always returns one), and raises on a repeated node
  name, an unknown first node and a route outside the edge's own map.
* Custom agents' ids are not those of core agents (the code would let one replace
  a core agent).
* Both creating routes put `force` in the configuration, so the skip check runs
  only when a Studio override takes it out and no agents are selected;
  `PlannerGraph` and `CompanyMemory` cover both cases, `Targeting` leaves the
  check out. Other overrides of a Studio run: one of `company_domain` only
  chooses another company, one of `max_companies` has no reader, and a
  `semantic_score` that is not a number is a scorer that fails (`Fails`).
* In `Targeting` a missing industry is the empty string or None (`blank`): the
  first matches every list of industries, the second raises. An empty
  list of industries is a key that no rule evaluates, as `funding_stage` is.
* The Redis client repeats a publish whose reply it misses, so that subscribers
  may see an event several times. `RunLifecycle` has it once: the stream ends at
  the first copy.
* In `Review` a score is any verdict: how it comes about is `Targeting`'s subject.
* `WebMonitor` tells articles by the hash of their url. Records without a url
  share one hash and are outside it. `InMemoryMemoryService` never yields, so its
  deduplication is atomic; a remote store is any service behind the interface.
  A process that dies between a remote mark and its delivery is left out; it
  would lose the article as a raising memory does.
* The readers of Neo4j and Qdrant other than the skip check and the candidate
  search, and data written there by hand, are not modelled.

## 6. Not modelled

* *Custom-agent files* (`studio.py` `build_custom_agent`): two files written one
  after the other; only one of them is read, and one that does not parse is passed
  over, which `PlannerGraph` sees as an unknown id.
* *Authentication*: a check and one transaction under a unique column, otherwise
  tokens and hashing, which have no state.
* *Standalone scripts* (`pipeline.py` and its agents): not imported by the
  application, and their calls disagree with the signatures they call, so that
  they have no behaviour to model.
* Start-up wiring, migrations, seed and smoke-test scripts, page parsing, language
  model prompts, the front end: no state of their own, or pure I/O whose failures
  `tasks.py` swallows.
