------------------------------ MODULE WebMonitor ------------------------------
(***************************************************************************)
(* WebMonitorAgent: BaseAgent.execute, the concurrent collection of the    *)
(* configured sources with retries, and the deduplication against shared   *)
(* memory.  Several executions share one event loop and one memory.        *)
(*                                                                         *)
(* An article is its id, the hash of its url.  A connector is the set of   *)
(* results fetch() can have.  Contents, labels and timings are left out.   *)
(***************************************************************************)
EXTENDS Naturals, Sequences, FiniteSets, SequencesExt

CONSTANTS
  Executions,   (* calls of execute(); each runs once                      *)
  Articles,     (* article ids                                             *)
  Collections,  (* the lists of sources a workflow may configure           *)
  Batches,      (* the lists of records a feed or a search may return      *)
  Setups,       (* agents: their memory, max_concurrent_sources, registry  *)
  MaxRetries,   (* max_retries                                             *)
  Window,       (* dedup_ttl_seconds, in ticks                             *)
  MaxClock,     (* Bound: ticks in a behaviour                             *)
  Never         (* not in memory                                           *)

ASSUME NatAssumption ==
  {MaxRetries, Window, MaxClock} \subseteq Nat /\ Never \notin Nat

\* "local" is InMemoryMemoryService, whose get and set never yield nor raise;
\* "remote" a store behind the same interface, whose every call does both.
ASSUME SetupAssumption ==
  Setups \subseteq [memory : {"none", "local", "remote"}, slots : Nat \ {0},
                   registry : BOOLEAN]

\* An RSSHub or website url, a query: the configured text as an article's id.
ASSUME SourcesAssumption ==
  /\ Batches \subseteq Seq(Articles)
  /\ Collections \subseteq
       Seq([type : STRING, valid : BOOLEAN, url : Articles])

Types  == {"rss", "website", "search", "firecrawl"}

VARIABLES
  setup,    (* the agent under test, fixed                               *)
  src,      (* src[e]: the coroutines of e's gather, one record a source   *)
  step,     (* step[e]: where execute() is                                 *)
  cause,    (* cause[e]: why the step failed                               *)
  now,      (* now[e]: time.time() read when the deduplication began       *)
  batch,    (* batch[e]: normalized articles the loop has still to look at *)
  unseen,   (* unseen[e]: the head of batch was recalled as not seen       *)
  fresh,    (* fresh[e]: the articles to deliver                           *)
  seen,     (* seen[a]: first_seen_at in shared memory                     *)
  clock,
  raced     (* history: e deduplicated while another execution did         *)

dedup == <<now, batch, unseen, fresh, seen, raced>>
vars  == <<setup, src, step, cause, now, batch, unseen, fresh, seen, clock, raced>>

Init ==
  /\ setup \in Setups
  /\ src = [e \in Executions |-> <<>>]
  /\ step = [e \in Executions |-> "idle"]
  /\ cause = [e \in Executions |-> "none"]
  /\ now = [e \in Executions |-> 0]
  /\ batch = [e \in Executions |-> <<>>]
  /\ unseen = [e \in Executions |-> FALSE]
  /\ fresh = [e \in Executions |-> <<>>]
  /\ seen = [a \in Articles |-> Never]
  /\ clock = 0
  /\ raced = [e \in Executions |-> FALSE]

-----------------------------------------------------------------------------
\* The connectors.  An error is retryable, permanent or not a ConnectorError.
Records(r) == [kind |-> "records", records |-> r]
Error(k)   == [kind |-> k, records |-> <<>>]

\* A timeout, a 5xx or an unparsable feed; a 4xx; feedparser raising.
RssFetch(s) ==
  {Records(r) : r \in Batches} \union
  {Error("retryable"), Error("permanent"), Error("unexpected")}

\* One page, under the url that was configured.
WebsiteFetch(s) ==
  {Records(<<s.url>>), Error("retryable"), Error("permanent"), Error("unexpected")}

\* As RssFetch; without an API key, or with one that is rejected, permanent.
SearchFetch(s) ==
  {Records(r) : r \in Batches} \union
  {Error("retryable"), Error("permanent"), Error("unexpected")}

\* One page, under the url Firecrawl reports.
FirecrawlFetch(s) ==
  {Records(<<a>>) : a \in Articles} \union
  {Error("retryable"), Error("permanent"), Error("unexpected")}

FetchOutcomes(s) == CASE s.type = "rss"       -> RssFetch(s)
                      [] s.type = "website"   -> WebsiteFetch(s)
                      [] s.type = "search"    -> SearchFetch(s)
                      [] s.type = "firecrawl" -> FirecrawlFetch(s)

-----------------------------------------------------------------------------
\* The collection.
\* Mutant: a source that has failed keeps its slot.
HoldingForever == {"fetching", "backoff", "failed"}

Holding == {"fetching", "backoff"}
Ended   == {"ok", "failed", "raised"}

InPhase(e, P) == {i \in DOMAIN src[e] : src[e][i].phase \in P}
AllEnded(e)   == InPhase(e, Ended) = DOMAIN src[e]

Phase(e, i, p)     == src' = [src EXCEPT ![e][i].phase = p]
Attempt(e, i, p)   == src' = [src EXCEPT ![e][i].phase = p, ![e][i].attempts = @ + 1]

FailStep(e, why) ==
  /\ step' = [step EXCEPT ![e] = "failed"]
  /\ cause' = [cause EXCEPT ![e] = why]

\* execute and run up to the gather: a missing state key or an empty list of
\* sources fails the step at once.
Start(e) ==
  /\ step[e] = "idle"
  /\ \/ /\ FailStep(e, "input")
        /\ UNCHANGED src
     \/ \E c \in Collections :
          /\ c # <<>>
          /\ src' = [src EXCEPT ![e] =
                       [i \in DOMAIN c |-> [source |-> c[i], phase |-> "queued",
                                            attempts |-> 0, records |-> <<>>]]]
          /\ step' = [step EXCEPT ![e] = "gathering"]
          /\ UNCHANGED cause
  /\ UNCHANGED <<setup, clock, dedup>>

\* The semaphore is fair: sources get their slots in order.  Before the first
\* await: get_connector, then validate_config.  Without a registry that is an
\* AgentExecutionError, the source's own failure; but for a type that is not
\* registered it is a KeyError, which _fetch_one_source does not catch.
Acquire(e, i) ==
  LET s == src[e][i].source IN
  /\ src[e][i].phase = "queued"
  /\ \A j \in 1..i - 1 : src[e][j].phase # "queued"
  /\ Cardinality(InPhase(e, Holding)) < setup.slots
  /\ CASE ~setup.registry                         -> Phase(e, i, "failed")
       [] setup.registry /\ s.type \notin Types   -> Phase(e, i, "raised")
       [] setup.registry /\ s.type \in Types      ->
            Attempt(e, i, IF s.valid THEN "fetching" ELSE "failed")
  /\ UNCHANGED <<setup, step, cause, clock, dedup>>

\* Mutant: one attempt too many.
MayRetryOnceMore(e, i) == src[e][i].attempts <= MaxRetries + 1

MayRetry(e, i) == src[e][i].attempts <= MaxRetries

\* fetch() answers.  The slot is kept during the backoff.
Fetch(e, i) ==
  /\ src[e][i].phase = "fetching"
  /\ \E o \in FetchOutcomes(src[e][i].source) :
       CASE o.kind = "records" ->
              src' = [src EXCEPT ![e][i].phase = "ok", ![e][i].records = o.records]
         [] o.kind = "retryable" /\ MayRetry(e, i) -> Phase(e, i, "backoff")
         [] OTHER -> Phase(e, i, "failed")
  /\ UNCHANGED <<setup, step, cause, clock, dedup>>

Retry(e, i) ==
  /\ src[e][i].phase = "backoff"
  /\ Attempt(e, i, "fetching")
  /\ UNCHANGED <<setup, step, cause, clock, dedup>>

-----------------------------------------------------------------------------
\* The deduplication.
Deduping == {e \in Executions : step[e] = "deduping"}

\* InMemoryMemoryService does not yield: one loop runs from end to end.  Steps
\* of collections, which do not touch the memory, commute with it.
MayDedupe == setup.memory = "local" => Deduping = {}

\* The normalized records, in the order of the sources.
Collected(e) == FlattenSeq([i \in DOMAIN src[e] |-> src[e][i].records])

\* Continue with the rest of the batch; after the last article the step
\* succeeds: build_result is total on normalized articles.
Loop(e, rest) ==
  /\ batch' = [batch EXCEPT ![e] = rest]
  /\ step' = [step EXCEPT ![e] = IF rest = <<>> THEN "done" ELSE "deduping"]

Raised(e) == InPhase(e, {"raised"}) # {}

\* Mutant: gather returns with the first result.
GatherEndsFirst(e) == InPhase(e, Ended) # {}

\* gather is over when every coroutine has ended, or one has raised; then the
\* others go on unobserved.
GatherEnds(e) == AllEnded(e) \/ Raised(e)

\* An exception escaped, no source succeeded, or one brought a record that
\* _normalize raises for: its url or title is no string.
GatherFails(e) ==
  /\ step[e] = "gathering" /\ GatherEnds(e)
  /\ \/ Raised(e) /\ FailStep(e, "escape")
     \/ ~Raised(e) /\ InPhase(e, {"ok"}) = {} /\ FailStep(e, "sources")
     \/ ~Raised(e) /\ Collected(e) # <<>> /\ FailStep(e, "record")
  /\ UNCHANGED <<setup, src, clock, dedup>>

Gather(e) ==
  /\ step[e] = "gathering" /\ GatherEnds(e) /\ ~Raised(e)
  /\ InPhase(e, {"ok"}) # {}
  /\ IF setup.memory = "none"
     THEN /\ fresh' = [fresh EXCEPT ![e] = Collected(e)]
          /\ step' = [step EXCEPT ![e] = "done"]
          /\ UNCHANGED <<batch, now, raced>>
     ELSE /\ MayDedupe
          /\ now' = [now EXCEPT ![e] = clock]
          /\ Loop(e, Collected(e))
          /\ raced' = IF Collected(e) = <<>> \/ Deduping = {} THEN raced
                      ELSE [f \in Executions |-> raced[f] \/ f = e \/ f \in Deduping]
          /\ UNCHANGED fresh
  /\ UNCHANGED <<setup, src, cause, unseen, seen, clock>>

\* Mutants: articles that are in memory never resurface, or always do.
ExpiredNever(e, a)  == seen[a] = Never
ExpiredAlways(e, a) == seen[a] = Never \/ now[e] >= seen[a]

\* recall: absent or older than the window, measured from e's own now.
Expired(e, a) == seen[a] = Never \/ now[e] >= seen[a] + Window

\* Mutant: the mark is set before the check.
RecallMarks(e) ==
  /\ step[e] = "deduping" /\ ~unseen[e]
  /\ Loop(e, Tail(batch[e]))
  /\ seen' = [seen EXCEPT ![Head(batch[e])] = now[e]]
  /\ UNCHANGED <<setup, src, cause, now, unseen, fresh, clock, raced>>

Recall(e) ==
  /\ step[e] = "deduping" /\ ~unseen[e]
  /\ IF Expired(e, Head(batch[e]))
     THEN unseen' = [unseen EXCEPT ![e] = TRUE] /\ UNCHANGED <<batch, step>>
     ELSE Loop(e, Tail(batch[e])) /\ UNCHANGED unseen
  /\ UNCHANGED <<setup, src, cause, now, fresh, seen, clock, raced>>

Mark(e) == seen' = [seen EXCEPT ![Head(batch[e])] = now[e]]

\* remember, then append.
Remember(e) ==
  /\ step[e] = "deduping" /\ unseen[e]
  /\ Mark(e)
  /\ fresh' = [fresh EXCEPT ![e] = Append(@, Head(batch[e]))]
  /\ unseen' = [unseen EXCEPT ![e] = FALSE]
  /\ Loop(e, Tail(batch[e]))
  /\ UNCHANGED <<setup, src, cause, now, clock, raced>>

\* A call on a remote store raises; a set may have been applied.  What was
\* marked and not yet returned is delivered by nobody.
MemoryRaises(e) ==
  /\ setup.memory = "remote" /\ step[e] = "deduping"
  /\ \/ UNCHANGED seen
     \/ unseen[e] /\ Mark(e)
  /\ FailStep(e, "memory")
  /\ UNCHANGED <<setup, src, now, batch, unseen, fresh, clock, raced>>

Tick ==
  /\ clock < MaxClock
  /\ clock' = clock + 1
  /\ UNCHANGED <<setup, src, step, cause, dedup>>

Source(e)  == \E i \in DOMAIN src[e] : Acquire(e, i) \/ Fetch(e, i) \/ Retry(e, i)
Execute(e) == GatherFails(e) \/ Gather(e) \/ Recall(e) \/ Remember(e)

Next ==
  \/ \E e \in Executions : Start(e) \/ Source(e) \/ Execute(e) \/ MemoryRaises(e)
  \/ Tick

Spec == Init /\ [][Next]_vars

\* The event loop runs every coroutine; fetches and calls on the memory end
\* (all have timeouts), backoffs are finite.
Fairness == \A e \in Executions :
  /\ WF_vars(Execute(e))
  /\ WF_vars(Source(e))

FairSpec == Spec /\ Fairness

-----------------------------------------------------------------------------
SourceStates ==
  [source : UNION {Range(c) : c \in Collections}, attempts : 0..MaxRetries + 1,
   phase : {"queued"} \union Holding \union Ended, records : Seq(Articles)]

\* Every variable keeps its type: no source is tried more than once and
\* MaxRetries times again, at most slots sources hold a connection, only a
\* deduplicating step has articles to look at, a failed one delivers no more.
TypeOK ==
  /\ setup \in Setups
  /\ src \in [Executions -> Seq(SourceStates)]
  /\ step \in [Executions -> {"idle", "gathering", "deduping", "done", "failed"}]
  /\ cause \in [Executions ->
       {"none", "input", "escape", "sources", "record", "memory"}]
  /\ now \in [Executions -> 0..MaxClock]
  /\ batch \in [Executions -> Seq(Articles)]
  /\ unseen \in [Executions -> BOOLEAN]
  /\ fresh \in [Executions -> Seq(Articles)]
  /\ seen \in [Articles -> 0..MaxClock \union {Never}]
  /\ clock \in 0..MaxClock
  /\ raced \in [Executions -> BOOLEAN]
  /\ \A e \in Executions :
       /\ Cardinality(InPhase(e, Holding)) <= setup.slots
       /\ step[e] = "deduping" => batch[e] # <<>>
       /\ step[e] = "failed" <=> cause[e] # "none"

Apart(e, f) == now[e] >= now[f] + Window \/ now[f] >= now[e] + Window

\* An article is delivered once per window ("downstream agents never reprocess
\* the same article twice") by executions that deduplicated alone: the same
\* execution does not list it twice, and two that do are a window apart.  With
\* InMemoryMemoryService every execution deduplicates alone.
RepeatsNeedARace ==
  setup.memory # "none" =>
    /\ setup.memory = "local" => \A e \in Executions : ~raced[e]
    /\ \A e \in Executions : ~raced[e] => IsInjective(fresh[e])
    /\ \A e, f \in Executions : \A a \in Articles :
         (e # f /\ ~raced[e] /\ ~raced[f] /\ Contains(fresh[e], a) /\ Contains(fresh[f], a))
           => Apart(e, f)

\* A mark is never left by an execution that will not deliver the article,
\* except by one whose memory raised: marking comes before delivering, but
\* no other call comes in between.  (The death of the process, which loses what
\* a remote store has marked, is left out.)
MarkedIsDelivered ==
  \A a \in Articles : seen[a] # Never =>
    \E e \in Executions :
      /\ now[e] = seen[a]
      /\ \/ Contains(fresh[e], a) /\ step[e] \in {"deduping", "done"}
         \/ cause[e] = "memory"

\* Every article a successful step collected is delivered by it, by another
\* execution within the window, or was lost with one whose memory raised.
NothingIsDropped ==
  \A e \in Executions : step[e] = "done" =>
    \A a \in ToSet(Collected(e)) :
      \/ Contains(fresh[e], a)
      \/ \E f \in Executions \ {e} :
           /\ now[e] < now[f] + Window
           /\ Contains(fresh[f], a) \/ cause[f] = "memory"

\* The outcome is honest: a step succeeds only when all its sources have ended
\* and one has answered, be it without records ("silently returning an empty article
\* list" for want of sources is what the failure is there to avoid); it fails for
\* its sources only when all failed.
ResultIsHonest ==
  \A e \in Executions :
    /\ step[e] = "done" => AllEnded(e) /\ InPhase(e, {"ok"}) # {}
    /\ cause[e] = "sources" => InPhase(e, {"failed"}) = DOMAIN src[e]

\* Every step ends, and so does every coroutine of its gather, the unobserved
\* ones included: retries are bounded and slots come back.
StepEnds ==
  \A e \in Executions :
    step[e] = "gathering" ~> (step[e] \in {"done", "failed"} /\ AllEnded(e))

\* "one source failing (even after retries) never kills the whole step": a step
\* one of whose sources has delivered does not fail because of another.
SourcesFailAlone ==
  \A e \in Executions : cause[e] \in {"escape", "sources"} => InPhase(e, {"ok"}) = {}
=============================================================================
