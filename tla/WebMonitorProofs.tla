-------------------------- MODULE WebMonitorProofs --------------------------
(***************************************************************************)
(* Theorems about WebMonitor, for any number of executions that share a    *)
(* memory, any lists of sources and records, and any number of retries.    *)
(***************************************************************************)
EXTENDS WebMonitor, FoldLemmas

-----------------------------------------------------------------------------
(* Sequences.                                                              *)

\* The first article of a batch, and the others.
LEMMA HeadAndTail ==
  ASSUME NEW A, NEW s \in Seq(A), s # <<>>
  PROVE  /\ Head(s) \in A /\ Tail(s) \in Seq(A)
         /\ \A x : Contains(s, x) <=> x = Head(s) \/ Contains(Tail(s), x)
<1>1. Head(s) \in A /\ Tail(s) \in Seq(A) /\ Len(Tail(s)) = Len(s) - 1
      /\ Len(s) \in Nat /\ Len(s) > 0
  OBVIOUS
<1>2. \A i \in 1..Len(s) - 1 : Tail(s)[i] = s[i + 1]
  OBVIOUS
<1>3. Head(s) = s[1]
  OBVIOUS
<1>4. ASSUME NEW x, Contains(s, x), x # Head(s) PROVE Contains(Tail(s), x)
  <2>1. PICK i \in 1..Len(s) : s[i] = x
    BY <1>4 DEF Contains
  <2>2. i - 1 \in 1..Len(s) - 1 /\ Tail(s)[i - 1] = x
    BY <1>1, <1>2, <1>3, <1>4, <2>1
  <2> QED
    BY <1>1, <2>2 DEF Contains
<1>5. ASSUME NEW x, Contains(Tail(s), x) PROVE Contains(s, x)
  <2>1. PICK i \in 1..Len(s) - 1 : Tail(s)[i] = x
    BY <1>1, <1>5 DEF Contains
  <2>2. i + 1 \in 1..Len(s) /\ s[i + 1] = x
    BY <1>1, <1>2, <2>1
  <2> QED
    BY <2>2 DEF Contains
<1>6. Contains(s, Head(s))
  BY <1>1, <1>3 DEF Contains
<1> QED
  BY <1>1, <1>4, <1>5, <1>6

\* One more article.
LEMMA OneMore ==
  ASSUME NEW A, NEW s \in Seq(A), NEW h \in A
  PROVE  /\ Append(s, h) \in Seq(A)
         /\ \A x : Contains(Append(s, h), x) <=> x = h \/ Contains(s, x)
         /\ IsInjective(s) /\ ~Contains(s, h) => IsInjective(Append(s, h))
<1> DEFINE t == Append(s, h)
<1>1. /\ t \in Seq(A) /\ Len(t) = Len(s) + 1 /\ Len(s) \in Nat
      /\ DOMAIN t = 1..Len(s) + 1 /\ DOMAIN s = 1..Len(s)
      /\ t[Len(s) + 1] = h
  OBVIOUS
<1>2. \A i \in 1..Len(s) : t[i] = s[i]
  OBVIOUS
<1> HIDE DEF t
<1>3. \A x : Contains(t, x) <=> x = h \/ Contains(s, x)
  BY <1>1, <1>2 DEF Contains
<1>4. IsInjective(s) /\ ~Contains(s, h) => IsInjective(t)
  BY <1>1, <1>2 DEF IsInjective, Contains
<1> QED
  BY <1>1, <1>3, <1>4 DEF t

-----------------------------------------------------------------------------
(* Types, without the bounds.                                              *)

Phases == {"queued"} \union Holding \union Ended

\* Only a source of a registered type is fetched.
SourceRecords ==
  [source : [type : STRING, valid : BOOLEAN, url : Articles],
   phase : Phases, attempts : Nat, records : Seq(Articles)]
Sources == {x \in SourceRecords : x.phase \in Holding => x.source.type \in Types}

StepTypes ==
  /\ setup.memory \in {"none", "local", "remote"}
  /\ step \in [Executions -> {"idle", "gathering", "deduping", "done", "failed"}]
  /\ cause \in [Executions ->
       {"none", "input", "escape", "sources", "record", "memory"}]

DedupTypes ==
  /\ now \in [Executions -> Nat] /\ clock \in Nat
  /\ batch \in [Executions -> Seq(Articles)]
  /\ unseen \in [Executions -> BOOLEAN]
  /\ fresh \in [Executions -> Seq(Articles)]
  /\ seen \in [Articles -> Nat \union {Never}]
  /\ raced \in [Executions -> BOOLEAN]

\* What an execution holds before and after its loop.
Resting ==
  \A e \in Executions :
    /\ step[e] = "deduping" <=> batch[e] # <<>> /\ step[e] # "failed"
    /\ step[e] = "failed" <=> cause[e] # "none"
    /\ step[e] \in {"idle", "gathering"} => fresh[e] = <<>> /\ ~unseen[e]

SourceTypes == src \in [Executions -> Seq(Sources)]

TypeInv == StepTypes /\ SourceTypes /\ DedupTypes /\ Resting

\* The types hold initially.
LEMMA TypeInit == Init => TypeInv
<1> SUFFICES ASSUME Init PROVE TypeInv
  OBVIOUS
<1>1. StepTypes
  BY SetupAssumption DEF Init, StepTypes
<1>2. SourceTypes
  BY DEF Init, SourceTypes
<1>3. DedupTypes
  BY DEF Init, DedupTypes
<1>4. Resting
  BY DEF Init, Resting
<1> QED
  BY <1>1, <1>2, <1>3, <1>4 DEF TypeInv

\* A change of one source's state.
LEMMA OneSource ==
  ASSUME SourceTypes, NEW e \in Executions, NEW i \in DOMAIN src[e],
         NEW x \in Sources, src' = [src EXCEPT ![e] = [src[e] EXCEPT ![i] = x]]
  PROVE  SourceTypes' /\ \A f \in Executions : f # e => src'[f] = src[f]
<1>1. src[e] \in Seq(Sources)
  BY DEF SourceTypes
<1>2. [src[e] EXCEPT ![i] = x] \in Seq(Sources)
  BY <1>1
<1> QED
  BY <1>2 DEF SourceTypes

\* A source that moves on keeps its type.
LEMMA PhaseTyped ==
  ASSUME SourceTypes, NEW e \in Executions, NEW i \in DOMAIN src[e],
         NEW p \in Phases, p \in Holding => src[e][i].source.type \in Types,
         Phase(e, i, p) \/ Attempt(e, i, p)
  PROVE  SourceTypes' /\ \A f \in Executions : f # e => src'[f] = src[f]
<1>1. src[e] \in Seq(Sources) /\ src[e][i] \in Sources
  BY DEF SourceTypes
<1>2. CASE Phase(e, i, p)
  <2> DEFINE x == [src[e][i] EXCEPT !.phase = p]
  <2>1. x \in Sources
    BY <1>1 DEF Sources, SourceRecords
  <2>2. src' = [src EXCEPT ![e] = [src[e] EXCEPT ![i] = x]]
    BY <1>2 DEF Phase
  <2> HIDE DEF x
  <2> QED
    BY <2>1, <2>2, OneSource
<1>3. CASE Attempt(e, i, p)
  <2> DEFINE n == src[e][i].attempts + 1
             x == [src[e][i] EXCEPT !.phase = p, !.attempts = n]
  <2>1. n \in Nat
    BY <1>1 DEF Sources, SourceRecords
  <2>2. src' = [src EXCEPT ![e] = [src[e] EXCEPT ![i] = x]]
    BY <1>1, <1>3 DEF Attempt, SourceTypes
  <2> HIDE DEF n
  <2>3. x \in Sources
    BY <1>1, <2>1 DEF Sources, SourceRecords
  <2> HIDE DEF x
  <2> QED
    BY <2>2, <2>3, OneSource
<1> QED
  BY <1>2, <1>3

\* Every connector returns records.
LEMMA OutcomeTyped ==
  ASSUME NEW s \in [type : Types, valid : BOOLEAN, url : Articles],
         NEW o \in FetchOutcomes(s)
  PROVE  o.records \in Seq(Articles)
<1>0. /\ \A r : Records(r).records = r
      /\ \A k : Error(k).records = <<>>
  BY DEF Records, Error
<1>1. \/ \E r \in Batches : o = Records(r)
      \/ \E a \in Articles : o = Records(<<a>>)
      \/ \E k : o = Error(k)
  <2>1. CASE s.type = "rss"
    BY <2>1 DEF FetchOutcomes, RssFetch
  <2>2. CASE s.type = "website"
    BY <2>2 DEF FetchOutcomes, WebsiteFetch
  <2>3. CASE s.type = "search"
    BY <2>3 DEF FetchOutcomes, SearchFetch
  <2>4. CASE s.type = "firecrawl"
    BY <2>4 DEF FetchOutcomes, FirecrawlFetch
  <2> QED
    BY <2>1, <2>2, <2>3, <2>4 DEF Types
<1>2. CASE \E r \in Batches : o = Records(r)
  BY <1>0, <1>2, SourcesAssumption
<1>3. CASE \E a \in Articles : o = Records(<<a>>)
  <2>1. PICK a \in Articles : o = Records(<<a>>)
    BY <1>3
  <2>2. <<a>> \in Seq(Articles)
    OBVIOUS
  <2> QED
    BY <1>0, <2>1, <2>2
<1>4. CASE \E k : o = Error(k)
  <2>1. <<>> \in Seq(Articles)
    OBVIOUS
  <2> QED
    BY <1>0, <1>4, <2>1
<1> QED
  BY <1>1, <1>2, <1>3, <1>4

\* A source of a registered type that is being fetched.
LEMMA FetchTyped ==
  ASSUME SourceTypes, NEW e \in Executions, NEW i \in DOMAIN src[e],
         Fetch(e, i)
  PROVE  SourceTypes' /\ \A f \in Executions : f # e => src'[f] = src[f]
<1>1. /\ src[e] \in Seq(Sources) /\ src[e][i] \in Sources
      /\ src[e][i].source.type \in Types
  BY DEF SourceTypes, Fetch, Sources, Holding
<1>2. PICK o \in FetchOutcomes(src[e][i].source) :
        \/ src' = [src EXCEPT ![e][i].phase = "ok", ![e][i].records = o.records]
        \/ Phase(e, i, "backoff") \/ Phase(e, i, "failed")
  BY DEF Fetch
<1>3. CASE src' = [src EXCEPT ![e][i].phase = "ok", ![e][i].records = o.records]
  <2> DEFINE x == [src[e][i] EXCEPT !.phase = "ok", !.records = o.records]
  <2>1. o.records \in Seq(Articles)
    <3>1. src[e][i].source \in [type : Types, valid : BOOLEAN, url : Articles]
      BY <1>1 DEF Sources, SourceRecords
    <3> QED
      BY <3>1, OutcomeTyped
  <2>2. x \in Sources
    BY <1>1, <2>1 DEF Sources, SourceRecords, Phases, Holding, Ended
  <2>3. src' = [src EXCEPT ![e] = [src[e] EXCEPT ![i] = x]]
    BY <1>1, <1>3 DEF SourceTypes
  <2> HIDE DEF x
  <2> QED
    BY <2>2, <2>3, OneSource
<1>4. CASE Phase(e, i, "backoff") \/ Phase(e, i, "failed")
  <2>1. "backoff" \in Phases /\ "failed" \in Phases
    BY DEF Phases, Holding, Ended
  <2>2. \E p \in Phases : /\ p \in Holding => src[e][i].source.type \in Types
                          /\ Phase(e, i, p) \/ Attempt(e, i, p)
    BY <1>1, <1>4, <2>1
  <2> QED
    BY <2>2, PhaseTyped
<1> QED
  BY <1>2, <1>3, <1>4

\* A step of one source touches the sources of its execution only.
LEMMA SourceTyped ==
  ASSUME SourceTypes, NEW e \in Executions, Source(e)
  PROVE  SourceTypes' /\ \A f \in Executions : f # e => src'[f] = src[f]
<1>1. PICK i \in DOMAIN src[e] : Acquire(e, i) \/ Fetch(e, i) \/ Retry(e, i)
  BY DEF Source
<1>2. src[e][i] \in Sources
  BY DEF SourceTypes
<1>3. CASE Acquire(e, i)
  <2>1. "raised" \in Phases /\ "failed" \in Phases /\ "fetching" \in Phases
    BY DEF Phases, Holding, Ended
  <2>2. "raised" \notin Holding /\ "failed" \notin Holding
    BY DEF Holding
  <2>3. \/ Phase(e, i, "failed") \/ Phase(e, i, "raised")
        \/ Attempt(e, i, "failed")
        \/ src[e][i].source.type \in Types /\ Attempt(e, i, "fetching")
    <3>1. CASE ~setup.registry
      BY <1>3, <3>1 DEF Acquire
    <3>2. CASE setup.registry /\ src[e][i].source.type \notin Types
      BY <1>3, <3>2 DEF Acquire
    <3>3. CASE setup.registry /\ src[e][i].source.type \in Types
      BY <1>3, <3>3 DEF Acquire
    <3> QED
      BY <3>1, <3>2, <3>3
  <2>4. \E p \in Phases : /\ p \in Holding => src[e][i].source.type \in Types
                          /\ Phase(e, i, p) \/ Attempt(e, i, p)
    BY <2>1, <2>2, <2>3
  <2> QED
    BY <2>4, PhaseTyped
<1>4. CASE Fetch(e, i)
  BY <1>4, FetchTyped
<1>5. CASE Retry(e, i)
  <2>1. /\ "fetching" \in Phases /\ src[e][i].source.type \in Types
        /\ Attempt(e, i, "fetching")
    BY <1>2, <1>5 DEF Phases, Holding, Retry, Sources
  <2> QED
    BY <2>1, PhaseTyped
<1> QED
  BY <1>1, <1>3, <1>4, <1>5

\* Sources all of which have ended do not move any more.
LEMMA EndedStay ==
  ASSUME NEW e \in Executions, Source(e), AllEnded(e)
  PROVE  FALSE
<1>1. PICK i \in DOMAIN src[e] : Acquire(e, i) \/ Fetch(e, i) \/ Retry(e, i)
  BY DEF Source
<1>2. src[e][i].phase \in {"queued", "fetching", "backoff"}
  BY <1>1 DEF Acquire, Fetch, Retry
<1>3. src[e][i].phase \in Ended
  BY DEF AllEnded, InPhase
<1> QED
  BY <1>2, <1>3 DEF Ended

\* What the connectors returned is one sequence of articles.
LEMMA CollectedTyped ==
  ASSUME SourceTypes, NEW e \in Executions
  PROVE  Collected(e) \in Seq(Articles)
<1> DEFINE s == [i \in DOMAIN src[e] |-> src[e][i].records]
<1>1. src[e] \in Seq(Sources)
  BY DEF SourceTypes
<1>2. \A i \in DOMAIN src[e] : src[e][i].records \in Seq(Articles)
  BY <1>1 DEF Sources, SourceRecords
<1>3. s \in Seq(Seq(Articles))
  BY <1>1, <1>2
<1> HIDE DEF s
<1> QED
  BY <1>3, FlattenTyped DEF Collected, s

\* The parts of a step that an execution leaves to the others.
Same(f) ==
  /\ src'[f] = src[f] /\ step'[f] = step[f] /\ cause'[f] = cause[f]
  /\ now'[f] = now[f] /\ batch'[f] = batch[f] /\ unseen'[f] = unseen[f]
  /\ fresh'[f] = fresh[f]

\* What the actions of an execution outside its loop do.
Outside(e) == Start(e) \/ Source(e) \/ GatherFails(e)

LoopStep(e) == Gather(e) \/ Recall(e) \/ Remember(e) \/ MemoryRaises(e)

\* An execution's step changes nothing of another's but its race.
LEMMA OthersSame ==
  ASSUME TypeInv, NEW e \in Executions, Outside(e) \/ LoopStep(e),
         NEW f \in Executions, f # e
  PROVE  Same(f)
<1>0. StepTypes /\ DedupTypes /\ SourceTypes
  BY DEF TypeInv
<1>1. CASE Start(e)
  BY <1>0, <1>1 DEF Start, FailStep, dedup, Same, StepTypes, SourceTypes
<1>2. CASE Source(e)
  <2>1. UNCHANGED <<step, cause, now, batch, unseen, fresh>>
    BY <1>2 DEF Source, Acquire, Fetch, Retry, dedup
  <2> QED
    BY <1>0, <1>2, <2>1, SourceTyped DEF Same
<1>3. CASE GatherFails(e)
  BY <1>0, <1>3 DEF GatherFails, FailStep, dedup, Same, StepTypes
<1>4. CASE Gather(e)
  <2>1. CASE setup.memory = "none"
    BY <1>0, <1>4, <2>1 DEF Gather, Same, StepTypes, DedupTypes
  <2>2. CASE setup.memory # "none"
    BY <1>0, <1>4, <2>2 DEF Gather, Loop, Same, StepTypes, DedupTypes
  <2> QED
    BY <2>1, <2>2
<1>5. CASE Recall(e)
  BY <1>0, <1>5 DEF Recall, Loop, Same, StepTypes, DedupTypes
<1>6. CASE Remember(e)
  BY <1>0, <1>6 DEF Remember, Loop, Same, StepTypes, DedupTypes
<1>7. CASE MemoryRaises(e)
  BY <1>0, <1>7 DEF MemoryRaises, FailStep, Same, StepTypes
<1> QED
  BY <1>1, <1>2, <1>3, <1>4, <1>5, <1>6, <1>7 DEF Outside, LoopStep

\* The kinds of steps.
LEMMA Kinds ==
  ASSUME [Next]_vars
  PROVE  \/ \E e \in Executions : Outside(e) \/ LoopStep(e)
         \/ Tick \/ UNCHANGED vars
  BY DEF Next, Execute, Outside, LoopStep

\* What the loop does to the execution that runs it.
LEMMA Looping ==
  ASSUME TypeInv, NEW e \in Executions, NEW rest \in Seq(Articles), Loop(e, rest)
  PROVE  /\ batch' \in [Executions -> Seq(Articles)] /\ batch'[e] = rest
         /\ step'[e] = IF rest = <<>> THEN "done" ELSE "deduping"
         /\ step' \in [Executions -> {"idle", "gathering", "deduping", "done",
                                      "failed"}]
  BY DEF Loop, TypeInv, StepTypes, DedupTypes

\* A step outside the loop keeps the types.
LEMMA OutsideTyped ==
  ASSUME TypeInv, NEW e \in Executions, Outside(e)
  PROVE  TypeInv' /\ UNCHANGED <<setup, clock, dedup>>
<1>0. /\ StepTypes /\ DedupTypes /\ SourceTypes /\ Resting
  BY DEF TypeInv
<1>1. UNCHANGED <<setup, clock, dedup>>
  BY DEF Outside, Start, Source, Acquire, Fetch, Retry, GatherFails
<1>2. DedupTypes'
  BY <1>0, <1>1 DEF DedupTypes, dedup
<1>3. /\ StepTypes' /\ SourceTypes'
      /\ \/ step' = step /\ cause' = cause
         \/ /\ step[e] \in {"idle", "gathering"}
            /\ \/ step'[e] = "gathering" /\ cause' = cause
               \/ step'[e] = "failed" /\ cause'[e] # "none"
  <2>1. CASE Start(e)
    <3>1. CASE FailStep(e, "input") /\ UNCHANGED src
      BY <1>0, <1>1, <2>1, <3>1 DEF Start, FailStep, StepTypes, SourceTypes
    <3>2. CASE ~(FailStep(e, "input") /\ UNCHANGED src)
      <4>1. PICK c \in Collections :
              /\ src' = [src EXCEPT ![e] =
                   [i \in DOMAIN c |-> [source |-> c[i], phase |-> "queued",
                                        attempts |-> 0, records |-> <<>>]]]
              /\ step' = [step EXCEPT ![e] = "gathering"]
              /\ UNCHANGED cause
        BY <2>1, <3>2 DEF Start
      <4>2. c \in Seq([type : STRING, valid : BOOLEAN, url : Articles])
        BY SourcesAssumption
      <4> DEFINE q == [i \in DOMAIN c |-> [source |-> c[i], phase |-> "queued",
                                           attempts |-> 0, records |-> <<>>]]
      <4>3. \A i \in DOMAIN c : q[i] \in Sources
        <5>1. \A s \in [type : STRING, valid : BOOLEAN, url : Articles] :
                [source |-> s, phase |-> "queued", attempts |-> 0,
                 records |-> <<>>] \in Sources
          <6>1. <<>> \in Seq(Articles) /\ "queued" \in Phases
                /\ "queued" \notin Holding
            BY DEF Phases, Holding
          <6> QED
            BY <6>1 DEF Sources, SourceRecords
        <5>2. \A i \in DOMAIN c :
                c[i] \in [type : STRING, valid : BOOLEAN, url : Articles]
          <6> DEFINE S == [type : STRING, valid : BOOLEAN, url : Articles]
          <6>1. c \in Seq(S)
            BY <4>2
          <6> HIDE DEF S
          <6>2. \A i \in DOMAIN c : c[i] \in S
            BY <6>1
          <6> QED
            BY <6>2 DEF S
        <5>3. \A i \in DOMAIN c :
                q[i] = [source |-> c[i], phase |-> "queued", attempts |-> 0,
                        records |-> <<>>]
          OBVIOUS
        <5> HIDE DEF q
        <5> QED
          BY <5>1, <5>2, <5>3
      <4>4. q \in Seq(Sources)
        BY <4>2, <4>3
      <4> HIDE DEF q
      <4> QED
        BY <1>0, <1>1, <2>1, <4>1, <4>4 DEF Start, q, StepTypes, SourceTypes
    <3> QED
      BY <3>1, <3>2
  <2>2. CASE Source(e)
    <3>1. UNCHANGED <<step, cause>>
      BY <2>2 DEF Source, Acquire, Fetch, Retry
    <3> QED
      BY <1>0, <1>1, <2>2, <3>1, SourceTyped DEF StepTypes
  <2>3. CASE GatherFails(e)
    BY <1>0, <1>1, <2>3 DEF GatherFails, FailStep, StepTypes, SourceTypes
  <2> QED
    BY <2>1, <2>2, <2>3 DEF Outside
<1>4. Resting'
  <2>1. \A f \in Executions : f # e => Same(f)
    BY OthersSame
  <2> QED
    BY <1>0, <1>1, <1>3, <2>1 DEF Resting, Same, dedup
<1> QED
  BY <1>1, <1>2, <1>3, <1>4 DEF TypeInv

\* A step of the loop keeps the types.
LEMMA LoopTyped ==
  ASSUME TypeInv, NEW e \in Executions, LoopStep(e)
  PROVE  TypeInv' /\ UNCHANGED <<setup, src, clock>>
<1>0. /\ StepTypes /\ DedupTypes /\ SourceTypes /\ Resting
  BY DEF TypeInv
<1>1. UNCHANGED <<setup, src, clock>>
  BY DEF LoopStep, Gather, Recall, Remember, MemoryRaises
<1>2. /\ StepTypes' /\ DedupTypes'
      /\ step'[e] = "deduping" <=> batch'[e] # <<>> /\ step'[e] # "failed"
      /\ step'[e] = "failed" <=> cause'[e] # "none"
      /\ step'[e] \notin {"idle", "gathering"}
  <2>1. CASE Gather(e)
    <3>0. /\ step[e] = "gathering" /\ Collected(e) \in Seq(Articles)
          /\ batch[e] = <<>> /\ cause[e] = "none"
      BY <1>0, <2>1, CollectedTyped DEF Gather, Resting
    <3>1. CASE setup.memory = "none"
      BY <1>0, <1>1, <2>1, <3>0, <3>1 DEF Gather, StepTypes, DedupTypes
    <3>2. CASE setup.memory # "none"
      <4>1. Loop(e, Collected(e)) /\ UNCHANGED <<cause, unseen, seen, fresh>>
            /\ now' = [now EXCEPT ![e] = clock]
        BY <2>1, <3>2 DEF Gather
      <4>2. raced' \in [Executions -> BOOLEAN]
        BY <1>0, <2>1, <3>2, Zenon DEF Gather, DedupTypes
      <4> QED
        BY <1>0, <1>1, <3>0, <4>1, <4>2, Looping DEF StepTypes, DedupTypes
    <3> QED
      BY <3>1, <3>2
  <2>2. CASE Recall(e) \/ Remember(e) \/ MemoryRaises(e)
    <3>0. /\ step[e] = "deduping" /\ batch[e] # <<>> /\ cause[e] = "none"
          /\ batch[e] \in Seq(Articles) /\ Head(batch[e]) \in Articles
          /\ Tail(batch[e]) \in Seq(Articles)
      <4>1. step[e] = "deduping"
        BY <2>2 DEF Recall, Remember, MemoryRaises
      <4>2. batch[e] # <<>> /\ cause[e] = "none" /\ batch[e] \in Seq(Articles)
        BY <1>0, <4>1 DEF Resting, DedupTypes
      <4> QED
        BY <4>1, <4>2
    <3>1. Mark(e) => seen' \in [Articles -> Nat \union {Never}]
      BY <1>0 DEF Mark, DedupTypes
    <3>2. CASE Recall(e) /\ Loop(e, Tail(batch[e])) /\ UNCHANGED unseen
      BY <1>0, <1>1, <3>0, <3>2, Looping DEF Recall, StepTypes, DedupTypes
    <3>3. CASE Recall(e) /\ unseen' = [unseen EXCEPT ![e] = TRUE]
               /\ UNCHANGED <<batch, step>>
      BY <1>0, <1>1, <3>0, <3>3 DEF Recall, StepTypes, DedupTypes
    <3>4. CASE Remember(e)
      <4>1. fresh' \in [Executions -> Seq(Articles)]
        <5>1. Append(fresh[e], Head(batch[e])) \in Seq(Articles)
          BY <1>0, <3>0 DEF DedupTypes
        <5> QED
          BY <1>0, <3>4, <5>1 DEF Remember, DedupTypes
      <4>2. /\ Mark(e) /\ unseen' = [unseen EXCEPT ![e] = FALSE]
            /\ Loop(e, Tail(batch[e])) /\ UNCHANGED <<cause, now, raced>>
        BY <3>4 DEF Remember
      <4> QED
        BY <1>0, <1>1, <3>0, <3>1, <4>1, <4>2, Looping DEF StepTypes, DedupTypes
    <3>5. CASE MemoryRaises(e)
      <4>1. /\ seen' = seen \/ Mark(e)
            /\ FailStep(e, "memory") /\ UNCHANGED <<now, batch, unseen, fresh, raced>>
        BY <3>5 DEF MemoryRaises
      <4> QED
        BY <1>0, <1>1, <3>0, <3>1, <4>1 DEF FailStep, StepTypes, DedupTypes
    <3> QED
      BY <2>2, <3>2, <3>3, <3>4, <3>5 DEF Recall
  <2> QED
    BY <2>1, <2>2 DEF LoopStep
<1>3. SourceTypes'
  BY <1>0, <1>1 DEF SourceTypes
<1>4. Resting'
  <2>1. \A f \in Executions : f # e => Same(f)
    BY OthersSame
  <2> QED
    BY <1>0, <1>2, <2>1 DEF Resting, Same
<1> QED
  BY <1>1, <1>2, <1>3, <1>4 DEF TypeInv

\* Every step keeps the types.
LEMMA TypeStep == TypeInv /\ [Next]_vars => TypeInv'
<1> SUFFICES ASSUME TypeInv, [Next]_vars PROVE TypeInv'
  OBVIOUS
<1>1. CASE Tick
  BY <1>1 DEF Tick, dedup, TypeInv, StepTypes, DedupTypes, SourceTypes, Resting
<1>2. CASE UNCHANGED vars
  BY <1>2 DEF vars, TypeInv, StepTypes, DedupTypes, SourceTypes, Resting
<1> QED
  BY <1>1, <1>2, Kinds, OutsideTyped, LoopTyped

\* The types hold throughout.
LEMMA Typed == Spec => []TypeInv
  BY TypeInit, TypeStep, PTL DEF Spec

-----------------------------------------------------------------------------
(* Slots, attempts and the bounds of the clock.                            *)

\* The sources a workflow may configure.
Configured == UNION {Range(c) : c \in Collections}

\* Only a source that may be tried again is in its backoff.
SourceBounds ==
  \A e \in Executions : \A i \in DOMAIN src[e] :
    /\ src[e][i].source \in Configured
    /\ src[e][i].attempts <= MaxRetries + 1
    /\ src[e][i].phase = "queued" => src[e][i].attempts = 0
    /\ src[e][i].phase = "backoff" => src[e][i].attempts <= MaxRetries

SlotBound == \A e \in Executions : Cardinality(InPhase(e, Holding)) <= setup.slots

ClockBounds ==
  /\ setup \in Setups /\ clock <= MaxClock
  /\ \A e \in Executions : now[e] <= MaxClock
  /\ \A a \in Articles : seen[a] # Never => seen[a] <= MaxClock

BoundInv == SourceBounds /\ SlotBound /\ ClockBounds

\* What one step of a coroutine does to its source s.
Moved(s, x, free) ==
  /\ x.source = s.source
  /\ \/ s.phase = "queued" /\ x.phase \notin Holding \union {"queued"}
        /\ x.attempts \in {s.attempts, s.attempts + 1}
     \/ s.phase = "queued" /\ x.phase = "fetching" /\ free
        /\ x.attempts = s.attempts + 1
     \/ s.phase = "fetching" /\ x.attempts = s.attempts
        /\ \/ x.phase \in {"ok", "failed"}
           \/ x.phase = "backoff" /\ s.attempts <= MaxRetries
     \/ s.phase = "backoff" /\ x.phase = "fetching" /\ x.attempts = s.attempts + 1

\* A coroutine's step moves one source, which takes a slot only if one is free.
LEMMA OneMoves ==
  ASSUME SourceTypes, NEW e \in Executions, Source(e)
  PROVE  \E i \in DOMAIN src[e] : \E x :
           /\ Moved(src[e][i], x, Cardinality(InPhase(e, Holding)) < setup.slots)
           /\ src' = [src EXCEPT ![e] = [src[e] EXCEPT ![i] = x]]
<1> DEFINE free == Cardinality(InPhase(e, Holding)) < setup.slots
<1> HIDE DEF free
<1>1. PICK i \in DOMAIN src[e] : Acquire(e, i) \/ Fetch(e, i) \/ Retry(e, i)
  BY DEF Source
<1>2. src[e] \in Seq(Sources) /\ src[e][i] \in Sources
  BY DEF SourceTypes
<1> DEFINE s == src[e][i]
<1>3. SUFFICES \E x : /\ Moved(s, x, free)
                      /\ src' = [src EXCEPT ![e] = [src[e] EXCEPT ![i] = x]]
  BY DEF free
<1> DEFINE At(p)       == [s EXCEPT !.phase = p]
           Tried(p)    == [s EXCEPT !.phase = p, !.attempts = s.attempts + 1]
           SourceIs(x) == src' = [src EXCEPT ![e] = [src[e] EXCEPT ![i] = x]]
<1>4. ASSUME NEW p, Phase(e, i, p)
      PROVE  SourceIs(At(p))
  BY <1>4 DEF Phase
<1>5. ASSUME NEW p, Attempt(e, i, p)
      PROVE  SourceIs(Tried(p))
  BY <1>2, <1>5 DEF Attempt, SourceTypes
<1>6. ASSUME NEW p
      PROVE  /\ At(p).source = s.source /\ At(p).phase = p
             /\ At(p).attempts = s.attempts
  BY <1>2 DEF Sources, SourceRecords
<1>7. ASSUME NEW p
      PROVE  /\ Tried(p).source = s.source /\ Tried(p).phase = p
             /\ Tried(p).attempts = s.attempts + 1
  BY <1>2 DEF Sources, SourceRecords
<1> HIDE DEF At, Tried, SourceIs
<1>8a. ASSUME NEW x, Moved(s, x, free), SourceIs(x)
      PROVE  \E y : Moved(s, y, free) /\ SourceIs(y)
  BY <1>8a
<1>8b. SUFFICES \E y : Moved(s, y, free) /\ SourceIs(y)
  BY DEF SourceIs
<1> HIDE DEF s
<1>8. CASE Acquire(e, i)
  <2>0. s.phase = "queued" /\ free
    BY <1>8 DEF Acquire, free, s
  <2>1. \/ Phase(e, i, "failed") \/ Phase(e, i, "raised")
        \/ Attempt(e, i, "failed") \/ Attempt(e, i, "fetching")
    <3>1. CASE ~setup.registry
      BY <1>8, <3>1 DEF Acquire
    <3>2. CASE setup.registry /\ src[e][i].source.type \notin Types
      BY <1>8, <3>2 DEF Acquire
    <3>3. CASE setup.registry /\ src[e][i].source.type \in Types
      BY <1>8, <3>3 DEF Acquire
    <3> QED
      BY <3>1, <3>2, <3>3
  <2>2. CASE Phase(e, i, "failed") \/ Phase(e, i, "raised")
    <3>1. PICK p \in {"failed", "raised"} : Phase(e, i, p)
      BY <2>2
    <3>2. Moved(s, At(p), free)
      BY <1>6, <2>0, <3>1 DEF Moved, Holding
    <3> QED
      BY <1>4, <1>8a, <3>1, <3>2
  <2>3. CASE Attempt(e, i, "failed") \/ Attempt(e, i, "fetching")
    <3>1. PICK p \in {"failed", "fetching"} : Attempt(e, i, p)
      BY <2>3
    <3>2. Moved(s, Tried(p), free)
      BY <1>7, <2>0, <3>1 DEF Moved, Holding
    <3> QED
      BY <1>5, <1>8a, <3>1, <3>2
  <2> QED
    BY <2>1, <2>2, <2>3
<1>9. CASE Fetch(e, i)
  <2>0. s.phase = "fetching"
    BY <1>9 DEF Fetch, s
  <2>1. PICK o \in FetchOutcomes(src[e][i].source) :
          \/ src' = [src EXCEPT ![e][i].phase = "ok", ![e][i].records = o.records]
          \/ (MayRetry(e, i) /\ Phase(e, i, "backoff")) \/ Phase(e, i, "failed")
    BY <1>9 DEF Fetch
  <2>2. CASE src' = [src EXCEPT ![e][i].phase = "ok", ![e][i].records = o.records]
    <3> DEFINE x == [s EXCEPT !.phase = "ok", !.records = o.records]
    <3>1. x.source = s.source /\ x.phase = "ok" /\ x.attempts = s.attempts
      BY <1>2 DEF s, Sources, SourceRecords
    <3>2. src' = [src EXCEPT ![e] = [src[e] EXCEPT ![i] = x]]
      BY <1>2, <2>2 DEF SourceTypes, s
    <3> HIDE DEF x
    <3>3. Moved(s, x, free) /\ SourceIs(x)
      BY <2>0, <3>1, <3>2 DEF Moved, SourceIs
    <3> QED
      BY <3>3, <1>8a
  <2>3. CASE (MayRetry(e, i) /\ Phase(e, i, "backoff")) \/ Phase(e, i, "failed")
    <3>1. MayRetry(e, i) => s.attempts <= MaxRetries
      BY DEF MayRetry, s
    <3>2. PICK p : Phase(e, i, p) /\ p \in {"backoff", "failed"}
                   /\ (p = "backoff" => s.attempts <= MaxRetries)
      BY <2>3, <3>1
    <3>3. Moved(s, At(p), free)
      BY <1>6, <2>0, <3>2 DEF Moved
    <3> QED
      BY <1>4, <1>8a, <3>2, <3>3
  <2> QED
    BY <2>1, <2>2, <2>3
<1>10. CASE Retry(e, i)
  <2>1. s.phase = "backoff" /\ Attempt(e, i, "fetching")
    BY <1>10 DEF Retry, s
  <2>2. Moved(s, Tried("fetching"), free)
    BY <1>7, <2>1 DEF Moved
  <2> QED
    BY <1>5, <1>8a, <2>1, <2>2
<1> QED
  BY <1>1, <1>8, <1>9, <1>10

\* A coroutine's step keeps the attempts and the slots within their bounds.
LEMMA MoveBounded ==
  ASSUME SourceTypes, SourceBounds, SlotBound, setup \in Setups,
         UNCHANGED setup, NEW e \in Executions, Source(e)
  PROVE  SourceBounds' /\ SlotBound'
<1> DEFINE H == InPhase(e, Holding)
<1>0. PICK i \in DOMAIN src[e] : \E x :
        /\ Moved(src[e][i], x, Cardinality(H) < setup.slots)
        /\ src' = [src EXCEPT ![e] = [src[e] EXCEPT ![i] = x]]
  BY OneMoves
<1>1. PICK x :
        /\ Moved(src[e][i], x, Cardinality(H) < setup.slots)
        /\ src' = [src EXCEPT ![e] = [src[e] EXCEPT ![i] = x]]
  BY <1>0
<1>2. src[e] \in Seq(Sources) /\ src[e][i] \in Sources
  BY DEF SourceTypes
<1>3. /\ DOMAIN src'[e] = DOMAIN src[e] /\ src'[e][i] = x
      /\ \A j \in DOMAIN src[e] : j # i => src'[e][j] = src[e][j]
      /\ \A f \in Executions : f # e => src'[f] = src[f]
  BY <1>1, <1>2 DEF SourceTypes
<1>4. MaxRetries \in Nat /\ setup.slots \in Nat
  BY NatAssumption, SetupAssumption
<1>5. /\ src[e][i].attempts \in Nat
      /\ src[e][i].attempts <= MaxRetries + 1
      /\ src[e][i].source \in Configured
      /\ src[e][i].phase = "queued" => src[e][i].attempts = 0
      /\ src[e][i].phase = "backoff" => src[e][i].attempts <= MaxRetries
  BY <1>2 DEF Sources, SourceRecords, SourceBounds
<1>6. /\ x.source \in Configured
      /\ x.attempts <= MaxRetries + 1
      /\ x.phase # "queued"
      /\ x.phase = "backoff" => x.attempts <= MaxRetries
  BY <1>1, <1>4, <1>5 DEF Moved, Holding
<1>7. SourceBounds'
  BY <1>3, <1>6 DEF SourceBounds
<1>8. IsFiniteSet(H) /\ Cardinality(H) \in Nat
  <2>1. IsFiniteSet(DOMAIN src[e])
    <3>1. DOMAIN src[e] = 1..Len(src[e]) /\ Len(src[e]) \in Int
      BY <1>2
    <3> QED
      BY <3>1, FS_Interval
  <2> QED
    BY <2>1, FS_Subset, FS_CardinalityType DEF InPhase
<1>9. i \in H <=> src[e][i].phase \in Holding
  BY DEF InPhase
<1>10. H' = IF x.phase \in Holding THEN H \union {i} ELSE H \ {i}
  BY <1>3 DEF InPhase
<1>11. Cardinality(H') <= setup.slots
  <2>0. Cardinality(H) <= setup.slots
    BY DEF SlotBound
  <2>1. CASE x.phase \notin Holding
    <3>1. Cardinality(H \ {i}) = IF i \in H THEN Cardinality(H) - 1
                                 ELSE Cardinality(H)
      BY <1>8, FS_RemoveElement
    <3>2. H' = H \ {i}
      BY <1>10, <2>1
    <3> QED
      BY <1>4, <1>8, <2>0, <3>1, <3>2
  <2>2. CASE x.phase \in Holding /\ src[e][i].phase \in Holding
    BY <1>9, <1>10, <2>0, <2>2, FS_AddElement, <1>8
  <2>3. CASE x.phase \in Holding /\ src[e][i].phase \notin Holding
    <3>1. Cardinality(H) < setup.slots
      BY <1>1, <2>3 DEF Moved, Holding
    <3>2. Cardinality(H') = Cardinality(H) + 1
      BY <1>8, <1>9, <1>10, <2>3, FS_AddElement
    <3> QED
      BY <1>4, <1>8, <3>1, <3>2
  <2> QED
    BY <2>1, <2>2, <2>3
<1>12. SlotBound'
  BY <1>3, <1>11 DEF SlotBound, InPhase
<1> QED
  BY <1>7, <1>12

\* Every step keeps the bounds.
LEMMA BoundStep == TypeInv /\ BoundInv /\ [Next]_vars => BoundInv'
<1> SUFFICES ASSUME TypeInv, BoundInv, [Next]_vars PROVE BoundInv'
  OBVIOUS
<1>0. /\ StepTypes /\ SourceTypes /\ DedupTypes
      /\ SourceBounds /\ SlotBound /\ ClockBounds
  BY DEF TypeInv, BoundInv
<1>1. ASSUME UNCHANGED <<setup, src>> PROVE SourceBounds' /\ SlotBound'
  BY <1>0, <1>1 DEF SourceBounds, SlotBound, InPhase
<1>2. ASSUME UNCHANGED <<setup, clock, dedup>> PROVE ClockBounds'
  BY <1>0, <1>2 DEF ClockBounds, dedup
<1>3. ASSUME NEW e \in Executions, Outside(e) PROVE BoundInv'
  <2>1. UNCHANGED <<setup, clock, dedup>>
    BY <1>3, OutsideTyped
  <2>2. CASE Start(e)
    <3>1. CASE UNCHANGED src
      BY <1>1, <1>2, <2>1, <3>1 DEF BoundInv
    <3>2. CASE src' # src
      <4>1. PICK c \in Collections :
              src' = [src EXCEPT ![e] =
                   [i \in DOMAIN c |-> [source |-> c[i], phase |-> "queued",
                                        attempts |-> 0, records |-> <<>>]]]
        BY <2>2, <3>2 DEF Start
      <4>2. /\ DOMAIN src'[e] = DOMAIN c
            /\ \A i \in DOMAIN c : src'[e][i] =
                 [source |-> c[i], phase |-> "queued", attempts |-> 0,
                  records |-> <<>>]
            /\ \A f \in Executions : f # e => src'[f] = src[f]
        BY <1>0, <4>1 DEF SourceTypes
      <4>3. \A i \in DOMAIN c : c[i] \in Configured
        BY DEF Configured, Range
      <4>4. SourceBounds'
        <5>1. ASSUME NEW i \in DOMAIN c
              PROVE  /\ src'[e][i].source \in Configured
                     /\ src'[e][i].attempts = 0 /\ src'[e][i].phase = "queued"
          <6> DEFINE x == [source |-> c[i], phase |-> "queued", attempts |-> 0,
                           records |-> <<>>]
          <6>1. x.source = c[i] /\ x.attempts = 0 /\ x.phase = "queued"
            OBVIOUS
          <6>2. src'[e][i] = x
            BY <4>2
          <6> HIDE DEF x
          <6> QED
            BY <4>3, <6>1, <6>2
        <5>2. MaxRetries \in Nat
          BY NatAssumption
        <5>3. \A f \in Executions : f # e =>
                \A i \in DOMAIN src'[f] : i \in DOMAIN src[f] /\ src'[f][i] = src[f][i]
          BY <4>2
        <5> QED
          BY <1>0, <4>2, <5>1, <5>2, <5>3 DEF SourceBounds
      <4>5. InPhase(e, Holding)' = {}
        <5>1. ASSUME NEW i \in DOMAIN src'[e]
              PROVE  src'[e][i].phase \notin Holding
          <6> DEFINE x == [source |-> c[i], phase |-> "queued", attempts |-> 0,
                           records |-> <<>>]
          <6>1. x.phase = "queued"
            OBVIOUS
          <6>2. src'[e][i] = x
            BY <4>2
          <6> HIDE DEF x
          <6> QED
            BY <6>1, <6>2 DEF Holding
        <5> QED
          BY <5>1 DEF InPhase
      <4>6. SlotBound'
        <5>1. setup.slots \in Nat
          BY <1>0, SetupAssumption DEF ClockBounds
        <5>2. Cardinality(InPhase(e, Holding)') <= setup.slots
          BY <4>5, <5>1, FS_EmptySet
        <5> QED
          BY <1>0, <2>1, <4>2, <5>2 DEF SlotBound, InPhase
      <4> QED
        BY <1>2, <2>1, <4>4, <4>6 DEF BoundInv
    <3> QED
      BY <3>1, <3>2
  <2>3. CASE Source(e)
    BY <1>0, <1>2, <2>1, <2>3, MoveBounded DEF BoundInv, ClockBounds
  <2>4. CASE GatherFails(e)
    <3>1. UNCHANGED src
      BY <2>4 DEF GatherFails
    <3> QED
      BY <1>1, <1>2, <2>1, <3>1 DEF BoundInv
  <2> QED
    BY <1>3, <2>2, <2>3, <2>4 DEF Outside
<1>4. ASSUME NEW e \in Executions, LoopStep(e) PROVE BoundInv'
  <2>1. UNCHANGED <<setup, src, clock>>
    BY <1>4, LoopTyped
  <2>2. /\ now' = now \/ now' = [now EXCEPT ![e] = clock]
        /\ seen' = seen \/ Mark(e)
    <3>1. CASE Gather(e)
      BY <3>1 DEF Gather
    <3>2. CASE Recall(e) \/ Remember(e) \/ MemoryRaises(e)
      BY <3>2 DEF Recall, Remember, MemoryRaises
    <3> QED
      BY <1>4, <3>1, <3>2 DEF LoopStep
  <2>3. \A f \in Executions : now'[f] <= MaxClock
    BY <1>0, <2>2 DEF DedupTypes, ClockBounds
  <2>4. \A a \in Articles : seen'[a] # Never => seen'[a] <= MaxClock
    BY <1>0, <2>2 DEF DedupTypes, ClockBounds, Mark
  <2> QED
    BY <1>0, <1>1, <2>1, <2>3, <2>4 DEF BoundInv, ClockBounds
<1>5. CASE Tick
  <2>1. clock' <= MaxClock
    BY <1>0, <1>5, NatAssumption DEF Tick, DedupTypes
  <2>2. UNCHANGED <<setup, src, now, seen>>
    BY <1>5 DEF Tick, dedup
  <2> QED
    BY <1>0, <1>1, <2>1, <2>2 DEF BoundInv, ClockBounds
<1>6. CASE UNCHANGED vars
  BY <1>0, <1>1, <1>6 DEF vars, BoundInv, ClockBounds
<1> QED
  BY <1>3, <1>4, <1>5, <1>6, Kinds

\* The bounds hold throughout.
LEMMA Bounded == Spec => []BoundInv
<1>1. Init => BoundInv
  <2> SUFFICES ASSUME Init PROVE BoundInv
    OBVIOUS
  <2>1. SourceBounds
    BY DEF Init, SourceBounds
  <2>2. SlotBound
    <3>1. setup.slots \in Nat
      BY SetupAssumption DEF Init
    <3>2. \A e \in Executions : InPhase(e, Holding) = {}
      BY DEF Init, InPhase
    <3> QED
      BY <3>1, <3>2, FS_EmptySet DEF SlotBound
  <2>3. ClockBounds
    BY NatAssumption DEF Init, ClockBounds
  <2> QED
    BY <2>1, <2>2, <2>3 DEF BoundInv
<1> QED
  BY <1>1, BoundStep, Typed, PTL DEF Spec

\* TypeOK.  At most max_concurrent_sources coroutines of a gather hold a
\* connection at a time, a source that is backing off included, and no source
\* is tried more than once and max_retries times again.
THEOREM SlotsAndAttemptsBounded == Spec => []TypeOK
<1>1. TypeInv /\ BoundInv => TypeOK
  <2> SUFFICES ASSUME TypeInv, BoundInv PROVE TypeOK
    OBVIOUS
  <2>0. /\ StepTypes /\ SourceTypes /\ DedupTypes /\ Resting
        /\ SourceBounds /\ SlotBound /\ ClockBounds
    BY DEF TypeInv, BoundInv
  <2>1. MaxRetries \in Nat /\ MaxClock \in Nat
    BY NatAssumption
  <2>2. src \in [Executions -> Seq(SourceStates)]
    <3>1. ASSUME NEW e \in Executions PROVE src[e] \in Seq(SourceStates)
      <4>1. src[e] \in Seq(Sources)
        BY <2>0 DEF SourceTypes
      <4>2. ASSUME NEW i \in DOMAIN src[e] PROVE src[e][i] \in SourceStates
        <5> DEFINE x == src[e][i]
        <5>1. x \in SourceRecords
          BY <4>1 DEF Sources
        <5>2. x.source \in Configured /\ x.attempts <= MaxRetries + 1
          BY <2>0 DEF SourceBounds
        <5> HIDE DEF x
        <5>3. x.attempts \in 0..MaxRetries + 1
          BY <2>1, <5>1, <5>2 DEF SourceRecords
        <5>4. x \in SourceStates
          BY <5>1, <5>2, <5>3 DEF SourceRecords, SourceStates, Configured, Phases
        <5> QED
          BY <5>4 DEF x
      <4> QED
        BY <4>1, <4>2
    <3> QED
      BY <2>0, <3>1 DEF SourceTypes
  <2>3. now \in [Executions -> 0..MaxClock] /\ clock \in 0..MaxClock
    BY <2>0, <2>1 DEF DedupTypes, ClockBounds
  <2>4. seen \in [Articles -> 0..MaxClock \union {Never}]
    BY <2>0, <2>1 DEF DedupTypes, ClockBounds
  <2>5. \A e \in Executions :
          /\ Cardinality(InPhase(e, Holding)) <= setup.slots
          /\ step[e] = "deduping" => batch[e] # <<>>
          /\ step[e] = "failed" <=> cause[e] # "none"
    BY <2>0 DEF SlotBound, Resting
  <2> QED
    BY <2>0, <2>2, <2>3, <2>4, <2>5 DEF TypeOK, StepTypes, DedupTypes, ClockBounds
<1> QED
  BY <1>1, Typed, Bounded, PTL

-----------------------------------------------------------------------------
(* Why a step ends, as far as it can be said without fairness.             *)

\* What a coroutine may still do: an attempt is a fetch and what is before it.
CallsLeft(s) ==
  CASE s.phase \in {"queued", "backoff"} -> 2 * (MaxRetries + 1 - s.attempts)
    [] s.phase = "fetching" -> 2 * (MaxRetries + 1 - s.attempts) + 1
    [] OTHER -> 0

\* What the loop may still do: a recall and a remember for each article.
TurnsLeft(e) == 2 * Len(batch[e]) + (IF unseen[e] THEN 0 ELSE 1)

Ahead == [idle |-> 3, gathering |-> 2, deduping |-> 1, done |-> 0, failed |-> 0]

\* An execution goes on to its next part, or does one thing less in the loop,
\* or one of its sources, the unobserved ones included, does.
PartEnds(e) ==
  /\ Ahead[step'[e]] < Ahead[step[e]]
  /\ step[e] = "idle" \/ src'[e] = src[e]

TurnEnds(e) ==
  /\ step[e] = "deduping" /\ step'[e] = "deduping" /\ src'[e] = src[e]
  /\ {TurnsLeft(e), TurnsLeft(e)'} \subseteq Nat
  /\ TurnsLeft(e)' < TurnsLeft(e)

CallEnds(e) ==
  /\ step'[e] = step[e]
  /\ \E i \in DOMAIN src[e] :
       /\ {CallsLeft(src[e][i]), CallsLeft(src'[e][i])} \subseteq Nat
       /\ CallsLeft(src'[e][i]) < CallsLeft(src[e][i])
       /\ src'[e] = [src[e] EXCEPT ![i] = src'[e][i]]

Nearer(e) == PartEnds(e) \/ TurnEnds(e) \/ CallEnds(e)

Advances ==
  \/ clock' > clock
  \/ \E e \in Executions : Nearer(e) /\ \A f \in Executions \ {e} : Same(f)

\* Every fetch and every retry counts.
LEMMA CallsFall ==
  ASSUME SourceTypes, SourceBounds, NEW e \in Executions, Source(e)
  PROVE  CallEnds(e)
<1> DEFINE free == Cardinality(InPhase(e, Holding)) < setup.slots
<1> HIDE DEF free
<1>0. PICK i \in DOMAIN src[e] : \E x :
        /\ Moved(src[e][i], x, free)
        /\ src' = [src EXCEPT ![e] = [src[e] EXCEPT ![i] = x]]
  BY OneMoves DEF free
<1>1. PICK x :
        /\ Moved(src[e][i], x, free)
        /\ src' = [src EXCEPT ![e] = [src[e] EXCEPT ![i] = x]]
  BY <1>0
<1>2. src[e] \in Seq(Sources) /\ src[e][i] \in Sources
  BY DEF SourceTypes
<1>3. src'[e] = [src[e] EXCEPT ![i] = x] /\ src'[e][i] = x
  BY <1>1, <1>2 DEF SourceTypes
<1> DEFINE s == src[e][i]
<1>4. /\ s.attempts \in Nat /\ s.attempts <= MaxRetries + 1
      /\ s.phase = "queued" => s.attempts = 0
      /\ s.phase = "backoff" => s.attempts <= MaxRetries
  BY <1>2 DEF Sources, SourceRecords, SourceBounds
<1>5. MaxRetries \in Nat
  BY NatAssumption
<1>6. Moved(s, x, free)
  BY <1>1
<1> HIDE DEF s
<1>7. /\ CallsLeft(s) \in Nat /\ CallsLeft(x) \in Nat
      /\ CallsLeft(x) < CallsLeft(s)
  BY <1>4, <1>5, <1>6 DEF Moved, CallsLeft, Holding
<1>8. step' = step
  BY DEF Source, Acquire, Fetch, Retry
<1> QED
  BY <1>3, <1>7, <1>8 DEF CallEnds, s

\* So does every turn of the loop, and whatever ends a part of the execution.
LEMMA PartsFall ==
  ASSUME TypeInv, NEW e \in Executions,
         Start(e) \/ GatherFails(e) \/ LoopStep(e)
  PROVE  PartEnds(e) \/ TurnEnds(e)
<1>0. StepTypes /\ DedupTypes /\ Resting
  BY DEF TypeInv
<1>1. CASE Start(e)
  <2>1. step[e] = "idle" /\ step'[e] \in {"failed", "gathering"}
    BY <1>0, <1>1 DEF Start, FailStep, StepTypes
  <2> QED
    BY <2>1 DEF PartEnds, Ahead
<1>2. CASE GatherFails(e)
  <2>1. step[e] = "gathering" /\ step'[e] = "failed" /\ src' = src
    BY <1>0, <1>2 DEF GatherFails, FailStep, StepTypes
  <2> QED
    BY <2>1 DEF PartEnds, Ahead
<1>3. CASE Gather(e)
  <2>1. step[e] = "gathering" /\ src' = src
    BY <1>3 DEF Gather
  <2>2. step'[e] \in {"done", "deduping"}
    BY <1>0, <1>3 DEF Gather, Loop, StepTypes
  <2> QED
    BY <2>1, <2>2 DEF PartEnds, Ahead
<1>4. CASE MemoryRaises(e)
  <2>1. step[e] = "deduping" /\ step'[e] = "failed" /\ src' = src
    BY <1>0, <1>4 DEF MemoryRaises, FailStep, StepTypes
  <2> QED
    BY <2>1 DEF PartEnds, Ahead
<1>5. CASE Recall(e) \/ Remember(e)
  <2>1. step[e] = "deduping" /\ src' = src
    BY <1>5 DEF Recall, Remember
  <2>2. /\ batch[e] \in Seq(Articles) /\ batch[e] # <<>>
        /\ unseen[e] \in BOOLEAN
    BY <1>0, <2>1 DEF DedupTypes, Resting
  <2>3. /\ Tail(batch[e]) \in Seq(Articles) /\ Len(batch[e]) \in Nat
        /\ Len(Tail(batch[e])) = Len(batch[e]) - 1 /\ Len(batch[e]) >= 1
    BY <2>2
  <2>4. \/ Loop(e, Tail(batch[e])) /\ ~unseen'[e]
        \/ ~unseen[e] /\ unseen'[e] /\ batch' = batch /\ step' = step
    <3>1. CASE Recall(e) /\ Loop(e, Tail(batch[e])) /\ UNCHANGED unseen
      BY <3>1 DEF Recall
    <3>2. CASE Recall(e) /\ unseen' = [unseen EXCEPT ![e] = TRUE]
               /\ UNCHANGED <<batch, step>>
      BY <1>0, <3>2 DEF Recall, DedupTypes
    <3>3. CASE Remember(e)
      BY <1>0, <3>3 DEF Remember, DedupTypes
    <3> QED
      BY <1>5, <3>1, <3>2, <3>3 DEF Recall
  <2>5. CASE Loop(e, Tail(batch[e])) /\ ~unseen'[e]
    <3>1. batch'[e] = Tail(batch[e])
          /\ step'[e] = IF Tail(batch[e]) = <<>> THEN "done" ELSE "deduping"
      BY <2>3, <2>5, Looping
    <3>2. CASE Tail(batch[e]) = <<>>
      BY <2>1, <3>1, <3>2 DEF PartEnds, Ahead
    <3>3. CASE Tail(batch[e]) # <<>>
      <4>1. TurnsLeft(e)' = 2 * (Len(batch[e]) - 1) + 1
        BY <2>3, <2>5, <3>1 DEF TurnsLeft
      <4>2. TurnsLeft(e) = 2 * Len(batch[e]) \/ TurnsLeft(e) = 2 * Len(batch[e]) + 1
        <5>1. CASE unseen[e]
          BY <2>3, <5>1 DEF TurnsLeft
        <5>2. CASE ~unseen[e]
          BY <2>3, <5>2 DEF TurnsLeft
        <5> QED
          BY <5>1, <5>2
      <4>3. /\ {TurnsLeft(e), TurnsLeft(e)'} \subseteq Nat
            /\ TurnsLeft(e)' < TurnsLeft(e)
        BY <2>3, <4>1, <4>2
      <4> QED
        BY <2>1, <3>1, <3>3, <4>3 DEF TurnEnds
    <3> QED
      BY <3>2, <3>3
  <2>6. CASE ~unseen[e] /\ unseen'[e] /\ batch' = batch /\ step' = step
    <3>1. TurnsLeft(e) = 2 * Len(batch[e]) + 1 /\ TurnsLeft(e)' = 2 * Len(batch[e])
      BY <2>3, <2>6 DEF TurnsLeft
    <3>2. /\ {TurnsLeft(e), TurnsLeft(e)'} \subseteq Nat
          /\ TurnsLeft(e)' < TurnsLeft(e)
      BY <2>3, <3>1
    <3> QED
      BY <2>1, <2>6, <3>2 DEF TurnEnds
  <2> QED
    BY <2>4, <2>5, <2>6
<1> QED
  BY <1>1, <1>2, <1>3, <1>4, <1>5 DEF LoopStep

\* No step goes round in circles: each brings one execution nearer to its end,
\* by its parts, the turns of its loop or the attempts of one source, and
\* leaves the others where they are, or else time passes.
THEOREM EveryStepAdvances == Spec => [][Advances]_vars
<1>1. TypeInv /\ BoundInv /\ [Next]_vars => [Advances]_vars
  <2> SUFFICES ASSUME TypeInv, BoundInv, Next PROVE Advances
    OBVIOUS
  <2>0. SourceTypes /\ SourceBounds /\ clock \in Nat
    BY DEF TypeInv, BoundInv, DedupTypes
  <2>1. CASE Tick
    BY <2>0, <2>1 DEF Tick, Advances
  <2>2. ASSUME NEW e \in Executions, Outside(e) \/ LoopStep(e)
        PROVE  Advances
    <3>1. Nearer(e)
      BY <2>0, <2>2, CallsFall, PartsFall DEF Outside, Nearer
    <3>2. \A f \in Executions \ {e} : Same(f)
      BY <2>2, OthersSame
    <3> QED
      BY <3>1, <3>2 DEF Advances
  <2>3. Tick \/ \E e \in Executions : Outside(e) \/ LoopStep(e)
    BY DEF Next, Execute, Outside, LoopStep
  <2> QED
    BY <2>1, <2>2, <2>3
<1> QED
  BY <1>1, Typed, Bounded, PTL DEF Spec

\* A source that is at work, or whose turn it is to take a free slot: what
\* Fetch, Retry and Acquire ask for.
MayMove(e, i) ==
  \/ src[e][i].phase \in Holding
  \/ /\ src[e][i].phase = "queued"
     /\ \A j \in 1..i - 1 : src[e][j].phase # "queued"
     /\ Cardinality(InPhase(e, Holding)) < setup.slots

\* Slots come back: as long as a coroutine of a gather has not ended, some
\* coroutine of it is at work or may start, though slots are kept through every
\* backoff and are taken strictly in turn.
THEOREM SlotsComeBack ==
  Spec => [](\A e \in Executions :
               ~AllEnded(e) => \E i \in DOMAIN src[e] : MayMove(e, i))
<1>1. TypeInv /\ BoundInv =>
        \A e \in Executions :
          ~AllEnded(e) => \E i \in DOMAIN src[e] : MayMove(e, i)
  <2> SUFFICES ASSUME TypeInv, BoundInv, NEW e \in Executions, ~AllEnded(e),
                      \A i \in DOMAIN src[e] : src[e][i].phase \notin Holding
               PROVE  \E i \in DOMAIN src[e] : MayMove(e, i)
    BY DEF MayMove
  <2>1. src[e] \in Seq(Sources)
    BY DEF TypeInv, SourceTypes
  <2>2. \A i \in DOMAIN src[e] : src[e][i].phase \in Phases
    BY <2>1 DEF Sources, SourceRecords
  <2>3. InPhase(e, Holding) = {}
    BY DEF InPhase
  <2>4. setup.slots \in Nat \ {0}
    BY SetupAssumption DEF BoundInv, ClockBounds
  <2>5. Cardinality(InPhase(e, Holding)) < setup.slots
    BY <2>3, <2>4, FS_EmptySet
  <2> DEFINE Q == {i \in DOMAIN src[e] : src[e][i].phase = "queued"}
  <2>6. Q # {}
    BY <2>2 DEF AllEnded, InPhase, Phases
  <2>7. DOMAIN src[e] = 1..Len(src[e]) /\ Len(src[e]) \in Nat
    BY <2>1
  <2>8. Q \in SUBSET Nat
    BY <2>7
  <2>9. PICK i \in Q : \A j \in Q : i <= j
    BY <2>6, <2>8, Least
  <2>10. \A j \in 1..i - 1 : src[e][j].phase # "queued"
    <3>1. \A j \in 1..i - 1 : j \in DOMAIN src[e] /\ j < i
      BY <2>7, <2>9
    <3> QED
      BY <2>7, <2>9, <3>1
  <2> QED
    BY <2>5, <2>9, <2>10 DEF MayMove
<1> QED
  BY <1>1, Typed, Bounded, PTL

-----------------------------------------------------------------------------
(* Honest results.                                                         *)

\* ResultIsHonest made inductive: the loop too has sources that have ended.
HonestInv ==
  \A e \in Executions :
    /\ step[e] \in {"deduping", "done"} =>
         AllEnded(e) /\ InPhase(e, {"ok"}) # {}
    /\ cause[e] = "sources" =>
         /\ step[e] = "failed" /\ AllEnded(e)
         /\ InPhase(e, {"failed"}) = DOMAIN src[e]

\* The phases of an execution whose sources stay.
LEMMA SameSources ==
  ASSUME NEW e, src'[e] = src[e]
  PROVE  /\ AllEnded(e)' <=> AllEnded(e)
         /\ \A P : InPhase(e, P)' = InPhase(e, P)
  BY DEF AllEnded, InPhase

\* A gather without a result has failures only.
LEMMA NoneIsOk ==
  ASSUME NEW e \in Executions, GatherEnds(e), ~Raised(e),
         InPhase(e, {"ok"}) = {}
  PROVE  AllEnded(e) /\ InPhase(e, {"failed"}) = DOMAIN src[e]
<1>1. AllEnded(e)
  BY DEF GatherEnds
<1>2. \A i \in DOMAIN src[e] :
        src[e][i].phase \in Ended \ {"ok", "raised"}
  BY <1>1 DEF AllEnded, InPhase, Raised
<1> QED
  BY <1>1, <1>2 DEF InPhase, Ended

\* Every step keeps HonestInv.
LEMMA HonestStep == TypeInv /\ HonestInv /\ [Next]_vars => HonestInv'
<1> DEFINE Honest(e) ==
      /\ step[e] \in {"deduping", "done"} =>
           AllEnded(e) /\ InPhase(e, {"ok"}) # {}
      /\ cause[e] = "sources" =>
           /\ step[e] = "failed" /\ AllEnded(e)
           /\ InPhase(e, {"failed"}) = DOMAIN src[e]
<1> SUFFICES ASSUME TypeInv, HonestInv, [Next]_vars, NEW f \in Executions
             PROVE  Honest(f)'
  BY DEF HonestInv
<1>0. Honest(f)
  BY DEF HonestInv
<1>1. ASSUME src'[f] = src[f], step'[f] = step[f], cause'[f] = cause[f]
      PROVE  Honest(f)'
  BY <1>0, <1>1, SameSources
<1>2. CASE Tick \/ UNCHANGED vars
  BY <1>1, <1>2 DEF Tick, vars
<1>3. ASSUME NEW e \in Executions, Outside(e) \/ LoopStep(e) PROVE Honest(f)'
  <2>1. CASE f # e
    BY <1>1, <1>3, <2>1, OthersSame DEF Same
  <2>2. CASE f = e /\ Start(e)
    <3>1. step[e] = "idle" /\ cause[e] = "none"
      BY <2>2 DEF Start, TypeInv, Resting
    <3>2. \/ step'[e] = "failed" /\ cause'[e] = "input"
          \/ step'[e] = "gathering" /\ cause'[e] = "none"
      BY <2>2, <3>1 DEF Start, FailStep, TypeInv, StepTypes
    <3> QED
      BY <2>2, <3>2
  <2>3. CASE f = e /\ Source(e)
    <3>1. UNCHANGED <<step, cause>>
      BY <2>3 DEF Source, Acquire, Fetch, Retry
    <3>2. ~AllEnded(e)
      BY <2>3, EndedStay
    <3> QED
      BY <1>0, <2>3, <3>1, <3>2
  <2>4. CASE f = e /\ GatherFails(e)
    <3>1. /\ src' = src /\ step'[e] = "failed"
          /\ \/ cause'[e] \in {"escape", "record"}
             \/ /\ cause'[e] = "sources"
                /\ GatherEnds(e) /\ ~Raised(e) /\ InPhase(e, {"ok"}) = {}
      BY <2>4 DEF GatherFails, FailStep, TypeInv, StepTypes
    <3> QED
      BY <2>4, <3>1, NoneIsOk, SameSources
  <2>5. CASE f = e /\ Gather(e)
    <3>1. src' = src /\ cause' = cause /\ AllEnded(e) /\ InPhase(e, {"ok"}) # {}
      BY <2>5 DEF Gather, GatherEnds
    <3>2. cause[e] = "none"
      BY <2>5 DEF Gather, TypeInv, Resting
    <3> QED
      BY <2>5, <3>1, <3>2, SameSources
  <2>6. CASE f = e /\ (Recall(e) \/ Remember(e) \/ MemoryRaises(e))
    <3>1. src' = src /\ step[e] = "deduping" /\ cause[e] = "none"
      BY <2>6 DEF Recall, Remember, MemoryRaises, TypeInv, Resting
    <3>2. cause'[e] # "sources"
      BY <2>6, <3>1 DEF Recall, Remember, MemoryRaises, FailStep, TypeInv,
         StepTypes
    <3> QED
      BY <1>0, <2>6, <3>1, <3>2, SameSources
  <2> QED
    BY <1>3, <2>1, <2>2, <2>3, <2>4, <2>5, <2>6 DEF Outside, LoopStep
<1> QED
  BY <1>2, <1>3, Kinds

\* HonestInv holds throughout.
LEMMA Honesty == Spec => []HonestInv
<1>1. Init => HonestInv
  BY DEF Init, HonestInv
<1> QED
  BY <1>1, Typed, HonestStep, PTL DEF Spec

\* For any lists of sources and retries: a step succeeds only when all its
\* sources have ended and one has answered, and fails for its sources only when
\* all have failed.
THEOREM HonestResult == Spec => []ResultIsHonest
<1>1. HonestInv => ResultIsHonest
  BY DEF HonestInv, ResultIsHonest
<1> QED
  BY <1>1, Honesty, PTL

-----------------------------------------------------------------------------
(* Marks and losses.                                                       *)

\* A claim on an article is never given up: an execution that has it keeps it,
\* unless its memory raises, and stays at its own time.
LEMMA ClaimsKept ==
  ASSUME TypeInv, NEW e \in Executions, Outside(e) \/ LoopStep(e),
         NEW f \in Executions, step[f] \in {"deduping", "done", "failed"}
  PROVE  /\ now'[f] = now[f]
         /\ \A a : Contains(fresh[f], a) => Contains(fresh'[f], a)
         /\ step[f] \in {"deduping", "done"} =>
              step'[f] \in {"deduping", "done"} \/ cause'[f] = "memory"
         /\ cause[f] = "memory" => cause'[f] = "memory"
<1>0. /\ StepTypes /\ DedupTypes /\ Resting
  BY DEF TypeInv
<1>1. CASE f # e
  BY <1>1, OthersSame DEF Same
<1>2. CASE f = e /\ (Start(e) \/ GatherFails(e) \/ Gather(e))
  BY <1>2 DEF Start, GatherFails, Gather
<1>3. CASE f = e /\ Source(e)
  <2>1. UNCHANGED <<step, cause, now, fresh>>
    BY <1>3 DEF Source, Acquire, Fetch, Retry, dedup
  <2> QED
    BY <2>1
<1>4. CASE f = e /\ Recall(e)
  <2>1. UNCHANGED <<cause, now, fresh>> /\ step[e] = "deduping"
        /\ (step' = step \/ Loop(e, Tail(batch[e])))
    BY <1>4 DEF Recall
  <2> QED
    BY <1>0, <1>4, <2>1 DEF Loop, StepTypes
<1>5. CASE f = e /\ Remember(e)
  <2>1. /\ UNCHANGED <<cause, now>> /\ step[e] = "deduping"
        /\ Loop(e, Tail(batch[e]))
        /\ fresh'[e] = Append(fresh[e], Head(batch[e]))
    BY <1>0, <1>5 DEF Remember, DedupTypes
  <2>2. Head(batch[e]) \in Articles /\ fresh[e] \in Seq(Articles)
    BY <1>0, <2>1, HeadAndTail DEF Resting, DedupTypes
  <2> QED
    BY <1>0, <1>5, <2>1, <2>2, OneMore DEF Loop, StepTypes
<1>6. CASE f = e /\ MemoryRaises(e)
  BY <1>0, <1>6 DEF MemoryRaises, FailStep, StepTypes
<1> QED
  BY <1>1, <1>2, <1>3, <1>4, <1>5, <1>6 DEF Outside, LoopStep

\* Only the head of a deduplicating execution's batch is marked, at its time:
\* it delivers the article, or its memory raised.
LEMMA MarksOfStep ==
  ASSUME TypeInv, NEW e \in Executions, Outside(e) \/ LoopStep(e),
         NEW a \in Articles, seen'[a] # seen[a]
  PROVE  /\ now'[e] = seen'[a]
         /\ \/ Contains(fresh'[e], a) /\ step'[e] \in {"deduping", "done"}
            \/ cause'[e] = "memory"
<1>0. /\ StepTypes /\ DedupTypes /\ Resting
  BY DEF TypeInv
<1>1. Remember(e) \/ MemoryRaises(e)
  <2>1. Outside(e) \/ Gather(e) \/ Recall(e) => seen' = seen
    BY DEF Outside, Start, Source, Acquire, Fetch, Retry, GatherFails, Gather,
       Recall, dedup
  <2> QED
    BY <2>1 DEF LoopStep
<1>2. Mark(e) /\ now' = now
  BY <1>1 DEF Remember, MemoryRaises
<1>3. a = Head(batch[e]) /\ now'[e] = seen'[a]
  BY <1>0, <1>2 DEF Mark, DedupTypes
<1>4. CASE MemoryRaises(e)
  BY <1>0, <1>3, <1>4 DEF MemoryRaises, FailStep, StepTypes
<1>5. CASE Remember(e)
  <2>1. /\ Loop(e, Tail(batch[e]))
        /\ fresh'[e] = Append(fresh[e], a)
        /\ fresh[e] \in Seq(Articles)
    BY <1>0, <1>3, <1>5 DEF Remember, DedupTypes
  <2>2. Contains(fresh'[e], a)
    BY <2>1, OneMore
  <2>3. step'[e] \in {"deduping", "done"}
    BY <1>0, <2>1 DEF Loop, StepTypes
  <2> QED
    BY <1>3, <2>2, <2>3
<1> QED
  BY <1>1, <1>4, <1>5

\* Every step keeps the deliverers of the marks.
LEMMA MarkedStep ==
  TypeInv /\ MarkedIsDelivered /\ [Next]_vars => MarkedIsDelivered'
<1> SUFFICES ASSUME TypeInv, MarkedIsDelivered, [Next]_vars
             PROVE  MarkedIsDelivered'
  OBVIOUS
<1>1. CASE Tick \/ UNCHANGED vars
  <2>1. UNCHANGED <<seen, now, fresh, step, cause>>
    BY <1>1 DEF Tick, vars, dedup
  <2> QED
    BY <2>1 DEF MarkedIsDelivered
<1>2. ASSUME NEW e \in Executions, Outside(e) \/ LoopStep(e)
      PROVE  MarkedIsDelivered'
  <2> SUFFICES ASSUME NEW a \in Articles, seen'[a] # Never
               PROVE  \E f \in Executions :
                        /\ now'[f] = seen'[a]
                        /\ \/ /\ Contains(fresh'[f], a)
                              /\ step'[f] \in {"deduping", "done"}
                           \/ cause'[f] = "memory"
    BY DEF MarkedIsDelivered
  <2>1. CASE seen'[a] # seen[a]
    BY <1>2, <2>1, MarksOfStep
  <2>2. CASE seen'[a] = seen[a]
    <3>1. PICK f \in Executions :
            /\ now[f] = seen[a]
            /\ \/ Contains(fresh[f], a) /\ step[f] \in {"deduping", "done"}
               \/ cause[f] = "memory"
      BY <2>2 DEF MarkedIsDelivered
    <3>2. step[f] \in {"deduping", "done", "failed"}
      BY <3>1 DEF TypeInv, Resting
    <3> QED
      BY <1>2, <2>2, <3>1, <3>2, ClaimsKept
  <2> QED
    BY <2>1, <2>2
<1> QED
  BY <1>1, <1>2, Kinds

\* For any number of executions that share the memory: an article is marked
\* only by an execution that delivers it or whose memory raised.
THEOREM MarksDeliver == Spec => []MarkedIsDelivered
<1>1. Init => MarkedIsDelivered
  BY DEF Init, MarkedIsDelivered
<1> QED
  BY <1>1, Typed, MarkedStep, PTL DEF Spec

\* What an execution collected is in the rest of its batch, delivered by it,
\* or by another within the window, or lost with another's memory.
Accounted(e, a) ==
  \/ Contains(fresh[e], a)
  \/ \E f \in Executions \ {e} :
       /\ now[e] < now[f] + Window
       /\ Contains(fresh[f], a) \/ cause[f] = "memory"

NoneLost(e) ==
  step[e] \in {"deduping", "done"} =>
    \A a : Contains(Collected(e), a) => Contains(batch[e], a) \/ Accounted(e, a)

DropInv == \A e \in Executions : NoneLost(e)

\* An article once accounted for stays so.
LEMMA AccountedKept ==
  ASSUME TypeInv, NEW e \in Executions, Outside(e) \/ LoopStep(e),
         NEW f \in Executions, step[f] \in {"deduping", "done"},
         NEW a, Accounted(f, a)
  PROVE  Accounted(f, a)'
<1>1. now'[f] = now[f] /\ (Contains(fresh[f], a) => Contains(fresh'[f], a))
  BY ClaimsKept
<1>2. CASE Contains(fresh[f], a)
  BY <1>1, <1>2 DEF Accounted
<1>3. ASSUME NEW g \in Executions \ {f}, now[f] < now[g] + Window,
             Contains(fresh[g], a) \/ cause[g] = "memory"
      PROVE  Accounted(f, a)'
  <2>1. ~Contains(<<>>, a)
    BY DEF Contains
  <2>2. step[g] \in {"deduping", "done", "failed"}
    BY <1>3, <2>1 DEF TypeInv, Resting, StepTypes
  <2>3. /\ now'[g] = now[g]
        /\ Contains(fresh'[g], a) \/ cause'[g] = "memory"
    BY <1>3, <2>2, ClaimsKept
  <2> QED
    BY <1>1, <1>3, <2>3 DEF Accounted
<1> QED
  BY <1>2, <1>3 DEF Accounted

\* A step of the loop takes at most the head of the batch, and accounts for it.
LEMMA HeadAccounted ==
  ASSUME TypeInv, MarkedIsDelivered, NEW e \in Executions,
         step[e] = "deduping", Recall(e) \/ Remember(e),
         NEW a, Contains(batch[e], a)
  PROVE  Contains(batch'[e], a) \/ Accounted(e, a)'
<1>0. /\ StepTypes /\ DedupTypes /\ Resting
  BY DEF TypeInv
<1>1. /\ batch[e] \in Seq(Articles) /\ batch[e] # <<>> /\ cause[e] = "none"
      /\ fresh[e] \in Seq(Articles)
  BY <1>0 DEF Resting, DedupTypes
<1>2. /\ Head(batch[e]) \in Articles
      /\ a = Head(batch[e]) \/ Contains(Tail(batch[e]), a)
  BY <1>1, HeadAndTail
<1>3. batch' = batch \/ batch'[e] = Tail(batch[e])
  BY <1>0 DEF Recall, Remember, Loop, DedupTypes
<1>4. CASE a = Head(batch[e]) /\ Remember(e)
  <2>1. fresh'[e] = Append(fresh[e], a)
    BY <1>0, <1>4 DEF Remember, DedupTypes
  <2> QED
    BY <1>1, <1>2, <1>4, <2>1, OneMore DEF Accounted
<1>5. CASE a = Head(batch[e]) /\ Recall(e) /\ ~Expired(e, a)
  <2>1. a \in Articles /\ seen[a] # Never /\ now[e] < seen[a] + Window
    <3>1. seen[a] # Never /\ ~(now[e] >= seen[a] + Window)
      BY <1>5 DEF Expired
    <3>2. now[e] \in Nat /\ seen[a] \in Nat /\ Window \in Nat
      BY <1>0, <1>2, <1>5, <3>1, NatAssumption DEF DedupTypes
    <3> QED
      BY <1>2, <1>5, <3>1, <3>2
  <2>2. PICK g \in Executions :
          /\ now[g] = seen[a]
          /\ \/ Contains(fresh[g], a) /\ step[g] \in {"deduping", "done"}
             \/ cause[g] = "memory"
    BY <2>1 DEF MarkedIsDelivered
  <2>3. UNCHANGED <<now, fresh, cause>>
    BY <1>5 DEF Recall
  <2> QED
    BY <1>1, <2>1, <2>2, <2>3 DEF Accounted
<1>6. CASE a = Head(batch[e]) /\ Recall(e) /\ Expired(e, a)
  <2>1. batch' = batch
    BY <1>6 DEF Recall
  <2> QED
    BY <2>1
<1> QED
  BY <1>2, <1>3, <1>4, <1>5, <1>6

\* Every step keeps what was collected accounted for.
LEMMA DropStep ==
  TypeInv /\ HonestInv /\ MarkedIsDelivered /\ DropInv /\ [Next]_vars => DropInv'
<1> SUFFICES ASSUME TypeInv, HonestInv, MarkedIsDelivered, DropInv, [Next]_vars,
                    NEW f \in Executions
             PROVE  NoneLost(f)'
  BY DEF DropInv
<1>0. NoneLost(f) /\ Resting
  BY DEF DropInv, TypeInv
<1>1. CASE Tick \/ UNCHANGED vars
  BY <1>0, <1>1 DEF Tick, vars, dedup, NoneLost, Accounted, Collected
<1>2. ASSUME NEW e \in Executions, Outside(e) \/ LoopStep(e) PROVE NoneLost(f)'
  <2>1. ASSUME step[f] \in {"deduping", "done"}, src'[f] = src[f],
               \A a : Contains(batch[f], a)
                        => Contains(batch'[f], a) \/ Accounted(f, a)'
        PROVE  NoneLost(f)'
    <3>1. Collected(f)' = Collected(f)
      BY <2>1 DEF Collected
    <3>2. \A a : Accounted(f, a) => Accounted(f, a)'
      BY <1>2, <2>1, AccountedKept
    <3> QED
      BY <1>0, <2>1, <3>1, <3>2 DEF NoneLost
  <2>2. CASE f # e
    BY <1>0, <1>2, <2>1, <2>2, OthersSame DEF Same, NoneLost
  <2>3. CASE f = e /\ (Start(e) \/ GatherFails(e) \/ MemoryRaises(e))
    <3>1. step'[e] \in {"gathering", "failed"}
      BY <2>3 DEF Start, GatherFails, MemoryRaises, FailStep, TypeInv, StepTypes
    <3> QED
      BY <2>3, <3>1 DEF NoneLost
  <2>4. CASE f = e /\ Source(e)
    <3>1. step' = step /\ ~AllEnded(e)
      BY <2>4, EndedStay DEF Source, Acquire, Fetch, Retry
    <3>2. step'[e] \notin {"deduping", "done"}
      BY <2>4, <3>1 DEF HonestInv
    <3> QED
      BY <2>4, <3>2 DEF NoneLost
  <2>5. CASE f = e /\ Gather(e)
    <3>1. Collected(e)' = Collected(e)
      BY <2>5 DEF Gather, Collected
    <3>2. batch'[e] = Collected(e) \/ fresh'[e] = Collected(e)
      BY <2>5 DEF Gather, Loop, TypeInv, DedupTypes
    <3> QED
      BY <2>5, <3>1, <3>2 DEF NoneLost, Accounted
  <2>6. CASE f = e /\ (Recall(e) \/ Remember(e))
    <3>1. step[e] = "deduping" /\ src' = src
      BY <2>6 DEF Recall, Remember
    <3> QED
      BY <2>1, <2>6, <3>1, HeadAccounted
  <2> QED
    BY <1>2, <2>2, <2>3, <2>4, <2>5, <2>6 DEF Outside, LoopStep
<1> QED
  BY <1>1, <1>2, Kinds

\* For any number of executions that share the memory: every article a
\* successful step collected is delivered by it, by another execution within
\* the window, or was lost with one whose memory raised.
THEOREM NoneDropped == Spec => []NothingIsDropped
<1>1. Init => DropInv
  BY DEF Init, DropInv, NoneLost
<1>2. TypeInv /\ DropInv => NothingIsDropped
  <2> SUFFICES ASSUME TypeInv, DropInv, NEW e \in Executions, step[e] = "done",
                      NEW a \in ToSet(Collected(e))
               PROVE  Accounted(e, a)
    BY DEF NothingIsDropped, Accounted
  <2>1. Contains(Collected(e), a)
    BY CollectedTyped DEF ToSet, Contains, TypeInv
  <2>2. batch[e] = <<>>
    BY DEF TypeInv, Resting
  <2>3. ~Contains(batch[e], a)
    BY <2>2 DEF Contains
  <2> QED
    BY <2>1, <2>3 DEF DropInv, NoneLost
<1> QED
  BY <1>1, <1>2, Typed, Honesty, MarksDeliver, DropStep, PTL DEF Spec

-----------------------------------------------------------------------------
(* Races.                                                                  *)

Alone(e) == e \in Executions /\ ~raced[e]

\* Two executions that deduplicate at once are both known to have raced, and
\* that needs a memory that yields.
RacesKnown ==
  /\ \A e, f \in Deduping : e # f => raced[e] /\ raced[f]
  /\ setup.memory = "local" => \A e \in Executions : ~raced[e]

\* An execution that was alone is not later than those that deduplicate after.
InOrder ==
  /\ \A e \in Executions : now[e] <= clock
  /\ \A e \in Executions \ Deduping, g \in Deduping :
       ~raced[e] /\ fresh[e] # <<>> => now[e] <= now[g]

\* What it delivered is marked, at its time or later.
MarksLast ==
  \A e \in Executions : \A a \in Articles :
    ~raced[e] /\ Contains(fresh[e], a) => seen[a] # Never /\ now[e] <= seen[a]

\* What it has recalled is still as it was recalled.
StillExpired ==
  \A e \in Deduping : ~raced[e] /\ unseen[e] => Expired(e, Head(batch[e]))

\* The repeats, spelt out.
NoRepeats ==
  /\ \A e \in Executions : ~raced[e] => IsInjective(fresh[e])
  /\ \A e, f \in Executions : \A a \in Articles :
       e # f /\ ~raced[e] /\ ~raced[f] /\ Contains(fresh[e], a) /\ Contains(fresh[f], a)
         => Apart(e, f)

RaceInv ==
  setup.memory # "none" =>
    RacesKnown /\ InOrder /\ MarksLast /\ StillExpired /\ NoRepeats

\* Steps that leave the memory and the loops alone keep RaceInv.
LEMMA RaceAside ==
  ASSUME TypeInv, RaceInv, UNCHANGED <<setup, dedup>>, Deduping' = Deduping,
         clock' \in Nat, clock <= clock'
  PROVE  RaceInv'
<1> SUFFICES ASSUME setup.memory # "none"
             PROVE  (RacesKnown /\ InOrder /\ MarksLast /\ StillExpired /\ NoRepeats)'
  BY DEF RaceInv
<1>0. RacesKnown /\ InOrder /\ MarksLast /\ StillExpired /\ NoRepeats
  BY DEF RaceInv
<1>1. RacesKnown'
  BY <1>0 DEF RacesKnown, dedup
<1>2. InOrder'
  BY <1>0 DEF InOrder, dedup, TypeInv, DedupTypes
<1>3. MarksLast'
  BY <1>0 DEF MarksLast, dedup
<1>4. StillExpired'
  BY <1>0 DEF StillExpired, Expired, dedup
<1>5. NoRepeats'
  BY <1>0 DEF NoRepeats, Apart, dedup
<1> QED
  BY <1>1, <1>2, <1>3, <1>4, <1>5

\* The beginning of a loop keeps RaceInv.
LEMMA RaceGather ==
  ASSUME TypeInv, RaceInv, NEW e \in Executions, Gather(e)
  PROVE  RaceInv'
<1> SUFFICES ASSUME setup.memory # "none"
             PROVE  (RacesKnown /\ InOrder /\ MarksLast /\ StillExpired /\ NoRepeats)'
  BY DEF RaceInv, Gather
<1>0. /\ RacesKnown /\ InOrder /\ MarksLast /\ StillExpired /\ NoRepeats
      /\ StepTypes /\ DedupTypes /\ Resting
  BY DEF RaceInv, TypeInv
<1>1. /\ step[e] = "gathering" /\ fresh[e] = <<>> /\ ~unseen[e]
      /\ UNCHANGED <<setup, clock, fresh, unseen, seen>>
      /\ now' = [now EXCEPT ![e] = clock]
      /\ Loop(e, Collected(e)) /\ MayDedupe
      /\ raced' = IF Collected(e) = <<>> \/ Deduping = {} THEN raced
                  ELSE [f \in Executions |-> raced[f] \/ f = e \/ f \in Deduping]
  BY <1>0 DEF Gather, Resting
<1>2. /\ \A f \in Executions : raced[f] => raced'[f]
      /\ Collected(e) # <<>> /\ Deduping # {} =>
           \A f \in Executions : raced'[f] <=> raced[f] \/ f = e \/ f \in Deduping
      /\ Collected(e) = <<>> \/ Deduping = {} => raced' = raced
  <2>1. CASE Collected(e) = <<>> \/ Deduping = {}
    BY <1>1, <2>1
  <2>2. CASE ~(Collected(e) = <<>> \/ Deduping = {})
    <3>1. raced' = [f \in Executions |-> raced[f] \/ f = e \/ f \in Deduping]
      BY <1>1, <2>2
    <3>2. \A f \in Executions : raced'[f] = (raced[f] \/ f = e \/ f \in Deduping)
      BY <3>1, Zenon
    <3> QED
      BY <2>2, <3>2
  <2> QED
    BY <2>1, <2>2
<1>3. /\ \A f \in Executions : f # e => step'[f] = step[f] /\ batch'[f] = batch[f]
      /\ step'[e] = IF Collected(e) = <<>> THEN "done" ELSE "deduping"
      /\ batch'[e] = Collected(e)
  BY <1>0, <1>1 DEF Loop, StepTypes, DedupTypes
<1>4. /\ \A f \in Executions : f # e => now'[f] = now[f]
      /\ now'[e] = clock
  BY <1>0, <1>1 DEF DedupTypes
<1>5. /\ e \notin Deduping
      /\ Deduping' = IF Collected(e) = <<>> THEN Deduping ELSE Deduping \union {e}
  BY <1>1, <1>3 DEF Deduping
<1>6. \A a : ~Contains(fresh[e], a)
  BY <1>1 DEF Contains
<1>7. RacesKnown'
  <2>1. ASSUME NEW f \in Deduping', NEW g \in Deduping', f # g
        PROVE  raced'[f] /\ raced'[g]
    <3>1. f \in Executions /\ g \in Executions
      BY DEF Deduping
    <3>2. CASE f \in Deduping /\ g \in Deduping
      BY <1>0, <1>2, <2>1, <3>1, <3>2 DEF RacesKnown
    <3>3. CASE ~(f \in Deduping /\ g \in Deduping)
      BY <1>2, <1>5, <2>1, <3>1, <3>3
    <3> QED
      BY <3>2, <3>3
  <2>2. setup.memory = "local" => raced' = raced
    BY <1>1, <1>2 DEF MayDedupe
  <2> QED
    BY <1>0, <1>1, <2>1, <2>2 DEF RacesKnown
<1>8. InOrder'
  <2>1. \A f \in Executions : now'[f] <= clock'
    BY <1>0, <1>1, <1>4 DEF InOrder, DedupTypes
  <2>2. ASSUME NEW f \in Executions \ Deduping', NEW g \in Deduping',
               ~raced'[f], fresh'[f] # <<>>
        PROVE  now'[f] <= now'[g]
    <3>1. f # e /\ f \notin Deduping /\ ~raced[f] /\ fresh[f] # <<>>
      BY <1>1, <1>2, <1>5, <2>2
    <3>2. g = e \/ (g \in Deduping /\ g # e /\ g \in Executions)
      BY <1>5 DEF Deduping
    <3> QED
      BY <1>0, <1>4, <3>1, <3>2 DEF InOrder
  <2> QED
    BY <2>1, <2>2 DEF InOrder
<1>9. MarksLast'
  BY <1>0, <1>1, <1>2, <1>4, <1>6 DEF MarksLast
<1>10. StillExpired'
  <2>1. ASSUME NEW f \in Deduping', ~raced'[f], unseen'[f]
        PROVE  f # e /\ f \in Deduping /\ ~raced[f] /\ unseen[f] /\ f \in Executions
    BY <1>1, <1>2, <1>5, <2>1 DEF Deduping
  <2> QED
    BY <1>0, <1>1, <1>3, <1>4, <2>1 DEF StillExpired, Expired
<1>11. NoRepeats'
  <2>1. \A f \in Executions : ~raced'[f] => IsInjective(fresh'[f])
    BY <1>0, <1>1, <1>2 DEF NoRepeats
  <2>2. ASSUME NEW f \in Executions, NEW g \in Executions, NEW a \in Articles,
               f # g, ~raced'[f], ~raced'[g],
               Contains(fresh'[f], a), Contains(fresh'[g], a)
        PROVE  Apart(f, g)'
    <3>1. f # e /\ g # e
      BY <1>1, <1>6, <2>2
    <3>2. Apart(f, g)
      BY <1>0, <1>1, <1>2, <2>2 DEF NoRepeats
    <3> QED
      BY <1>4, <3>1, <3>2 DEF Apart
  <2> QED
    BY <2>1, <2>2 DEF NoRepeats
<1> QED
  BY <1>7, <1>8, <1>9, <1>10, <1>11

\* A step of the loop: it marks at most the head of the batch, delivers it only
\* with the mark, and leaves a recall behind only with nothing marked.
LEMMA LoopEffect ==
  ASSUME TypeInv, NEW e \in Executions, Recall(e) \/ Remember(e) \/ MemoryRaises(e)
  PROVE  /\ e \in Deduping /\ UNCHANGED <<setup, clock, now, raced>>
         /\ Head(batch[e]) \in Articles /\ Deduping' \subseteq Deduping
         /\ \/ seen' = seen
            \/ /\ unseen[e] /\ seen'[Head(batch[e])] = now[e]
               /\ \A a \in Articles : a # Head(batch[e]) => seen'[a] = seen[a]
               /\ unseen'[e] => e \notin Deduping'
         /\ \/ fresh' = fresh
            \/ /\ fresh'[e] = Append(fresh[e], Head(batch[e]))
               /\ unseen[e] /\ seen'[Head(batch[e])] = now[e]
<1>0. /\ StepTypes /\ DedupTypes /\ Resting
  BY DEF TypeInv
<1>1. /\ step[e] = "deduping" /\ UNCHANGED <<setup, clock, now, raced>>
  BY DEF Recall, Remember, MemoryRaises
<1>2. Head(batch[e]) \in Articles
  BY <1>0, <1>1, HeadAndTail DEF Resting, DedupTypes
<1>3. Deduping' \subseteq Deduping
  BY <1>0, <1>1, OthersSame DEF Deduping, Same, LoopStep
<1>4. Mark(e) => /\ seen'[Head(batch[e])] = now[e]
                 /\ \A a \in Articles : a # Head(batch[e]) => seen'[a] = seen[a]
  BY <1>0, <1>2 DEF Mark, DedupTypes
<1>5. CASE Recall(e)
  BY <1>1, <1>2, <1>3, <1>5 DEF Recall, Deduping
<1>6. CASE Remember(e)
  <2>1. /\ unseen[e] /\ ~unseen'[e] /\ Mark(e)
        /\ fresh'[e] = Append(fresh[e], Head(batch[e]))
    BY <1>0, <1>6 DEF Remember, DedupTypes
  <2> QED
    BY <1>1, <1>2, <1>3, <1>4, <2>1 DEF Deduping
<1>7. CASE MemoryRaises(e)
  <2>1. /\ seen' = seen \/ (unseen[e] /\ Mark(e))
        /\ fresh' = fresh /\ e \notin Deduping'
    BY <1>0, <1>7 DEF MemoryRaises, FailStep, StepTypes, Deduping
  <2> QED
    BY <1>1, <1>2, <1>3, <1>4, <2>1 DEF Deduping
<1> QED
  BY <1>5, <1>6, <1>7

\* A step of the loop keeps RaceInv, with a window that is not empty.
LEMMA RaceLoop ==
  ASSUME Window > 0, TypeInv, RaceInv, NEW e \in Executions,
         Recall(e) \/ Remember(e) \/ MemoryRaises(e)
  PROVE  RaceInv'
<1> DEFINE h == Head(batch[e])
<1> SUFFICES ASSUME setup.memory # "none"
             PROVE  (RacesKnown /\ InOrder /\ MarksLast /\ StillExpired /\ NoRepeats)'
  BY LoopEffect DEF RaceInv
<1>0. /\ RacesKnown /\ InOrder /\ MarksLast /\ StillExpired /\ NoRepeats
      /\ StepTypes /\ DedupTypes /\ Resting
  BY DEF RaceInv, TypeInv
<1>1. /\ e \in Deduping /\ UNCHANGED <<setup, clock, now, raced>>
      /\ h \in Articles /\ Deduping' \subseteq Deduping
      /\ \/ seen' = seen
         \/ /\ unseen[e] /\ seen'[h] = now[e]
            /\ \A a \in Articles : a # h => seen'[a] = seen[a]
            /\ unseen'[e] => e \notin Deduping'
      /\ \/ fresh' = fresh
         \/ /\ fresh'[e] = Append(fresh[e], h)
            /\ unseen[e] /\ seen'[h] = now[e]
  BY LoopEffect
<1>2. \A f \in Executions : f # e => Same(f)
  BY OthersSame DEF LoopStep
<1> HIDE DEF h
<1>3. \A f \in Deduping : f # e => raced[f] /\ raced[e]
  BY <1>0, <1>1 DEF RacesKnown
<1>4. /\ \A a : Contains(fresh'[e], a) <=>
                  Contains(fresh[e], a) \/ (a = h /\ fresh'[e] # fresh[e])
      /\ fresh'[e] # fresh[e] =>
           fresh'[e] = Append(fresh[e], h) /\ unseen[e] /\ seen'[h] = now[e]
  <2>1. fresh[e] \in Seq(Articles)
    BY <1>0 DEF DedupTypes
  <2>2. \A x : Contains(Append(fresh[e], h), x) <=> x = h \/ Contains(fresh[e], x)
    BY <1>1, <2>1, OneMore
  <2>3. Append(fresh[e], h) # fresh[e]
    BY <1>1, <2>1
  <2>4. CASE fresh' = fresh
    BY <2>4
  <2>5. CASE fresh'[e] = Append(fresh[e], h) /\ unseen[e] /\ seen'[h] = now[e]
    BY <2>2, <2>3, <2>5
  <2> QED
    BY <1>1, <2>4, <2>5
<1>5. RacesKnown'
  BY <1>0, <1>1 DEF RacesKnown
<1>6. InOrder'
  <2>1. ASSUME NEW f \in Executions \ Deduping', NEW g \in Deduping',
               ~raced'[f], fresh'[f] # <<>>
        PROVE  now'[f] <= now'[g]
    <3>1. CASE f = e
      BY <1>1, <1>3, <2>1, <3>1
    <3>2. CASE f # e
      <4>1. f \notin Deduping /\ fresh[f] # <<>> /\ g \in Deduping
        BY <1>1, <1>2, <2>1, <3>2 DEF Same, Deduping
      <4> QED
        BY <1>0, <1>1, <2>1, <4>1 DEF InOrder
    <3> QED
      BY <3>1, <3>2
  <2> QED
    BY <1>0, <1>1, <2>1 DEF InOrder
<1>7. MarksLast'
  <2> SUFFICES ASSUME NEW f \in Executions, NEW a \in Articles,
                      ~raced[f], Contains(fresh'[f], a)
               PROVE  seen'[a] # Never /\ now[f] <= seen'[a]
    BY <1>1 DEF MarksLast
  <2>0. now[e] \in Nat /\ now[f] \in Nat /\ Never \notin Nat
    BY <1>0, NatAssumption DEF DedupTypes
  <2>1. CASE seen'[a] # seen[a]
    <3>1. seen'[a] = now[e]
      BY <1>1, <2>1
    <3>2. CASE f = e
      BY <2>0, <3>1, <3>2
    <3>3. CASE f # e
      <4>1. f \notin Deduping /\ fresh[f] # <<>>
        BY <1>2, <1>3, <3>3 DEF Same, Contains
      <4> QED
        BY <1>0, <1>1, <2>0, <3>1, <4>1 DEF InOrder
    <3> QED
      BY <3>2, <3>3
  <2>2. CASE seen'[a] = seen[a]
    <3>1. CASE Contains(fresh[f], a)
      BY <1>0, <2>2, <3>1 DEF MarksLast
    <3>2. CASE ~Contains(fresh[f], a)
      <4>1. f = e /\ a = h /\ fresh'[e] # fresh[e]
        BY <1>2, <1>4, <3>2 DEF Same
      <4> QED
        BY <1>4, <2>0, <4>1
    <3> QED
      BY <3>1, <3>2
  <2> QED
    BY <2>1, <2>2
<1>8. StillExpired'
  <2> SUFFICES ASSUME NEW f \in Deduping', ~raced[f], unseen'[f]
               PROVE  Expired(f, Head(batch[f]))'
    BY <1>1 DEF StillExpired
  <2>1. f = e
    BY <1>1, <1>3
  <2>2. seen' = seen
    BY <1>1, <2>1
  <2>3. batch'[e] = batch[e] /\ Expired(e, h)
    <3>1. CASE Recall(e)
      <4>1. ~unseen[e]
        BY <3>1 DEF Recall
      <4>2. Expired(e, h) /\ batch' = batch
        BY <2>1, <3>1, <4>1 DEF Recall, h
      <4> QED
        BY <4>2
    <3>2. CASE Remember(e)
      BY <1>0, <2>1, <3>2 DEF Remember, DedupTypes
    <3>3. CASE MemoryRaises(e)
      BY <1>0, <2>1, <3>3 DEF MemoryRaises, FailStep, Deduping, StepTypes
    <3> QED
      BY <3>1, <3>2, <3>3
  <2> QED
    BY <1>1, <2>1, <2>2, <2>3 DEF Expired, h
<1>9. ASSUME ~raced[e], fresh'[e] # fresh[e]
      PROVE  \A f \in Executions : ~raced[f] /\ Contains(fresh[f], h)
               => f # e /\ now[e] >= now[f] + Window
  <2>1. Expired(e, h)
    BY <1>0, <1>1, <1>4, <1>9 DEF StillExpired, h
  <2> SUFFICES ASSUME NEW f \in Executions, ~raced[f], Contains(fresh[f], h)
               PROVE  f # e /\ now[e] >= now[f] + Window
    OBVIOUS
  <2>2. seen[h] # Never /\ now[f] <= seen[h]
    BY <1>0, <1>1 DEF MarksLast
  <2>3. now[e] >= seen[h] + Window
    BY <2>1, <2>2 DEF Expired
  <2>4. now[e] \in Nat /\ now[f] \in Nat /\ seen[h] \in Nat /\ Window \in Nat
    BY <1>0, <1>1, <2>2, NatAssumption DEF DedupTypes
  <2> QED
    BY <2>2, <2>3, <2>4
<1>10. NoRepeats'
  <2>1. ASSUME NEW f \in Executions, ~raced[f] PROVE IsInjective(fresh'[f])
    <3>1. CASE fresh'[f] = fresh[f]
      BY <1>0, <2>1, <3>1 DEF NoRepeats
    <3>2. CASE fresh'[f] # fresh[f]
      <4>1. f = e
        BY <1>2, <3>2 DEF Same
      <4>2. IsInjective(fresh[e]) /\ ~Contains(fresh[e], h)
        BY <1>0, <1>9, <2>1, <3>2, <4>1 DEF NoRepeats
      <4>3. fresh[e] \in Seq(Articles)
        BY <1>0 DEF DedupTypes
      <4>4. IsInjective(Append(fresh[e], h))
        BY <1>1, <4>2, <4>3, OneMore
      <4>5. fresh'[e] = Append(fresh[e], h)
        BY <1>4, <3>2, <4>1
      <4> QED
        BY <4>1, <4>4, <4>5
    <3> QED
      BY <3>1, <3>2
  <2>2. ASSUME NEW f \in Executions, NEW g \in Executions, NEW a \in Articles,
               f # g, ~raced[f], ~raced[g],
               Contains(fresh'[f], a), Contains(fresh'[g], a)
        PROVE  Apart(f, g)
    <3>1. ASSUME NEW x \in Executions, Contains(fresh'[x], a)
          PROVE  Contains(fresh[x], a) \/ (x = e /\ a = h /\ fresh'[e] # fresh[e])
      BY <1>2, <1>4, <3>1 DEF Same
    <3>2. CASE Contains(fresh[f], a) /\ Contains(fresh[g], a)
      BY <1>0, <2>2, <3>2 DEF NoRepeats
    <3>3. CASE ~(Contains(fresh[f], a) /\ Contains(fresh[g], a))
      BY <1>9, <2>2, <3>1, <3>3 DEF Apart
    <3> QED
      BY <3>2, <3>3
  <2> QED
    BY <1>1, <2>1, <2>2 DEF NoRepeats, Apart
<1> QED
  BY <1>5, <1>6, <1>7, <1>8, <1>10

\* Every step keeps RaceInv.
LEMMA RaceStep ==
  ASSUME Window > 0, TypeInv, RaceInv, [Next]_vars
  PROVE  RaceInv'
<1>0. clock \in Nat /\ StepTypes
  BY DEF TypeInv, DedupTypes
<1>1. CASE Tick \/ UNCHANGED vars
  <2>1. /\ UNCHANGED <<setup, dedup>> /\ Deduping' = Deduping
        /\ clock' \in Nat /\ clock <= clock'
    BY <1>0, <1>1 DEF Tick, vars, dedup, Deduping
  <2> QED
    BY <2>1, RaceAside
<1>2. ASSUME NEW e \in Executions, Outside(e) PROVE RaceInv'
  <2>1. UNCHANGED <<setup, clock, dedup>>
    BY <1>2, OutsideTyped
  <2>2. Deduping' = Deduping
    <3>1. step' = step \/ \/ Start(e)
                          \/ GatherFails(e)
      BY <1>2 DEF Outside, Source, Acquire, Fetch, Retry
    <3> QED
      BY <1>0, <3>1 DEF Start, GatherFails, FailStep, StepTypes, Deduping
  <2> QED
    BY <1>0, <2>1, <2>2, RaceAside
<1> QED
  BY <1>1, <1>2, Kinds, RaceGather, RaceLoop DEF LoopStep

\* For any number of executions that share the memory and a window that is not
\* empty: executions that deduplicated alone list an article once, and two of
\* them the same one only a window apart.
THEOREM NoRepeatAlone ==
  ASSUME Window > 0
  PROVE  Spec => []RepeatsNeedARace
<1>1. Init => RaceInv
  BY DEF Init, RaceInv, RacesKnown, InOrder, MarksLast, StillExpired, NoRepeats,
     Deduping, Contains, IsInjective
<1>2. TypeInv /\ RaceInv /\ [Next]_vars => RaceInv'
  BY RaceStep
<1>3. RaceInv => RepeatsNeedARace
  BY DEF RaceInv, RacesKnown, NoRepeats, RepeatsNeedARace
<1> QED
  BY <1>1, <1>2, <1>3, Typed, PTL DEF Spec
=============================================================================
