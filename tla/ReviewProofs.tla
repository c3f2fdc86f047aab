---------------------------- MODULE ReviewProofs ----------------------------
(***************************************************************************)
(* Theorems about Review, for every set of runs, requests and verdicts and *)
(* every bound on deliveries, mishaps and visits.                          *)
(***************************************************************************)
EXTENDS Review, SequenceTheorems, FoldLemmas

-----------------------------------------------------------------------------
(* Types, without the bounds.                                              *)

Statuses == {"pending", "approved", "rejected"}

Items ==
  [run : Runs, time : Nat, status : Statuses, reason : BOOLEAN,
   payload : SUBSET Requests, last : Requests \union {Nobody}]

RequestStates ==
  [pc : {"idle", "verified", "loaded", "written", "answered"},
   op : Operations, item : Nat, base : SUBSET Requests,
   earlier : SUBSET Requests, found : Statuses, loaded : SUBSET Requests]

PassTypes ==
  /\ pass \in [Runs -> Places] /\ time \in [Runs -> Nat]
  /\ verdict \in [Runs -> Shows] /\ stumbled \in [Runs -> BOOLEAN]
  /\ audit \in [Runs -> Nat]
  /\ newest \in [by : Runs \union {Nobody, Reviewer}, time : Nat,
                 verdict : Shows]

QueueTypes ==
  /\ items \in Seq(Items)
  /\ request \in [Requests -> RequestStates]
  /\ \A q \in Requests :
       request[q].pc # "idle" => request[q].item \in DOMAIN items

ViewTypes ==
  view \in [pc : {"idle", "entries", "graph", "answered"},
            run : Runs \union {Nobody}, entries : Nat, raw : Seq(Shows)]

TypeInv == PassTypes /\ QueueTypes /\ ViewTypes

\* Every variable has its type initially.
LEMMA TypeInit == Init => TypeInv
<1> SUFFICES ASSUME Init PROVE TypeInv
  OBVIOUS
<1>1. PassTypes
  BY DEF Init, PassTypes, Places, Shows, NoEntry, Entry
<1>2. QueueTypes
  BY DEF Init, QueueTypes, RequestStates, NoRequest, Operations, Statuses
<1>3. ViewTypes
  BY DEF Init, ViewTypes, NoView
<1> QED
  BY <1>1, <1>2, <1>3 DEF TypeInv

\* What a pass appends to the episodic list is typed.
LEMMA SavesTyped ==
  ASSUME PassTypes, NEW r \in Runs, NEW v \in Shows, Saves(r, v)
  PROVE  newest' \in [by : Runs \union {Nobody, Reviewer}, time : Nat,
                      verdict : Shows]
  BY DEF PassTypes, Saves, Entry

\* record_company_enriched keeps the types of what it writes.
LEMMA RecordedTyped ==
  ASSUME PassTypes, NEW r \in Runs, NEW to \in Places, Recorded(r, to),
         UNCHANGED <<time, verdict, stumbled>>
  PROVE  PassTypes'
<1>1. pass' \in [Runs -> Places]
  BY DEF Recorded, Goes, PassTypes
<1>2. audit' \in [Runs -> Nat]
  <2>1. [audit EXCEPT ![r] = @ + 1] \in [Runs -> Nat]
    BY DEF PassTypes
  <2> QED
    BY <2>1 DEF Recorded, PassTypes
<1>3. newest' \in [by : Runs \union {Nobody, Reviewer}, time : Nat,
                   verdict : Shows]
  BY SavesTyped DEF Recorded, PassTypes, Shows
<1> QED
  BY <1>1, <1>2, <1>3 DEF PassTypes

\* Every step of a pass keeps the types of its variables.
LEMMA StepTyped ==
  ASSUME PassTypes, NEW r \in Runs, Step(r)
  PROVE  PassTypes'
<1> DEFINE Entries == [by : Runs \union {Nobody, Reviewer}, time : Nat,
                       verdict : Shows]
<1>0. Undecided \in Shows /\ \A v \in Verdicts : v \in Shows
  BY DEF Shows
<1>1. CASE Deliver(r)
  <2>1. /\ time' = [time EXCEPT ![r] = @ + 1]
        /\ pass' = [pass EXCEPT ![r] = "signals"]
        /\ verdict' = [verdict EXCEPT ![r] = Undecided]
        /\ stumbled' = [stumbled EXCEPT ![r] = FALSE]
        /\ UNCHANGED <<audit, newest>>
    BY <1>1 DEF Deliver, Goes
  <2> QED
    BY <1>0, <2>1 DEF PassTypes, Places
<1>2. CASE Signals(r)
  <2>1. newest' \in Entries
    BY <1>0, <1>2, SavesTyped DEF Signals, SavesAgain, SaveFails, PassTypes
  <2>2. pass' \in [Runs -> Places]
    BY <1>2 DEF Signals, SavesAgain, Goes, PassTypes, Places
  <2>3. stumbled' \in [Runs -> BOOLEAN]
    BY <1>2 DEF Signals, Stumbles, PassTypes
  <2> QED
    BY <1>2, <2>1, <2>2, <2>3 DEF Signals, PassTypes
<1>3. CASE Record(r)
  <2>1. "validate" \in Places
    BY DEF Places
  <2> QED
    BY <1>3, <2>1, RecordedTyped DEF Record
<1>4. CASE Validate(r)
  <2>1. pass' \in [Runs -> Places]
    BY <1>4 DEF Validate, AsksHuman, Goes, PassTypes, Places
  <2>2. stumbled' \in [Runs -> BOOLEAN]
    BY <1>4 DEF Validate, AsksHuman, Stumbles, PassTypes
  <2> QED
    BY <1>4, <2>1, <2>2 DEF Validate, PassTypes
<1>5. CASE Summarise(r)
  <2>1. PICK v \in IF verdict[r] = Undecided THEN Verdicts ELSE {verdict[r]} :
          /\ verdict' = [verdict EXCEPT ![r] = v]
          /\ \/ Saves(r, v) /\ Smooth /\ Settled(r) /\ UNCHANGED stumbled
             \/ SavesAgain(r, v) /\ UNCHANGED stumbled
             \/ SaveFails /\ Settled(r) /\ Stumbles(r)
    BY <1>5 DEF Summarise
  <2>2. v \in Shows
    BY <1>0 DEF PassTypes
  <2>3. newest' \in Entries
    BY <2>1, <2>2, SavesTyped DEF SavesAgain, SaveFails, PassTypes
  <2>4. pass' \in [Runs -> Places]
    BY <2>1 DEF SavesAgain, Settled, Goes, PassTypes, Places
  <2>5. stumbled' \in [Runs -> BOOLEAN]
    BY <2>1 DEF Stumbles, PassTypes
  <2> QED
    BY <1>5, <2>1, <2>2, <2>3, <2>4, <2>5 DEF Summarise, PassTypes
<1>6. CASE Fallback(r)
  <2>1. "paused" \in Places
    BY DEF Places
  <2> QED
    BY <1>6, <2>1, RecordedTyped DEF Fallback
<1> QED
  BY <1>1, <1>2, <1>3, <1>4, <1>5, <1>6 DEF Step

\* A pass adds at most one item to the queue, its own, when it asks for a
\* human.
LEMMA StepQueue ==
  ASSUME NEW r \in Runs, Step(r)
  PROVE  /\ request' = request
         /\ items' = items \/ (Validate(r) /\ items' = Append(items, NewItem(r)))
  BY DEF Step, Deliver, Signals, Record, Validate, Summarise, Fallback,
     AsksHuman, Enqueue, people

\* A new item is typed.
LEMMA NewItemTyped ==
  ASSUME PassTypes, NEW r \in Runs
  PROVE  NewItem(r) \in Items
  BY DEF PassTypes, NewItem, Items, Statuses

\* A step of a pass keeps the queue typed.
LEMMA StepKeepsQueue ==
  ASSUME TypeInv, NEW r \in Runs, Step(r)
  PROVE  QueueTypes'
<1>1. NewItem(r) \in Items
  BY NewItemTyped DEF TypeInv
<1>2. /\ items' \in Seq(Items)
      /\ \A i \in DOMAIN items : i \in DOMAIN items'
  BY <1>1, StepQueue DEF TypeInv, QueueTypes
<1> QED
  BY <1>2, StepQueue DEF TypeInv, QueueTypes

\* A request under way is about an item, and all it does to the item is this.
LEMMA CommitItems ==
  ASSUME QueueTypes, NEW q \in Requests, Commit(q)
  PROVE  LET i == request[q].item IN
         /\ i \in DOMAIN items /\ DOMAIN items' = DOMAIN items
         /\ \A j \in DOMAIN items : j # i => items'[j] = items[j]
         /\ items'[i].run = items[i].run /\ items'[i].time = items[i].time
         /\ items'[i].status = NewStatus(q, items[i].status)
         /\ items'[i].payload = NewPayload(q, items[i].payload)
         /\ items'[i].last = q
         /\ items'[i] \in Items
<1> DEFINE i == request[q].item
           x == [items[i] EXCEPT
                   !.status = NewStatus(q, items[i].status),
                   !.payload = NewPayload(q, items[i].payload),
                   !.reason = items[i].reason \/ request[q].op = "reject",
                   !.last = q]
<1>1. /\ request[q] \in RequestStates /\ i \in DOMAIN items
      /\ items[i] \in Items
  BY DEF QueueTypes, Commit
<1>2. items' = [items EXCEPT ![i] = x]
  BY DEF Commit
<1>3. NewStatus(q, items[i].status) \in Statuses
  BY <1>1 DEF NewStatus, Decision, Items, Statuses
<1>4. NewPayload(q, items[i].payload) \in SUBSET Requests
  BY <1>1 DEF NewPayload, Merged, Items, RequestStates
<1>5. /\ x.run = items[i].run /\ x.time = items[i].time
      /\ x.status = NewStatus(q, items[i].status)
      /\ x.payload = NewPayload(q, items[i].payload)
      /\ x.last = q /\ x \in Items
  BY <1>1, <1>3, <1>4 DEF Items
<1> HIDE DEF x
<1> QED
  BY <1>1, <1>2, <1>5 DEF QueueTypes

\* What a request has read or found is typed.
LEMMA ReviewTyped ==
  ASSUME QueueTypes, NEW q \in Requests, Review(q)
  PROVE  QueueTypes'
<1>1. ASSUME NEW op \in Operations, NEW i \in DOMAIN items, Verify(q, op, i)
      PROVE  QueueTypes'
  <2>1. items[i] \in Items /\ i \in Nat
    BY DEF QueueTypes
  <2>2. /\ Edits(i) \in SUBSET Requests
        /\ items[i].payload \in SUBSET Requests
        /\ request[q] \in RequestStates /\ op \in Operations
    BY <1>1, <2>1 DEF Edits, Items, QueueTypes
  <2>3. PICK x \in RequestStates : /\ request' = [request EXCEPT ![q] = x]
                                  /\ x.item = i
    <3>1. CASE op = "edit"
      <4> DEFINE x == [request[q] EXCEPT !.pc = "verified", !.op = op,
                         !.item = i, !.base = items[i].payload,
                         !.earlier = Edits(i)]
      <4>1. x \in RequestStates /\ x.item = i
        BY <2>1, <2>2 DEF RequestStates
      <4> QED
        BY <1>1, <3>1, <4>1 DEF Verify
    <3>2. CASE op # "edit"
      <4> DEFINE x == [request[q] EXCEPT !.pc = "verified", !.op = op,
                         !.item = i]
      <4>1. x \in RequestStates /\ x.item = i
        BY <2>1, <2>2 DEF RequestStates
      <4> QED
        BY <1>1, <3>2, <4>1 DEF Verify
    <3> QED
      BY <3>1, <3>2
  <2>4. items' = items
    BY <1>1 DEF Verify
  <2> QED
    BY <2>3, <2>4 DEF QueueTypes
<1>2. CASE Load(q)
  <2> DEFINE i == request[q].item
             x == [request[q] EXCEPT !.pc = "loaded",
                     !.found = items[i].status, !.loaded = items[i].payload]
  <2>1. i \in DOMAIN items /\ items[i] \in Items /\ request[q] \in RequestStates
    BY <1>2 DEF QueueTypes, Load
  <2>2. x \in RequestStates /\ x.item = i
    BY <2>1 DEF RequestStates, Items
  <2>3. request' = [request EXCEPT ![q] = x] /\ items' = items
    BY <1>2 DEF Load
  <2> HIDE DEF x
  <2> QED
    BY <2>1, <2>2, <2>3 DEF QueueTypes
<1>3. CASE Commit(q)
  <2>1. items' \in Seq(Items) /\ DOMAIN items' = DOMAIN items
    <3>1. /\ DOMAIN items' = DOMAIN items
          /\ \A j \in DOMAIN items : items'[j] \in Items
      BY <1>3, CommitItems DEF QueueTypes
    <3>2. items' = [items EXCEPT ![request[q].item] = items'[request[q].item]]
      BY <1>3, CommitItems DEF Commit, QueueTypes
    <3> QED
      BY <3>1, <3>2, CommitItems, <1>3 DEF QueueTypes
  <2>2. PICK x \in RequestStates :
          request' = [request EXCEPT ![q] = x] /\ x.item = request[q].item
    <3> DEFINE next == IF request[q].op = "reject" THEN "written"
                       ELSE "answered"
               x == [request[q] EXCEPT !.pc = next, !.base = {},
                                       !.loaded = {}]
    <3>1. request[q] \in RequestStates /\ next \in {"written", "answered"}
      BY DEF QueueTypes
    <3>2. request' = [request EXCEPT ![q] = x]
      BY <1>3, <3>1 DEF Commit, RequestStates
    <3> HIDE DEF next
    <3>3. x \in RequestStates /\ x.item = request[q].item
      BY <3>1 DEF RequestStates
    <3> QED
      BY <3>2, <3>3
  <2>3. request[q].item \in DOMAIN items
    BY <1>3, CommitItems
  <2> QED
    BY <2>1, <2>2, <2>3 DEF QueueTypes
<1>4. CASE Announce(q)
  <2> DEFINE x == [request[q] EXCEPT !.pc = "answered"]
  <2>1. /\ items' = items /\ request[q] \in RequestStates
        /\ request[q].item \in DOMAIN items
    BY <1>4 DEF Announce, QueueTypes
  <2>2. request' = [request EXCEPT ![q] = x]
    BY <1>4 DEF Announce
  <2>3. x \in RequestStates /\ x.item = request[q].item
    BY <2>1 DEF RequestStates
  <2> HIDE DEF x
  <2> QED
    BY <2>1, <2>2, <2>3 DEF QueueTypes
<1> QED
  BY <1>1, <1>2, <1>3, <1>4 DEF Review

\* A request changes nothing of the passes but the newest entry.
LEMMA ReviewEntries ==
  ASSUME PassTypes, NEW q \in Requests, Review(q)
  PROVE  /\ UNCHANGED <<passVars, view>>
         /\ newest' = newest \/ newest' = Entry(Reviewer, 0, Undecided)
  BY DEF Review, Verify, Load, Commit, Announce, SaveFails

\* A step of a results request, a click or an expiry leaves passes and queue.
LEMMA OthersKeep ==
  ASSUME Results \/ Click \/ Expire
  PROVE  /\ UNCHANGED <<passVars, items, request>>
         /\ newest' \in {newest, Entry(Reviewer, 0, Undecided), NoEntry}
  BY DEF Results, ReadAudit, ReadEntry, ReadGraph, ReadFails, Respond, Click,
     Expire, people

\* A results request keeps its type.
LEMMA ViewTyped ==
  ASSUME TypeInv, Results
  PROVE  ViewTypes'
<1>1. Shown \in Shows
  BY DEF Shown, TypeInv, PassTypes
<1>2. CASE \E r \in Runs : ReadAudit(r)
  BY <1>2 DEF ReadAudit, TypeInv, PassTypes, ViewTypes
<1>3. CASE ReadEntry
  <2>1. Append(view.raw, Shown) \in Seq(Shows)
    BY <1>1 DEF TypeInv, ViewTypes
  <2>2. view' = [view EXCEPT !.raw = Append(view.raw, Shown)]
    BY <1>3 DEF ReadEntry
  <2> QED
    BY <2>1, <2>2 DEF TypeInv, ViewTypes
<1>4. CASE ReadGraph
  <2> DEFINE raw == IF known THEN <<Shown>> ELSE <<>>
  <2>1. raw \in Seq(Shows)
    BY <1>1
  <2>2. view' = [view EXCEPT !.pc = "entries", !.raw = raw]
    BY <1>4 DEF ReadGraph
  <2> HIDE DEF raw
  <2> QED
    BY <2>1, <2>2 DEF TypeInv, ViewTypes
<1>5. CASE ReadFails
  <2>1. NoView.entries = 0 /\ NoView \in [pc : {"idle"}, run : {Nobody},
                                        entries : {0}, raw : {<<>>}]
    BY DEF NoView
  <2>2. CASE view' = NoView
    <3>1. <<>> \in Seq(Shows) /\ 0 \in Nat
      OBVIOUS
    <3> QED
      BY <2>1, <2>2, <3>1 DEF ViewTypes
  <2>3. CASE view' = [view EXCEPT !.pc = "entries"]
    BY <2>3 DEF TypeInv, ViewTypes
  <2> QED
    BY <1>5, <2>2, <2>3 DEF ReadFails
<1>6. CASE Respond
  <2>1. Deduplicated(view.raw) \in Seq(Shows)
    BY DEF Deduplicated, TypeInv, ViewTypes
  <2> HIDE DEF Deduplicated
  <2> QED
    BY <1>6, <2>1 DEF Respond, TypeInv, ViewTypes
<1> QED
  BY <1>2, <1>3, <1>4, <1>5, <1>6 DEF Results

\* Every step keeps every type.
LEMMA TypeStep == TypeInv /\ [Next]_vars => TypeInv'
<1> SUFFICES ASSUME TypeInv, [Next]_vars PROVE TypeInv'
  OBVIOUS
<1>0. /\ Entry(Reviewer, 0, Undecided)
           \in [by : Runs \union {Nobody, Reviewer}, time : Nat, verdict : Shows]
      /\ NoEntry
           \in [by : Runs \union {Nobody, Reviewer}, time : Nat, verdict : Shows]
  BY DEF Entry, NoEntry, Shows
<1>1. ASSUME NEW r \in Runs, Step(r) PROVE TypeInv'
  <2>1. UNCHANGED view
    BY <1>1 DEF Step, Deliver, Signals, Record, Validate, Summarise, Fallback,
       people
  <2> QED
    BY <1>1, <2>1, StepTyped, StepKeepsQueue DEF TypeInv, ViewTypes
<1>2. ASSUME NEW q \in Requests, Review(q) PROVE TypeInv'
  <2>1. /\ UNCHANGED <<passVars, view>>
        /\ newest' = newest \/ newest' = Entry(Reviewer, 0, Undecided)
    BY <1>2, ReviewEntries DEF TypeInv
  <2>2. PassTypes' /\ ViewTypes'
    BY <1>0, <2>1 DEF TypeInv, PassTypes, ViewTypes, passVars
  <2> QED
    BY <1>2, <2>2, ReviewTyped DEF TypeInv
<1>3. CASE Results \/ Click \/ Expire
  <2>1. PassTypes'
    BY <1>0, <1>3, OthersKeep DEF TypeInv, PassTypes, passVars
  <2>2. QueueTypes'
    BY <1>3, OthersKeep DEF TypeInv, QueueTypes
  <2>3. ViewTypes'
    <3>1. CASE Results
      BY <3>1, ViewTyped
    <3>2. CASE Click \/ Expire
      BY <3>2 DEF Click, Expire, people, TypeInv, ViewTypes
    <3> QED
      BY <1>3, <3>1, <3>2
  <2> QED
    BY <2>1, <2>2, <2>3 DEF TypeInv
<1>4. CASE UNCHANGED vars
  BY <1>4 DEF vars, passVars, people, TypeInv, PassTypes, QueueTypes, ViewTypes
<1> QED
  BY <1>1, <1>2, <1>3, <1>4 DEF Next

\* The types hold throughout.
LEMMA Typed == Spec => []TypeInv
  BY TypeInit, TypeStep, PTL DEF Spec

-----------------------------------------------------------------------------
(* How long the queue, the audit log and the clock of executions can grow. *)
(* A validation is counted when its pass has left it: the items are never  *)
(* more than the validations, nor these than the deliveries.               *)

Early(r) == pass[r] \in {"signals", "record", "validate"}
Validated == [r \in Runs |-> IF Early(r) THEN time[r] - 1 ELSE time[r]]

\* How many audit entries the present execution can still append.
Left(r) == IF pass[r] \in {"signals", "record"} THEN 2
           ELSE IF pass[r] \in {"queued", "paused"} THEN 0 ELSE 1

CountInv ==
  /\ \A r \in Runs : /\ (pass[r] # "queued" => time[r] >= 1)
                     /\ audit[r] + Left(r) <= 2 * time[r]
  /\ SumOf(time, Runs) <= MaxDeliveries
  /\ Len(items) <= SumOf(Validated, Runs)

\* An execution's number is no greater than the number of deliveries.
LEMMA TimesBounded ==
  ASSUME PassTypes, CountInv, NEW r \in Runs
  PROVE  time[r] \in Nat /\ time[r] <= MaxDeliveries
<1>1. \A p \in Runs : time[p] \in Nat
  BY DEF PassTypes
<1>2. /\ SumOf(time, Runs \ {r}) \in Nat
      /\ SumOf(time, Runs) = time[r] + SumOf(time, Runs \ {r})
  BY <1>1, SumSplits, BoundsAssumption
<1> QED
  BY <1>1, <1>2, BoundsAssumption DEF CountInv

\* What has been validated is a number, and no more than was delivered.
LEMMA ValidatedTyped ==
  ASSUME PassTypes, CountInv, NEW r \in Runs
  PROVE  Validated[r] \in Nat /\ Validated[r] <= time[r]
<1>1. time[r] \in Nat /\ (pass[r] # "queued" => time[r] >= 1)
  BY DEF PassTypes, CountInv
<1> QED
  BY <1>1 DEF Validated, Early

\* Where a pass goes, when it appends to the audit log and to the queue.
LEMMA Moves ==
  ASSUME PassTypes, NEW r \in Runs, Step(r), ~Deliver(r)
  PROVE  /\ time' = time /\ pass[r] # "queued"
         /\ \A p \in Runs \ {r} : pass'[p] = pass[p] /\ audit'[p] = audit[p]
         /\ \/ pass'[r] = pass[r]
            \/ pass[r] = "signals" /\ pass'[r] = "record"
            \/ pass[r] = "record" /\ pass'[r] = "validate"
            \/ pass[r] = "validate" /\ pass'[r] \in {"fallback", "summary"}
            \/ pass[r] = "summary" /\ pass'[r] = "ended"
            \/ pass[r] = "fallback" /\ pass'[r] = "paused"
         /\ \/ audit'[r] = audit[r]
            \/ /\ audit'[r] = audit[r] + 1
               /\ \/ pass[r] = "record" /\ pass'[r] = "validate"
                  \/ pass[r] = "fallback" /\ pass'[r] = "paused"
         /\ \/ items' = items
            \/ /\ items' = Append(items, NewItem(r))
               /\ pass[r] = "validate" /\ pass'[r] # "validate"
<1>0. pass \in [Runs -> Places] /\ audit \in [Runs -> Nat]
  BY DEF PassTypes
<1>1. CASE Signals(r)
  BY <1>0, <1>1 DEF Signals, SavesAgain, Goes
<1>2. ASSUME NEW to, Recorded(r, to)
      PROVE  /\ \A p \in Runs \ {r} : pass'[p] = pass[p] /\ audit'[p] = audit[p]
             /\ pass'[r] = to /\ audit'[r] \in {audit[r], audit[r] + 1}
  BY <1>0, <1>2 DEF Recorded, Goes
<1>3. CASE Record(r)
  BY <1>2, <1>3 DEF Record
<1>4. CASE Fallback(r)
  BY <1>2, <1>4 DEF Fallback
<1>5. CASE Validate(r)
  BY <1>0, <1>5 DEF Validate, AsksHuman, Enqueue, Goes
<1>6. CASE Summarise(r)
  BY <1>0, <1>6 DEF Summarise, SavesAgain, Settled, Goes
<1> QED
  BY <1>1, <1>3, <1>4, <1>5, <1>6 DEF Step

\* A delivery counts one more execution, validated none.
LEMMA DeliverCounts ==
  ASSUME PassTypes, PassTypes', CountInv, NEW r \in Runs, Deliver(r)
  PROVE  CountInv'
<1>0. IsFiniteSet(Runs) /\ MaxDeliveries \in Nat
  BY BoundsAssumption
<1>1. /\ time' = [time EXCEPT ![r] = @ + 1]
      /\ pass' = [pass EXCEPT ![r] = "signals"]
      /\ audit' = audit /\ items' = items /\ Deliveries < MaxDeliveries
  BY DEF Deliver, Goes
<1>2. /\ \A p \in Runs : /\ pass[p] \in Places /\ time[p] \in Nat
                         /\ time'[p] \in Nat /\ audit[p] \in Nat
      /\ \A p \in Runs \ {r} : time'[p] = time[p] /\ pass'[p] = pass[p]
      /\ time'[r] = time[r] + 1 /\ pass'[r] = "signals"
  BY <1>1 DEF PassTypes
<1>3. Deliveries = SumOf(time, Runs)
  BY DEF Deliveries, SumOf
<1>4. /\ SumOf(time, Runs) \in Nat
      /\ SumOf(time', Runs) = SumOf(time, Runs) + 1
  <2> DEFINE before == time
             after == time'
  <2>1. /\ \A p \in Runs : before[p] \in Nat /\ after[p] \in Nat
        /\ after[r] = before[r] + 1
        /\ \A p \in Runs \ {r} : after[p] = before[p]
        /\ 1 \in Int
    BY <1>2
  <2> HIDE DEF before, after
  <2>2. /\ SumOf(before, Runs) \in Nat
        /\ SumOf(after, Runs) = SumOf(before, Runs) + 1
    BY <1>0, <2>1, SumChanges
  <2> QED
    BY <2>2 DEF before, after
<1>5. SumOf(time', Runs) <= MaxDeliveries
  BY <1>0, <1>1, <1>3, <1>4
<1>6. \A p \in Runs : /\ (pass'[p] # "queued" => time'[p] >= 1)
                      /\ audit'[p] + Left(p)' <= 2 * time'[p]
  <2> SUFFICES ASSUME NEW p \in Runs
               PROVE  /\ (pass'[p] # "queued" => time'[p] >= 1)
                      /\ audit'[p] + Left(p)' <= 2 * time'[p]
    OBVIOUS
  <2>1. /\ (pass[p] # "queued" => time[p] >= 1)
        /\ audit[p] + Left(p) <= 2 * time[p]
    BY DEF CountInv
  <2>2. Left(p) \in 0..2
    BY DEF Left
  <2>3. CASE p = r
    <3>1. Left(p)' = 2
      BY <1>2, <2>3 DEF Left
    <3> QED
      BY <1>1, <1>2, <2>1, <2>2, <2>3, <3>1
  <2>4. CASE p # r
    <3>1. Left(p)' = Left(p)
      BY <1>2, <2>4 DEF Left
    <3> QED
      BY <1>1, <1>2, <2>1, <2>4, <3>1
  <2> QED
    BY <2>3, <2>4
<1>7. Len(items') <= SumOf(Validated', Runs)
  <2> DEFINE v == Validated
             w == Validated'
  <2>1. \A p \in Runs : v[p] \in Nat
    BY ValidatedTyped
  <2>2. \A p \in Runs : w[p] \in Nat /\ v[p] <= w[p]
    <3> SUFFICES ASSUME NEW p \in Runs PROVE w[p] \in Nat /\ v[p] <= w[p]
      OBVIOUS
    <3>1. w[p] = IF pass'[p] \in {"signals", "record", "validate"}
                 THEN time'[p] - 1 ELSE time'[p]
      BY DEF Validated, Early
    <3>2. v[p] = IF pass[p] \in {"signals", "record", "validate"}
                 THEN time[p] - 1 ELSE time[p]
      BY DEF Validated, Early
    <3> HIDE DEF v, w
    <3>3. CASE p = r
      BY <1>2, <2>1, <3>1, <3>2, <3>3
    <3>4. CASE p # r
      BY <1>2, <2>1, <3>1, <3>2, <3>4
    <3> QED
      BY <3>3, <3>4
  <2>3. Len(items) <= SumOf(v, Runs)
    BY DEF CountInv
  <2>4. Len(items) \in Nat \/ items' = items
    BY <1>1
  <2> HIDE DEF v, w
  <2>5. /\ SumOf(v, Runs) \in Nat /\ SumOf(w, Runs) \in Nat
        /\ SumOf(v, Runs) <= SumOf(w, Runs)
    BY <1>0, <2>1, <2>2, SumMonotone
  <2> QED
    BY <1>1, <2>3, <2>5 DEF w
<1> QED
  BY <1>5, <1>6, <1>7 DEF CountInv

\* Any other step of a pass: what it appends to the queue, it has validated,
\* and what it appends to the audit log, it had left.
LEMMA MoveCounts ==
  ASSUME PassTypes, PassTypes', QueueTypes, CountInv, NEW r \in Runs, Step(r),
         ~Deliver(r)
  PROVE  CountInv'
<1>0. IsFiniteSet(Runs) /\ MaxDeliveries \in Nat
  BY BoundsAssumption
<1>1. /\ time' = time /\ pass[r] # "queued"
      /\ \A p \in Runs \ {r} : pass'[p] = pass[p] /\ audit'[p] = audit[p]
      /\ \/ pass'[r] = pass[r]
         \/ pass[r] = "signals" /\ pass'[r] = "record"
         \/ pass[r] = "record" /\ pass'[r] = "validate"
         \/ pass[r] = "validate" /\ pass'[r] \in {"fallback", "summary"}
         \/ pass[r] = "summary" /\ pass'[r] = "ended"
         \/ pass[r] = "fallback" /\ pass'[r] = "paused"
  BY Moves
<1>2. \/ audit'[r] = audit[r]
      \/ /\ audit'[r] = audit[r] + 1
         /\ \/ pass[r] = "record" /\ pass'[r] = "validate"
            \/ pass[r] = "fallback" /\ pass'[r] = "paused"
  BY Moves
<1>3. \/ items' = items
      \/ /\ items' = Append(items, NewItem(r))
         /\ pass[r] = "validate" /\ pass'[r] # "validate"
  BY Moves
<1>4. \A p \in Runs : time[p] \in Nat /\ audit[p] \in Nat
  BY DEF PassTypes
<1>5. SumOf(time', Runs) <= MaxDeliveries
  BY <1>1 DEF CountInv
<1>6. \A p \in Runs : /\ (pass'[p] # "queued" => time'[p] >= 1)
                      /\ audit'[p] + Left(p)' <= 2 * time'[p]
  <2> SUFFICES ASSUME NEW p \in Runs
               PROVE  /\ (pass'[p] # "queued" => time'[p] >= 1)
                      /\ audit'[p] + Left(p)' <= 2 * time'[p]
    OBVIOUS
  <2>1. /\ (pass[p] # "queued" => time[p] >= 1)
        /\ audit[p] + Left(p) <= 2 * time[p] /\ Left(p) \in 0..2
    BY DEF CountInv, Left
  <2>2. CASE p = r
    <3>1. audit'[r] + Left(r)' <= audit[r] + Left(r)
      BY <1>1, <1>2, <1>4 DEF Left
    <3>2. audit'[r] \in Nat /\ Left(r)' \in 0..2
      BY <1>2, <1>4 DEF Left
    <3> QED
      BY <1>1, <1>4, <2>1, <2>2, <3>1, <3>2
  <2>3. CASE p # r
    <3>1. Left(p)' = Left(p)
      BY <1>1, <2>3 DEF Left
    <3> QED
      BY <1>1, <2>1, <2>3, <3>1
  <2> QED
    BY <2>2, <2>3
<1>7. Len(items') <= SumOf(Validated', Runs)
  <2> DEFINE v == Validated
             w == Validated'
             d == IF Early(r) /\ ~Early(r)' THEN 1 ELSE 0
  <2>1. \A p \in Runs : v[p] \in Nat
    BY ValidatedTyped
  <2>2. w[r] = v[r] + d /\ \A p \in Runs \ {r} : w[p] = v[p]
    <3>1. v[r] = IF Early(r) THEN time[r] - 1 ELSE time[r]
      BY DEF Validated
    <3>2. w[r] = IF Early(r)' THEN time[r] - 1 ELSE time[r]
      BY <1>1 DEF Validated
    <3>3. Early(r)' => Early(r)
      BY <1>1 DEF Early
    <3>4. \A p \in Runs \ {r} : w[p] = v[p]
      BY <1>1 DEF Validated, Early
    <3>5. time[r] \in Nat
      BY <1>4
    <3> HIDE DEF v, w
    <3> QED
      BY <3>1, <3>2, <3>3, <3>4, <3>5
  <2>3. Len(items) <= SumOf(v, Runs) /\ Len(items) \in Nat
    BY DEF CountInv, QueueTypes
  <2>4. Len(items') <= Len(items) + d /\ d \in {0, 1} /\ Len(items') \in Nat
    <3>1. CASE items' = items
      BY <2>3, <3>1
    <3>2. CASE items' # items
      <4>1. d = 1
        BY <1>1, <1>3, <3>2 DEF Early
      <4>2. Len(items') = Len(items) + 1
        BY <1>3, <3>2 DEF QueueTypes
      <4> QED
        BY <2>3, <4>1, <4>2
    <3> QED
      BY <3>1, <3>2
  <2> HIDE DEF v, w, d
  <2>5. \A p \in Runs : w[p] \in Nat
    <3>1. ASSUME NEW p \in Runs PROVE w[p] \in Nat
      BY <2>1, <2>2, <2>4
    <3> QED
      BY <3>1
  <2>6. d \in Int
    BY <2>4
  <2>7. SumOf(v, Runs) \in Nat /\ SumOf(w, Runs) = SumOf(v, Runs) + d
    BY <1>0, <2>1, <2>2, <2>5, <2>6, SumChanges
  <2>8. Len(items') <= SumOf(w, Runs)
    BY <2>3, <2>4, <2>7
  <2> QED
    BY <2>8 DEF w
<1> QED
  BY <1>5, <1>6, <1>7 DEF CountInv

\* A step that moves no pass and leaves the queue as long.
LEMMA SameCounts ==
  ASSUME CountInv, UNCHANGED <<pass, time, audit>>, Len(items') = Len(items)
  PROVE  CountInv'
<1>1. Validated' = Validated /\ \A r \in Runs : Left(r)' = Left(r)
  BY DEF Validated, Early, Left
<1> QED
  BY <1>1 DEF CountInv

\* The newest entry and the items are of executions that were delivered, a
\* request is about an item there is, and the bounds on mishaps and visits hold.
RangeInv ==
  /\ known \in BOOLEAN /\ newest.time <= MaxDeliveries
  /\ \A i \in DOMAIN items :
       items[i].time >= 1 /\ items[i].time <= MaxDeliveries
  /\ \A q \in Requests : request[q].item <= Len(items)
  /\ mishaps \in 0..MaxMishaps /\ visits \in 0..MaxVisits

\* A mishap or a visit is counted within its bound.
LEMMA Counted ==
  /\ mishaps \in 0..MaxMishaps /\ (Smooth \/ Mishap)
       => mishaps' \in 0..MaxMishaps
  /\ visits \in 0..MaxVisits /\ (Visit \/ UNCHANGED visits)
       => visits' \in 0..MaxVisits
  BY BoundsAssumption DEF Smooth, Mishap, Visit

\* What a pass saves or enqueues carries the number of its execution.
LEMMA StepRanges ==
  ASSUME TypeInv, CountInv, RangeInv, NEW r \in Runs, Step(r)
  PROVE  RangeInv'
<1>0. /\ time[r] \in Nat /\ time[r] <= MaxDeliveries
      /\ (pass[r] # "queued" => time[r] >= 1)
  BY TimesBounded DEF TypeInv, CountInv
<1>1. known' \in BOOLEAN
  BY DEF Step, Deliver, Signals, Record, Recorded, Validate, Summarise,
     Fallback, RangeInv
<1>2. newest' = newest \/ \E v \in Shows : Saves(r, v)
  <2>1. Undecided \in Shows /\ \A v \in Verdicts : v \in Shows
    BY DEF Shows
  <2>2. CASE Summarise(r)
    <3>1. verdict[r] \in Shows
      BY DEF TypeInv, PassTypes
    <3> QED
      BY <2>1, <2>2, <3>1 DEF Summarise, SavesAgain, SaveFails
  <2> QED
    BY <2>1, <2>2 DEF Step, Deliver, Signals, Record, Recorded, Validate,
       Fallback, SavesAgain, SaveFails
<1>3. newest'.time <= MaxDeliveries
  BY <1>0, <1>2 DEF Saves, Entry, RangeInv
<1>4. request' = request
  BY StepQueue
<1>5. /\ \A i \in DOMAIN items' :
           items'[i].time >= 1 /\ items'[i].time <= MaxDeliveries
      /\ \A q \in Requests : request'[q].item <= Len(items')
  <2>1. CASE items' = items
    BY <1>4, <2>1 DEF RangeInv
  <2>2. CASE Validate(r) /\ items' = Append(items, NewItem(r))
    <3>1. /\ items \in Seq(Items) /\ \A q \in Requests : request[q].item \in Nat
      BY DEF TypeInv, QueueTypes, RequestStates
    <3>2. /\ Len(items') = Len(items) + 1 /\ Len(items) \in Nat
          /\ items'[Len(items) + 1] = NewItem(r)
          /\ \A i \in DOMAIN items : items'[i] = items[i]
          /\ DOMAIN items' = DOMAIN items \union {Len(items) + 1}
      BY <2>2, <3>1
    <3>3. NewItem(r).time = time[r] /\ time[r] >= 1
      BY <1>0, <2>2 DEF NewItem, Validate
    <3>4. \A i \in DOMAIN items' :
            items'[i].time >= 1 /\ items'[i].time <= MaxDeliveries
      BY <1>0, <3>2, <3>3 DEF RangeInv
    <3>5. ASSUME NEW q \in Requests PROVE request'[q].item <= Len(items')
      <4>1. request[q].item <= Len(items) /\ request[q].item \in Nat
        BY <3>1 DEF RangeInv
      <4> QED
        BY <1>4, <3>2, <4>1
    <3> QED
      BY <3>4, <3>5
  <2> QED
    BY <2>1, <2>2, StepQueue
<1>6. visits' = visits
  BY DEF Step, Deliver, Signals, Record, Validate, Summarise, Fallback, people
<1>7. Smooth \/ Mishap
  BY DEF Step, Deliver, Signals, SavesAgain, SaveFails, Record, Recorded,
     Validate, AsksHuman, Summarise, Fallback
<1> QED
  BY <1>1, <1>3, <1>5, <1>6, <1>7, Counted DEF RangeInv

\* A reviewer's request is about an item, and no item changes its execution.
LEMMA ReviewRanges ==
  ASSUME TypeInv, CountInv, RangeInv, NEW q \in Requests, Review(q)
  PROVE  RangeInv' /\ Len(items') = Len(items)
<1>1. /\ UNCHANGED <<known, view>>
      /\ newest' = newest \/ newest' = Entry(Reviewer, 0, Undecided)
  BY ReviewEntries DEF TypeInv, passVars
<1>2. newest'.time <= MaxDeliveries
  BY <1>1, BoundsAssumption DEF Entry, RangeInv
<1>3. /\ DOMAIN items' = DOMAIN items
      /\ \A i \in DOMAIN items : items'[i].time = items[i].time
  <2>1. CASE Commit(q)
    <3>1. /\ DOMAIN items' = DOMAIN items
          /\ \A j \in DOMAIN items :
               j # request[q].item => items'[j] = items[j]
          /\ items'[request[q].item].time = items[request[q].item].time
      BY <2>1, CommitItems DEF TypeInv
    <3> QED
      BY <3>1
  <2>2. CASE ~Commit(q)
    BY <2>2 DEF Review, Verify, Load, Announce
  <2> QED
    BY <2>1, <2>2
<1>4. QueueTypes'
  BY ReviewTyped DEF TypeInv
<1>5. Len(items') = Len(items)
  <2>1. items \in Seq(Items) /\ items' \in Seq(Items)
    BY <1>4 DEF TypeInv, QueueTypes
  <2> QED
    BY <1>3, <2>1
<1>6. \A p \in Requests : request'[p].item <= Len(items')
  <2> SUFFICES ASSUME NEW p \in Requests
               PROVE  request'[p].item <= Len(items)
    BY <1>5
  <2>1. request'[p] = request[p] \/ request'[p].pc # "idle"
    <3>1. request \in [Requests -> RequestStates]
      BY DEF TypeInv, QueueTypes
    <3>2. CASE p # q
      BY <3>1, <3>2 DEF Review, Verify, Load, Commit, Announce
    <3>3. CASE p = q
      <4>1. request[q] \in RequestStates
        BY <3>1
      <4>2. ASSUME NEW op \in Operations, NEW i \in DOMAIN items,
                   Verify(q, op, i)
            PROVE  request'[q].pc = "verified"
        BY <3>1, <4>1, <4>2 DEF Verify, RequestStates
      <4>3. CASE Load(q)
        BY <3>1, <4>1, <4>3 DEF Load, RequestStates
      <4>4. CASE Commit(q)
        <5> DEFINE next == IF request[q].op = "reject" THEN "written"
                           ELSE "answered"
        <5>1. next # "idle"
          OBVIOUS
        <5>2. request' = [request EXCEPT ![q] =
                 [request[q] EXCEPT !.pc = next, !.base = {}, !.loaded = {}]]
          BY <4>4, <4>1, <3>1 DEF Commit, RequestStates
        <5> HIDE DEF next
        <5>3. request'[q].pc = next
          BY <3>1, <4>1, <5>2 DEF RequestStates
        <5> QED
          BY <3>3, <5>1, <5>3
      <4>5. CASE Announce(q)
        BY <3>1, <4>1, <4>5 DEF Announce, RequestStates
      <4> QED
        BY <3>3, <4>2, <4>3, <4>4, <4>5 DEF Review
    <3> QED
      BY <3>2, <3>3
  <2>2. CASE request'[p] = request[p]
    BY <2>2 DEF RangeInv
  <2>3. CASE request'[p].pc # "idle"
    <3>1. request'[p].item \in DOMAIN items' /\ items \in Seq(Items)
      BY <1>4, <2>3 DEF QueueTypes, TypeInv
    <3> QED
      BY <1>3, <3>1
  <2> QED
    BY <2>1, <2>2, <2>3
<1>7. (Smooth \/ Mishap) /\ (Visit \/ UNCHANGED visits)
  BY DEF Review, Verify, Load, Commit, Announce, SaveFails, Smooth
<1>8. \A i \in DOMAIN items' :
        items'[i].time >= 1 /\ items'[i].time <= MaxDeliveries
  BY <1>3 DEF RangeInv
<1> QED
  BY <1>1, <1>2, <1>5, <1>6, <1>7, <1>8, Counted DEF RangeInv

BoundInv == CountInv /\ RangeInv

\* Initially nothing is delivered, recorded or queued.
LEMMA BoundInit == Init => BoundInv
<1> SUFFICES ASSUME Init PROVE BoundInv
  OBVIOUS
<1>0. IsFiniteSet(Runs) /\ {MaxDeliveries, MaxMishaps, MaxVisits} \subseteq Nat
  BY BoundsAssumption
<1>1. /\ \A r \in Runs : time[r] = 0 /\ pass[r] = "queued" /\ audit[r] = 0
      /\ items = <<>>
  BY DEF Init
<1>2. \A r \in Runs : Validated[r] = 0
  BY <1>1 DEF Validated, Early
<1>3. ASSUME NEW w, \A r \in Runs : w[r] = 0
      PROVE  SumOf(w, Runs) = 0
  <2>1. \A r \in Runs : w[r] \in Nat /\ w[r] <= 0
    BY <1>3
  <2>2. SumOf(w, Runs) \in Nat /\ SumOf(w, Runs) <= 0 * Cardinality(Runs)
    BY <1>0, <2>1, SumBounded
  <2>3. Cardinality(Runs) \in Nat
    BY <1>0, FS_CardinalityType
  <2> QED
    BY <2>2, <2>3
<1>4. SumOf(time, Runs) = 0 /\ SumOf(Validated, Runs) = 0
  <2>1. SumOf(time, Runs) = 0
    BY <1>1, <1>3
  <2> DEFINE v == Validated
  <2>2. \A r \in Runs : v[r] = 0
    BY <1>2
  <2> HIDE DEF v
  <2>3. SumOf(v, Runs) = 0
    BY <2>2, <1>3
  <2> QED
    BY <2>1, <2>3 DEF v
<1>5. CountInv
  BY <1>0, <1>1, <1>4 DEF CountInv, Left
<1>6. RangeInv
  <2>1. newest.time = 0 /\ \A q \in Requests : request[q].item = 0
    BY DEF Init, NoEntry, Entry, NoRequest
  <2>2. DOMAIN items = {} /\ Len(items) = 0
    BY <1>1
  <2>3. known = FALSE /\ mishaps = 0 /\ visits = 0
    BY DEF Init
  <2>4. 0 <= MaxDeliveries /\ 0 \in 0..MaxMishaps /\ 0 \in 0..MaxVisits
    BY <1>0
  <2>5. \A q \in Requests : request[q].item <= Len(items)
    BY <2>1, <2>2
  <2>6. \A i \in DOMAIN items :
          items[i].time >= 1 /\ items[i].time <= MaxDeliveries
    BY <2>2
  <2> QED
    BY <2>1, <2>3, <2>4, <2>5, <2>6 DEF RangeInv
<1> QED
  BY <1>5, <1>6 DEF BoundInv

\* Every step keeps the bounds.
LEMMA BoundStep == TypeInv /\ TypeInv' /\ BoundInv /\ [Next]_vars => BoundInv'
<1> SUFFICES ASSUME TypeInv, TypeInv', BoundInv, [Next]_vars PROVE BoundInv'
  OBVIOUS
<1>1. ASSUME NEW r \in Runs, Step(r) PROVE BoundInv'
  <2>1. CountInv'
    BY <1>1, DeliverCounts, MoveCounts DEF BoundInv, TypeInv
  <2> QED
    BY <1>1, <2>1, StepRanges DEF BoundInv
<1>2. ASSUME NEW q \in Requests, Review(q) PROVE BoundInv'
  <2>1. UNCHANGED <<pass, time, audit>>
    BY <1>2, ReviewEntries DEF TypeInv, passVars
  <2>2. RangeInv' /\ Len(items') = Len(items)
    BY <1>2, ReviewRanges DEF BoundInv
  <2> QED
    BY <2>1, <2>2, SameCounts DEF BoundInv
<1>3. CASE Results \/ Click \/ Expire
  <2>1. /\ UNCHANGED <<passVars, items, request>>
        /\ newest' \in {newest, Entry(Reviewer, 0, Undecided), NoEntry}
    BY <1>3, OthersKeep
  <2>2. newest'.time <= MaxDeliveries
    BY <2>1, BoundsAssumption DEF BoundInv, RangeInv, Entry, NoEntry
  <2>3. (Smooth \/ Mishap) /\ (Visit \/ UNCHANGED visits)
    BY <1>3 DEF Results, ReadAudit, ReadEntry, ReadGraph, ReadFails, Respond,
       Click, Expire, people, Smooth
  <2>4. RangeInv'
    BY <2>1, <2>2, <2>3, Counted DEF BoundInv, RangeInv, passVars
  <2> QED
    BY <2>1, <2>4, SameCounts DEF BoundInv, passVars
<1>4. CASE UNCHANGED vars
  <2>1. RangeInv'
    BY <1>4 DEF vars, passVars, people, BoundInv, RangeInv
  <2> QED
    BY <1>4, <2>1, SameCounts DEF vars, passVars, BoundInv
<1> QED
  BY <1>1, <1>2, <1>3, <1>4 DEF Next

\* The bounds and the types are the type invariant.
LEMMA BoundsMatch == TypeInv /\ BoundInv => TypeOK
<1> SUFFICES ASSUME TypeInv, BoundInv PROVE TypeOK
  OBVIOUS
<1>0. IsFiniteSet(Runs) /\ {MaxDeliveries, MaxMishaps, MaxVisits} \subseteq Nat
  BY BoundsAssumption
<1>1. time \in [Runs -> 0..MaxDeliveries]
  <2>1. \A r \in Runs : time[r] \in 0..MaxDeliveries
    BY <1>0, TimesBounded DEF TypeInv, BoundInv
  <2> QED
    BY <2>1 DEF TypeInv, PassTypes
<1>2. audit \in [Runs -> 0..2 * MaxDeliveries]
  <2>1. ASSUME NEW r \in Runs PROVE audit[r] \in 0..2 * MaxDeliveries
    <3>1. time[r] \in Nat /\ time[r] <= MaxDeliveries
      BY TimesBounded DEF TypeInv, BoundInv
    <3>2. /\ audit[r] \in Nat /\ Left(r) \in 0..2
          /\ audit[r] + Left(r) <= 2 * time[r]
      BY DEF TypeInv, PassTypes, BoundInv, CountInv, Left
    <3> QED
      BY <1>0, <3>1, <3>2
  <2> QED
    BY <2>1 DEF TypeInv, PassTypes
<1>3. Len(items) <= MaxDeliveries
  <2> DEFINE v == Validated
  <2>1. \A r \in Runs : /\ v[r] \in Nat /\ time[r] \in Nat
                        /\ v[r] <= time[r]
    BY ValidatedTyped DEF TypeInv, PassTypes, BoundInv
  <2>2. /\ Len(items) <= SumOf(v, Runs) /\ SumOf(time, Runs) <= MaxDeliveries
        /\ Len(items) \in Nat
    BY DEF TypeInv, QueueTypes, BoundInv, CountInv
  <2> HIDE DEF v
  <2>3. /\ SumOf(v, Runs) \in Nat /\ SumOf(time, Runs) \in Nat
        /\ SumOf(v, Runs) <= SumOf(time, Runs)
    BY <1>0, <2>1, SumMonotone
  <2> QED
    BY <1>0, <2>2, <2>3
<1>4. newest \in [by : Runs \union {Nobody, Reviewer},
                  time : 0..MaxDeliveries, verdict : Shows]
  <2>1. newest.time \in 0..MaxDeliveries
    BY <1>0 DEF TypeInv, PassTypes, BoundInv, RangeInv
  <2> QED
    BY <2>1 DEF TypeInv, PassTypes
<1>5. \A i \in DOMAIN items :
        items[i] \in [run : Runs, time : 1..MaxDeliveries,
                      status : {"pending", "approved", "rejected"},
                      reason : BOOLEAN, payload : SUBSET Requests,
                      last : Requests \union {Nobody}]
  <2>1. ASSUME NEW i \in DOMAIN items
        PROVE  items[i] \in [run : Runs, time : 1..MaxDeliveries,
                             status : {"pending", "approved", "rejected"},
                             reason : BOOLEAN, payload : SUBSET Requests,
                             last : Requests \union {Nobody}]
    <3>1. items[i] \in Items
      BY DEF TypeInv, QueueTypes
    <3>2. items[i].time \in 1..MaxDeliveries
      BY <1>0, <3>1 DEF BoundInv, RangeInv, Items
    <3> QED
      BY <3>1, <3>2 DEF Items, Statuses
  <2> QED
    BY <2>1
<1>6. \A q \in Requests :
        request[q] \in [pc : {"idle", "verified", "loaded", "written",
                              "answered"},
                        op : Operations, item : 0..Len(items),
                        base : SUBSET Requests, earlier : SUBSET Requests,
                        found : {"pending", "approved", "rejected"},
                        loaded : SUBSET Requests]
  <2>1. ASSUME NEW q \in Requests
        PROVE  request[q] \in
                 [pc : {"idle", "verified", "loaded", "written", "answered"},
                  op : Operations, item : 0..Len(items),
                  base : SUBSET Requests, earlier : SUBSET Requests,
                  found : {"pending", "approved", "rejected"},
                  loaded : SUBSET Requests]
    <3>1. request[q] \in RequestStates /\ Len(items) \in Nat
      BY DEF TypeInv, QueueTypes
    <3>2. request[q].item \in 0..Len(items)
      BY <3>1 DEF BoundInv, RangeInv, RequestStates
    <3> QED
      BY <3>1, <3>2 DEF RequestStates, Statuses
  <2> QED
    BY <2>1
<1>7. view.pc \in {"idle", "entries", "graph", "answered"}
  BY DEF TypeInv, ViewTypes
<1> QED
  BY <1>1, <1>2, <1>3, <1>4, <1>5, <1>6, <1>7
     DEF TypeOK, TypeInv, PassTypes, BoundInv, RangeInv

\* Whatever is delivered, repeated, reviewed or clicked: at most two audit
\* entries and one item of the queue for every execution, and requests that
\* only ever name items there are.
THEOREM QueueBounds == Spec => []TypeOK
<1>1. Init => TypeInv /\ BoundInv
  BY TypeInit, BoundInit
<1>2. TypeInv /\ BoundInv /\ [Next]_vars => (TypeInv /\ BoundInv)'
  BY TypeStep, BoundStep
<1>3. TypeInv /\ BoundInv => TypeOK
  BY BoundsMatch
<1> QED
  BY <1>1, <1>2, <1>3, PTL DEF Spec

-----------------------------------------------------------------------------
(* The queue and the passes that stopped for a review.                     *)

Mine(r) == {i \in DOMAIN items : items[i].run = r /\ items[i].time = time[r]}

\* QueueMatchesPauses made inductive: no item is of a later execution than the
\* present one, none of the present one before its validation, and one that
\* stopped has exactly one.
QueueInv ==
  /\ \A i \in DOMAIN items : items[i].time <= time[items[i].run]
  /\ \A r \in Runs :
       /\ pass[r] \in {"queued", "signals", "record", "validate"} => Mine(r) = {}
       /\ pass[r] \in {"fallback", "paused"} => \E i : Mine(r) = {i}
       /\ pass[r] \in {"summary", "ended"} /\ Mine(r) # {} => stumbled[r]

\* The invariant says what the property says.
LEMMA QueueInvMatches == TypeInv /\ QueueInv => QueueMatchesPauses
<1> SUFFICES ASSUME TypeInv, QueueInv, NEW r \in Runs
             PROVE  /\ pass[r] \in {"fallback", "paused"} => Cardinality(Mine(r)) = 1
                    /\ pass[r] \notin {"fallback", "paused"} /\ Mine(r) # {}
                         => stumbled[r]
  BY DEF QueueMatchesPauses, Mine
<1>1. pass[r] \in {"fallback", "paused"} => Cardinality(Mine(r)) = 1
  BY FS_Singleton DEF QueueInv
<1>2. pass[r] \in Places
  BY DEF TypeInv, PassTypes
<1> QED
  BY <1>1, <1>2 DEF QueueInv, Places

\* A step that leaves the items, up to what people write into them.
LEMMA SameItems ==
  ASSUME QueueInv, UNCHANGED <<pass, time, stumbled>>,
         DOMAIN items' = DOMAIN items,
         \A i \in DOMAIN items : /\ items'[i].run = items[i].run
                                 /\ items'[i].time = items[i].time
  PROVE  QueueInv'
<1>1. \A r \in Runs : Mine(r)' = Mine(r)
  BY DEF Mine
<1>2. \A i \in DOMAIN items' : items'[i].time <= time'[items'[i].run]
  BY DEF QueueInv
<1> QED
  BY <1>1, <1>2 DEF QueueInv

\* A new delivery has no items yet.
LEMMA DeliverQueue ==
  ASSUME TypeInv, QueueInv, NEW r \in Runs, Deliver(r)
  PROVE  QueueInv'
<1>1. /\ time' = [time EXCEPT ![r] = @ + 1]
      /\ pass' = [pass EXCEPT ![r] = "signals"]
      /\ stumbled' = [stumbled EXCEPT ![r] = FALSE] /\ items' = items
  BY DEF Deliver, Goes
<1>2. \A i \in DOMAIN items : items[i] \in Items
  BY DEF TypeInv, QueueTypes
<1>3. /\ \A p \in Runs : time[p] \in Nat
      /\ \A p \in Runs : time'[p] = IF p = r THEN time[p] + 1 ELSE time[p]
  BY <1>1 DEF TypeInv, PassTypes
<1>4. \A i \in DOMAIN items' : items'[i].time <= time'[items'[i].run]
  BY <1>1, <1>2, <1>3 DEF QueueInv, Items
<1>5. Mine(r)' = {}
  <2>1. \A i \in DOMAIN items : items[i].run = r => items[i].time <= time[r]
    BY DEF QueueInv
  <2>2. \A i \in DOMAIN items : items[i].run = r => items[i].time # time'[r]
    BY <1>2, <1>3, <2>1 DEF Items
  <2> QED
    BY <1>1, <2>2 DEF Mine
<1>6. \A p \in Runs : p # r => Mine(p)' = Mine(p)
  BY <1>1, <1>3 DEF Mine
<1>7. pass'[r] = "signals" /\ \A p \in Runs : p # r => pass'[p] = pass[p]
                                               /\ stumbled'[p] = stumbled[p]
  BY <1>1 DEF TypeInv, PassTypes
<1>8. ASSUME NEW p \in Runs
      PROVE  /\ pass'[p] \in {"queued", "signals", "record", "validate"}
                  => Mine(p)' = {}
             /\ pass'[p] \in {"fallback", "paused"} => \E i : Mine(p)' = {i}
             /\ pass'[p] \in {"summary", "ended"} /\ Mine(p)' # {}
                  => stumbled'[p]
  BY <1>5, <1>6, <1>7 DEF QueueInv
<1> QED
  BY <1>4, <1>8 DEF QueueInv

\* A step of a pass that leaves the queue alone.
LEMMA StaysQueue ==
  ASSUME TypeInv, QueueInv, NEW r \in Runs, NEW to,
         items' = items, time' = time,
         pass' = pass \/ pass' = [pass EXCEPT ![r] = to],
         \/ /\ pass[r] \in {"queued", "signals", "record", "validate"}
            /\ to \in {"record", "validate", "summary"}
         \/ pass[r] = "summary" /\ to = "ended"
         \/ pass[r] = "fallback" /\ to = "paused",
         stumbled' = stumbled \/ stumbled' = [stumbled EXCEPT ![r] = TRUE]
  PROVE  QueueInv'
<1>1. \A p \in Runs : Mine(p)' = Mine(p)
  BY DEF Mine
<1>2. \A p \in Runs : stumbled[p] => stumbled'[p]
  BY DEF TypeInv, PassTypes
<1>3. \A p \in Runs : pass'[p] = pass[p] \/ (p = r /\ pass'[p] = to)
  BY DEF TypeInv, PassTypes
<1>4. ASSUME NEW p \in Runs
      PROVE  /\ pass'[p] \in {"queued", "signals", "record", "validate"}
                  => Mine(p)' = {}
             /\ pass'[p] \in {"fallback", "paused"} => \E i : Mine(p)' = {i}
             /\ pass'[p] \in {"summary", "ended"} /\ Mine(p)' # {}
                  => stumbled'[p]
  BY <1>1, <1>2, <1>3 DEF QueueInv
<1> QED
  BY <1>4 DEF QueueInv

\* A validation that inserts an item stops the pass, or has failed.
LEMMA AsksHumanQueue ==
  ASSUME TypeInv, QueueInv, NEW r \in Runs, pass[r] = "validate",
         AsksHuman(r), time' = time
  PROVE  QueueInv'
<1> DEFINE n == Len(items) + 1
<1>1. items' = Append(items, NewItem(r)) /\ items \in Seq(Items)
  BY DEF AsksHuman, Enqueue, TypeInv, QueueTypes
<1>2. /\ DOMAIN items' = DOMAIN items \union {n} /\ n \notin DOMAIN items
      /\ \A i \in DOMAIN items : items'[i] = items[i]
      /\ items'[n] = NewItem(r)
  BY <1>1
<1>3. NewItem(r).run = r /\ NewItem(r).time = time[r] /\ time[r] \in Nat
  BY DEF NewItem, TypeInv, PassTypes
<1> HIDE DEF n
<1>4. \A i \in DOMAIN items' : items'[i].time <= time'[items'[i].run]
  BY <1>2, <1>3 DEF QueueInv
<1>5. Mine(r) = {}
  BY DEF QueueInv
<1>6. Mine(r)' = {n}
  BY <1>2, <1>3, <1>5 DEF Mine
<1>7. \A p \in Runs : p # r => Mine(p)' = Mine(p)
  BY <1>2, <1>3 DEF Mine
<1>8. \A p \in Runs : p # r => pass'[p] = pass[p] /\ stumbled'[p] = stumbled[p]
  BY DEF AsksHuman, Goes, Stumbles, TypeInv, PassTypes
<1>9. pass'[r] = "fallback" \/ (pass'[r] = "summary" /\ stumbled'[r])
  BY DEF AsksHuman, Goes, Stumbles, TypeInv, PassTypes
<1>10. ASSUME NEW p \in Runs
      PROVE  /\ pass'[p] \in {"queued", "signals", "record", "validate"}
                  => Mine(p)' = {}
             /\ pass'[p] \in {"fallback", "paused"} => \E i : Mine(p)' = {i}
             /\ pass'[p] \in {"summary", "ended"} /\ Mine(p)' # {}
                  => stumbled'[p]
  BY <1>6, <1>7, <1>8, <1>9 DEF QueueInv
<1> QED
  BY <1>4, <1>10 DEF QueueInv

\* Every step keeps queue and passes in agreement.
LEMMA QueueStep == TypeInv /\ QueueInv /\ [Next]_vars => QueueInv'
<1> SUFFICES ASSUME TypeInv, QueueInv, [Next]_vars PROVE QueueInv'
  OBVIOUS
<1>1. ASSUME NEW r \in Runs, Step(r) PROVE QueueInv'
  <2>1. CASE Deliver(r)
    BY <2>1, DeliverQueue
  <2>2. CASE Signals(r)
    <3>1. pass' = pass \/ pass' = [pass EXCEPT ![r] = "record"]
      BY <2>2 DEF Signals, SavesAgain, Goes
    <3>2. stumbled' = stumbled \/ stumbled' = [stumbled EXCEPT ![r] = TRUE]
      BY <2>2 DEF Signals, Stumbles
    <3> QED
      BY <2>2, <3>1, <3>2, StaysQueue DEF Signals
  <2>3. CASE Record(r)
    <3>1. pass' = [pass EXCEPT ![r] = "validate"]
      BY <2>3 DEF Record, Recorded, Goes
    <3> QED
      BY <2>3, <3>1, StaysQueue DEF Record
  <2>4. CASE Validate(r)
    <3>1. CASE AsksHuman(r)
      BY <2>4, <3>1, AsksHumanQueue DEF Validate
    <3>2. CASE ~AsksHuman(r)
      <4>1. pass' = [pass EXCEPT ![r] = "summary"]
        BY <2>4, <3>2 DEF Validate, Goes
      <4>2. stumbled' = stumbled \/ stumbled' = [stumbled EXCEPT ![r] = TRUE]
        BY <2>4, <3>2 DEF Validate, Stumbles
      <4> QED
        BY <2>4, <3>2, <4>1, <4>2, StaysQueue DEF Validate
    <3> QED
      BY <3>1, <3>2
  <2>5. CASE Summarise(r)
    <3>1. pass' = pass \/ pass' = [pass EXCEPT ![r] = "ended"]
      BY <2>5 DEF Summarise, SavesAgain, Settled, Goes
    <3>2. stumbled' = stumbled \/ stumbled' = [stumbled EXCEPT ![r] = TRUE]
      BY <2>5 DEF Summarise, Stumbles
    <3> QED
      BY <2>5, <3>1, <3>2, StaysQueue DEF Summarise
  <2>6. CASE Fallback(r)
    <3>1. pass' = [pass EXCEPT ![r] = "paused"]
      BY <2>6 DEF Fallback, Recorded, Goes
    <3> QED
      BY <2>6, <3>1, StaysQueue DEF Fallback
  <2> QED
    BY <1>1, <2>1, <2>2, <2>3, <2>4, <2>5, <2>6 DEF Step
<1>2. ASSUME NEW q \in Requests, Review(q) PROVE QueueInv'
  <2>1. UNCHANGED <<pass, time, stumbled>>
    BY <1>2, ReviewEntries DEF TypeInv, passVars
  <2>2. CASE Commit(q)
    <3>1. /\ DOMAIN items' = DOMAIN items
          /\ \A i \in DOMAIN items : /\ items'[i].run = items[i].run
                                     /\ items'[i].time = items[i].time
      BY <2>2, CommitItems DEF TypeInv
    <3> QED
      BY <2>1, <3>1, SameItems
  <2>3. CASE ~Commit(q)
    <3>1. items' = items
      BY <1>2, <2>3 DEF Review, Verify, Load, Announce
    <3> QED
      BY <2>1, <3>1, SameItems
  <2> QED
    BY <2>2, <2>3
<1>3. CASE Results \/ Click \/ Expire \/ UNCHANGED vars
  <2>1. UNCHANGED <<pass, time, stumbled, items>>
    BY <1>3, OthersKeep DEF vars, passVars
  <2> QED
    BY <2>1, SameItems
<1> QED
  BY <1>1, <1>2, <1>3 DEF Next

\* The queue holds exactly the items of the passes that stopped for a review,
\* besides those of validations that raised after their INSERT.
THEOREM QueueMatches == Spec => []QueueMatchesPauses
<1>1. Init => QueueInv
  BY DEF Init, QueueInv, Mine
<1> QED
  BY <1>1, Typed, QueueStep, QueueInvMatches, PTL DEF Spec

-----------------------------------------------------------------------------
(* Decisions and edits.                                                    *)

Over == {"written", "answered"}

\* OnlyRepeatsAreIgnored made inductive: the last request on an item is over,
\* so that what it asked and found no longer changes.
DecisionInv ==
  \A i \in DOMAIN items : items[i].last # Nobody =>
    LET q == items[i].last IN
    /\ request[q].pc \in Over
    /\ \/ items[i].status = Decision(request[q].op)
       \/ request[q].found = Decision(request[q].op)

\* EditsAreLostToRacesOnly made inductive: a payload holds answered edits only,
\* and an edit under way has in its copy all it knew of but those that were
\* already overwritten by an edit that did not know them.
Raced(q, i) == \E other \in Edits(i) : other # q /\ q \notin request[other].earlier

Editing(p, i) ==
  request[p].pc \in {"verified", "loaded"} /\ request[p].op = "edit"
    /\ request[p].item = i

EditInv ==
  \A i \in DOMAIN items :
    /\ items[i].payload \subseteq Edits(i)
    /\ \A q \in Edits(i) : q \in items[i].payload \/ Raced(q, i)
    /\ \A p \in Requests : Editing(p, i) =>
         /\ request[p].base \subseteq Edits(i)
         /\ \A q \in request[p].earlier : q \in request[p].base \/ Raced(q, i)
         /\ request[p].pc = "loaded" => p \notin request[p].loaded

\* Another request's step leaves a request as it is.
LEMMA OwnRequest ==
  ASSUME QueueTypes, NEW q \in Requests, Review(q)
  PROVE  \A p \in Requests : p # q => request'[p] = request[p]
<1>1. CASE \E op \in Operations, i \in DOMAIN items : Verify(q, op, i)
  BY <1>1 DEF Verify, QueueTypes
<1>2. CASE Load(q)
  BY <1>2 DEF Load, QueueTypes
<1>3. CASE Commit(q)
  BY <1>3 DEF Commit, QueueTypes
<1>4. CASE Announce(q)
  BY <1>4 DEF Announce, QueueTypes
<1> QED
  BY <1>1, <1>2, <1>3, <1>4 DEF Review

\* What a commit and an announcement leave of a request.
LEMMA Finishing ==
  ASSUME QueueTypes, NEW q \in Requests, Commit(q) \/ Announce(q)
  PROVE  /\ request'[q].pc \in Over /\ request'[q].op = request[q].op
         /\ request'[q].found = request[q].found
         /\ request'[q].item = request[q].item
         /\ request'[q].earlier = request[q].earlier
<1>1. request[q] \in RequestStates
  BY DEF QueueTypes
<1>2. CASE Commit(q)
  <2> DEFINE next == IF request[q].op = "reject" THEN "written"
                     ELSE "answered"
             x == [request[q] EXCEPT !.pc = next, !.base = {}, !.loaded = {}]
  <2>1. next \in Over
    BY DEF Over
  <2>2. request' = [request EXCEPT ![q] = x]
    BY <1>1, <1>2 DEF Commit, RequestStates
  <2> HIDE DEF next
  <2>3. /\ x.pc = next /\ x.op = request[q].op /\ x.found = request[q].found
        /\ x.item = request[q].item /\ x.earlier = request[q].earlier
    BY <1>1 DEF RequestStates
  <2> HIDE DEF x
  <2> QED
    BY <2>1, <2>2, <2>3 DEF QueueTypes
<1>3. CASE Announce(q)
  <2> DEFINE x == [request[q] EXCEPT !.pc = "answered"]
  <2>1. request' = [request EXCEPT ![q] = x]
    BY <1>3 DEF Announce
  <2>2. /\ x.pc \in Over /\ x.op = request[q].op
        /\ x.found = request[q].found /\ x.item = request[q].item
        /\ x.earlier = request[q].earlier
    BY <1>1 DEF RequestStates, Over
  <2> HIDE DEF x
  <2> QED
    BY <2>1, <2>2 DEF QueueTypes
<1> QED
  BY <1>2, <1>3

\* A new item has been decided by nobody.
LEMMA StepDecision ==
  ASSUME TypeInv, DecisionInv, NEW r \in Runs, Step(r)
  PROVE  DecisionInv'
<1>1. /\ request' = request
      /\ items' = items \/ items' = Append(items, NewItem(r))
  BY StepQueue
<1>2. NewItem(r).last = Nobody /\ items \in Seq(Items)
  BY DEF NewItem, TypeInv, QueueTypes
<1>3. \A i \in DOMAIN items' :
        \/ i \in DOMAIN items /\ items'[i] = items[i]
        \/ items'[i].last = Nobody
  BY <1>1, <1>2
<1> QED
  BY <1>1, <1>3 DEF DecisionInv

\* A request ignores nothing but a repetition of what it found.
LEMMA ReviewDecision ==
  ASSUME TypeInv, DecisionInv, NEW q \in Requests, Review(q)
  PROVE  DecisionInv'
<1>0. QueueTypes /\ \A i \in DOMAIN items : items[i] \in Items
  BY DEF TypeInv, QueueTypes
<1>1. \A p \in Requests : p # q => request'[p] = request[p]
  BY <1>0, OwnRequest
<1>2. CASE Commit(q)
  <2> DEFINE i == request[q].item
  <2>1. /\ i \in DOMAIN items /\ DOMAIN items' = DOMAIN items
        /\ \A j \in DOMAIN items : j # i => items'[j] = items[j]
        /\ items'[i].status = NewStatus(q, items[i].status)
        /\ items'[i].last = q
    BY <1>0, <1>2, CommitItems
  <2>2. /\ request'[q].pc \in Over /\ request'[q].op = request[q].op
        /\ request'[q].found = request[q].found
    BY <1>0, <1>2, Finishing
  <2>3. request[q].pc \notin Over
    BY <1>2 DEF Commit, Over
  <2>4. \/ items'[i].status = Decision(request'[q].op)
        \/ request'[q].found = Decision(request'[q].op)
    BY <2>1, <2>2 DEF NewStatus
  <2> HIDE DEF i
  <2>5. ASSUME NEW j \in DOMAIN items, j # i, items[j].last # Nobody
        PROVE  items[j].last \in Requests /\ items[j].last # q
    BY <1>0, <2>3, <2>5 DEF DecisionInv, Items
  <2> QED
    BY <1>1, <2>1, <2>2, <2>4, <2>5 DEF DecisionInv
<1>3. CASE ~Commit(q)
  <2>1. items' = items
    BY <1>3 DEF Review, Verify, Load, Announce
  <2>2. CASE Announce(q)
    <3>1. /\ request'[q].pc \in Over /\ request'[q].op = request[q].op
          /\ request'[q].found = request[q].found
      BY <1>0, <2>2, Finishing
    <3>2. \A i \in DOMAIN items : items[i].last # Nobody =>
            items[i].last \in Requests
      BY <1>0 DEF Items
    <3> QED
      BY <1>1, <2>1, <3>1, <3>2 DEF DecisionInv
  <2>3. CASE ~Announce(q)
    <3>1. request[q].pc \notin Over
      BY <1>3, <2>3 DEF Review, Verify, Load, Over
    <3>2. \A i \in DOMAIN items : items[i].last # Nobody =>
            items[i].last \in Requests /\ items[i].last # q
      BY <1>0, <3>1 DEF Items, DecisionInv
    <3> QED
      BY <1>1, <2>1, <3>2 DEF DecisionInv
  <2> QED
    BY <2>2, <2>3
<1> QED
  BY <1>2, <1>3

\* For any number of racing reviewers: a decision has no effect only if the
\* request found its own decision already made.
THEOREM RepeatsOnly == Spec => []OnlyRepeatsAreIgnored
<1>1. Init => DecisionInv
  BY DEF Init, DecisionInv
<1>2. TypeInv /\ DecisionInv /\ [Next]_vars => DecisionInv'
  <2> SUFFICES ASSUME TypeInv, DecisionInv, [Next]_vars PROVE DecisionInv'
    OBVIOUS
  <2>1. CASE Results \/ Click \/ Expire \/ UNCHANGED vars
    <3>1. UNCHANGED <<items, request>>
      BY <2>1, OthersKeep DEF vars, people
    <3> QED
      BY <3>1 DEF DecisionInv
  <2> QED
    BY <2>1, StepDecision, ReviewDecision DEF Next
<1>3. DecisionInv => OnlyRepeatsAreIgnored
  BY DEF DecisionInv, OnlyRepeatsAreIgnored
<1> QED
  BY <1>1, <1>2, <1>3, Typed, PTL DEF Spec

\* An edit that is over stays over, and what it knew of does not change.
LEMMA EditsGrow ==
  ASSUME QueueTypes, NEW q \in Requests, Review(q), NEW i \in DOMAIN items
  PROVE  \A p \in Edits(i) :
           p \in Edits(i)' /\ request'[p].earlier = request[p].earlier
<1> SUFFICES ASSUME NEW p \in Edits(i)
             PROVE  p \in Edits(i)' /\ request'[p].earlier = request[p].earlier
  OBVIOUS
<1>1. p \in Requests /\ request[p].pc \in Over /\ request[p].op = "edit"
      /\ request[p].item = i
  BY DEF Edits, Over
<1>2. CASE p # q
  <2>1. request'[p] = request[p]
    BY <1>1, <1>2, OwnRequest
  <2> QED
    BY <1>1, <2>1 DEF Edits, Over
<1>3. CASE p = q
  <2>1. Announce(q)
    BY <1>1, <1>3 DEF Review, Verify, Load, Commit, Over
  <2> QED
    BY <1>1, <1>3, <2>1, Finishing DEF Edits, Over
<1> QED
  BY <1>2, <1>3

\* So what was overwritten in a race stays so.
LEMMA RacedStays ==
  ASSUME QueueTypes, NEW q \in Requests, Review(q), NEW i \in DOMAIN items,
         NEW p, Raced(p, i)
  PROVE  Raced(p, i)'
  BY EditsGrow DEF Raced

\* Another request under way keeps its part of the invariant.
LEMMA OthersEdit ==
  ASSUME QueueTypes, EditInv, NEW q \in Requests, Review(q),
         NEW p \in Requests, p # q, NEW i \in DOMAIN items, Editing(p, i)'
  PROVE  /\ request'[p].base \subseteq Edits(i)'
         /\ \A r \in request'[p].earlier : r \in request'[p].base \/ Raced(r, i)'
         /\ request'[p].pc = "loaded" => p \notin request'[p].loaded
<1>1. request'[p] = request[p]
  BY OwnRequest
<1>2. Editing(p, i)
  BY <1>1 DEF Editing
<1>3. /\ request[p].base \subseteq Edits(i)
      /\ \A r \in request[p].earlier : r \in request[p].base \/ Raced(r, i)
      /\ request[p].pc = "loaded" => p \notin request[p].loaded
  BY <1>2 DEF EditInv
<1>4. \A e \in Edits(i) : e \in Edits(i)'
  BY EditsGrow
<1>5. \A r \in request[p].earlier : r \in request[p].base \/ Raced(r, i)'
  BY <1>3, RacedStays
<1> QED
  BY <1>1, <1>3, <1>4, <1>5

\* A request that is no edit, or not over yet, adds no edit to any item.
LEMMA SameEdits ==
  ASSUME QueueTypes, NEW q \in Requests, Review(q),
         request'[q].op # "edit" \/ request'[q].pc \notin Over \/ Announce(q),
         NEW i \in DOMAIN items
  PROVE  Edits(i)' = Edits(i)
<1>1. \A p \in Requests : p # q => request'[p] = request[p]
  BY OwnRequest
<1>2. \A p \in Requests : p # q => (p \in Edits(i)' <=> p \in Edits(i))
  BY <1>1 DEF Edits
<1>3. q \in Edits(i)' => q \in Edits(i)
  <2>1. CASE Announce(q)
    <3>1. request[q].pc \in Over
      BY <2>1 DEF Announce, Over
    <3> QED
      BY <2>1, <3>1, Finishing DEF Edits, Over
  <2>2. CASE ~Announce(q)
    BY <2>2 DEF Edits, Over
  <2> QED
    BY <2>1, <2>2
<1>4. q \in Edits(i) => q \in Edits(i)'
  BY EditsGrow
<1>5. \A p : p \in Edits(i) \/ p \in Edits(i)' => p \in Requests
  BY DEF Edits
<1> QED
  BY <1>2, <1>3, <1>4, <1>5

\* The items' part of the invariant, when the items stay.
LEMMA SameItemsEdit ==
  ASSUME QueueTypes, EditInv, NEW q \in Requests, Review(q), items' = items,
         NEW i \in DOMAIN items, Edits(i)' = Edits(i)
  PROVE  /\ items'[i].payload \subseteq Edits(i)'
         /\ \A r \in Edits(i)' : r \in items'[i].payload \/ Raced(r, i)'
  BY RacedStays DEF EditInv

\* A request that reads the item: what it copies is what it must not lose.
LEMMA VerifyEdit ==
  ASSUME TypeInv, EditInv, NEW q \in Requests, NEW op \in Operations,
         NEW j \in DOMAIN items, Verify(q, op, j)
  PROVE  EditInv'
<1>0. QueueTypes /\ Review(q) /\ request[q] \in RequestStates
  BY DEF TypeInv, QueueTypes, Review
<1>1. items' = items
  BY DEF Verify
<1>2. /\ request'[q].pc = "verified" /\ request'[q].op = op
      /\ request'[q].item = j
      /\ op = "edit" => /\ request'[q].base = items[j].payload
                        /\ request'[q].earlier = Edits(j)
  <2>1. CASE op = "edit"
    <3> DEFINE edits == Edits(j)
               x == [request[q] EXCEPT !.pc = "verified", !.op = op,
                       !.item = j, !.base = items[j].payload,
                       !.earlier = edits]
    <3>1. request' = [request EXCEPT ![q] = x]
      BY <2>1 DEF Verify
    <3> HIDE DEF edits
    <3>2. /\ x.pc = "verified" /\ x.op = op /\ x.item = j
          /\ x.base = items[j].payload /\ x.earlier = edits
      BY <1>0 DEF RequestStates
    <3> HIDE DEF x
    <3> QED
      BY <1>0, <3>1, <3>2 DEF QueueTypes, edits
  <2>2. CASE op # "edit"
    <3> DEFINE x == [request[q] EXCEPT !.pc = "verified", !.op = op, !.item = j]
    <3>1. request' = [request EXCEPT ![q] = x]
      BY <2>2 DEF Verify
    <3>2. x.pc = "verified" /\ x.op = op /\ x.item = j
      BY <1>0 DEF RequestStates
    <3> HIDE DEF x
    <3> QED
      BY <1>0, <2>2, <3>1, <3>2 DEF QueueTypes
  <2> QED
    BY <2>1, <2>2
<1>3. \A i \in DOMAIN items : Edits(i)' = Edits(i)
  <2>1. "verified" \notin Over
    BY DEF Over
  <2> QED
    BY <1>0, <1>2, <2>1, SameEdits
<1>4. ASSUME NEW i \in DOMAIN items, NEW p \in Requests, Editing(p, i)'
      PROVE  /\ request'[p].base \subseteq Edits(i)'
             /\ \A r \in request'[p].earlier :
                  r \in request'[p].base \/ Raced(r, i)'
             /\ request'[p].pc = "loaded" => p \notin request'[p].loaded
  <2>1. CASE p # q
    BY <1>0, <1>4, <2>1, OthersEdit
  <2>2. CASE p = q
    <3>1. op = "edit" /\ i = j
      BY <1>2, <1>4, <2>2 DEF Editing
    <3>2. /\ items[i].payload \subseteq Edits(i)
          /\ \A r \in Edits(i) : r \in items[i].payload \/ Raced(r, i)'
      BY <1>0, RacedStays DEF EditInv
    <3> QED
      BY <1>2, <1>3, <2>2, <3>1, <3>2
  <2> QED
    BY <2>1, <2>2
<1>5. \A i \in DOMAIN items :
        /\ items'[i].payload \subseteq Edits(i)'
        /\ \A r \in Edits(i)' : r \in items'[i].payload \/ Raced(r, i)'
  BY <1>0, <1>1, <1>3, SameItemsEdit
<1> QED
  BY <1>1, <1>4, <1>5 DEF EditInv

\* The second load cannot show the request its own edit.
LEMMA LoadEdits ==
  ASSUME TypeInv, EditInv, NEW q \in Requests, Load(q)
  PROVE  EditInv'
<1> DEFINE j == request[q].item
           x == [request[q] EXCEPT !.pc = "loaded",
                   !.found = items[j].status, !.loaded = items[j].payload]
<1>0. /\ QueueTypes /\ Review(q) /\ request[q] \in RequestStates
      /\ request[q].pc = "verified" /\ j \in DOMAIN items
  BY DEF TypeInv, QueueTypes, Review, Load
<1>1. items' = items
  BY DEF Load
<1>2. /\ x.pc = "loaded" /\ x.op = request[q].op /\ x.item = j
      /\ x.base = request[q].base /\ x.earlier = request[q].earlier
      /\ x.loaded = items[j].payload
  BY <1>0 DEF RequestStates
<1>3. request' = [request EXCEPT ![q] = x]
  BY DEF Load
<1> HIDE DEF x
<1>4. request'[q] = x
  BY <1>0, <1>3 DEF QueueTypes
<1>5. \A i \in DOMAIN items : Edits(i)' = Edits(i)
  <2>1. "loaded" \notin Over
    BY DEF Over
  <2> QED
    BY <1>0, <1>2, <1>4, <2>1, SameEdits
<1>6. ASSUME NEW i \in DOMAIN items, NEW p \in Requests, Editing(p, i)'
      PROVE  /\ request'[p].base \subseteq Edits(i)'
             /\ \A r \in request'[p].earlier :
                  r \in request'[p].base \/ Raced(r, i)'
             /\ request'[p].pc = "loaded" => p \notin request'[p].loaded
  <2>1. CASE p # q
    BY <1>0, <1>6, <2>1, OthersEdit
  <2>2. CASE p = q
    <3>1. i = j /\ Editing(q, i)
      BY <1>0, <1>2, <1>4, <1>6, <2>2 DEF Editing
    <3>2. /\ request[q].base \subseteq Edits(i)
          /\ \A r \in request[q].earlier : r \in request[q].base \/ Raced(r, i)
          /\ items[i].payload \subseteq Edits(i)
      BY <3>1 DEF EditInv
    <3>3. q \notin Edits(i)
      BY <1>0 DEF Edits
    <3>4. \A r \in request[q].earlier : r \in request[q].base \/ Raced(r, i)'
      BY <1>0, <3>2, RacedStays
    <3> QED
      BY <1>2, <1>4, <1>5, <2>2, <3>1, <3>2, <3>3, <3>4
  <2> QED
    BY <2>1, <2>2
<1>7. \A i \in DOMAIN items :
        /\ items'[i].payload \subseteq Edits(i)'
        /\ \A r \in Edits(i)' : r \in items'[i].payload \/ Raced(r, i)'
  BY <1>0, <1>1, <1>5, SameItemsEdit
<1> QED
  BY <1>1, <1>6, <1>7 DEF EditInv

\* An edit is among the edits of its item alone.
LEMMA CommitAdds ==
  ASSUME QueueTypes, NEW q \in Requests, Commit(q), request[q].op = "edit",
         NEW i \in DOMAIN items
  PROVE  /\ i = request[q].item => Edits(i)' = Edits(i) \union {q}
         /\ i # request[q].item => Edits(i)' = Edits(i)
<1>1. /\ request'[q].pc \in Over /\ request'[q].op = "edit"
      /\ request'[q].item = request[q].item
  BY Finishing
<1>2. \A p \in Requests : p # q => request'[p] = request[p]
  BY OwnRequest DEF Review
<1>3. \A p \in Requests : p # q => (p \in Edits(i)' <=> p \in Edits(i))
  BY <1>2 DEF Edits
<1>4. q \in Edits(i)' <=> i = request[q].item
  BY <1>1 DEF Edits, Over
<1>5. q \notin Edits(i)
  BY DEF Edits, Commit
<1>6. \A p : p \in Edits(i) \/ p \in Edits(i)' => p \in Requests
  BY DEF Edits
<1> QED
  BY <1>3, <1>4, <1>5, <1>6

\* A commit writes its copy and its own keys: it loses only edits it did not
\* know, and those that its copy had already lost.
LEMMA CommitEdits ==
  ASSUME TypeInv, EditInv, NEW q \in Requests, Commit(q)
  PROVE  EditInv'
<1> DEFINE j == request[q].item
<1>0. /\ QueueTypes /\ Review(q) /\ request[q].pc = "loaded"
  BY DEF TypeInv, QueueTypes, Review, Commit
<1>1. /\ j \in DOMAIN items /\ DOMAIN items' = DOMAIN items
      /\ \A i \in DOMAIN items : i # j => items'[i] = items[i]
      /\ items'[j].payload = NewPayload(q, items[j].payload)
  BY <1>0, CommitItems
<1>2. /\ request'[q].pc \in Over /\ request'[q].op = request[q].op
      /\ request'[q].earlier = request[q].earlier
  BY <1>0, Finishing
<1>3. ASSUME NEW i \in DOMAIN items, NEW p \in Requests, Editing(p, i)'
      PROVE  /\ request'[p].base \subseteq Edits(i)'
             /\ \A r \in request'[p].earlier :
                  r \in request'[p].base \/ Raced(r, i)'
             /\ request'[p].pc = "loaded" => p \notin request'[p].loaded
  <2>1. p # q
    BY <1>2, <1>3 DEF Editing, Over
  <2> QED
    BY <1>0, <1>3, <2>1, OthersEdit
<1>4. ASSUME NEW i \in DOMAIN items, Edits(i)' = Edits(i),
             items'[i].payload = items[i].payload
      PROVE  /\ items'[i].payload \subseteq Edits(i)'
             /\ \A r \in Edits(i)' : r \in items'[i].payload \/ Raced(r, i)'
  BY <1>0, <1>4, RacedStays DEF EditInv
<1>5. ASSUME NEW i \in DOMAIN items
      PROVE  /\ items'[i].payload \subseteq Edits(i)'
             /\ \A r \in Edits(i)' : r \in items'[i].payload \/ Raced(r, i)'
  <2>1. CASE request[q].op # "edit"
    <3>1. Edits(i)' = Edits(i)
      BY <1>0, <1>2, <2>1, SameEdits
    <3>2. items'[i].payload = items[i].payload
      BY <1>1, <2>1 DEF NewPayload
    <3> QED
      BY <1>4, <3>1, <3>2
  <2>2. CASE request[q].op = "edit" /\ i # j
    <3>1. Edits(i)' = Edits(i)
      BY <1>0, <2>2, CommitAdds
    <3>2. items'[i].payload = items[i].payload
      BY <1>1, <2>2
    <3> QED
      BY <1>4, <3>1, <3>2
  <2>3. CASE request[q].op = "edit" /\ i = j
    <3>1. /\ request[q].base \subseteq Edits(i)
          /\ \A r \in request[q].earlier : r \in request[q].base \/ Raced(r, i)
          /\ q \notin request[q].loaded
      BY <1>0, <2>3 DEF EditInv, Editing
    <3>2. items'[i].payload = request[q].base \union {q}
      BY <1>1, <2>3, <3>1 DEF NewPayload, Merged
    <3>3. Edits(i)' = Edits(i) \union {q} /\ q \notin Edits(i)
      <4>1. q \notin Edits(i)
        BY <1>0 DEF Edits
      <4> QED
        BY <1>0, <2>3, <4>1, CommitAdds
    <3>4. ASSUME NEW r \in Edits(i), r \notin request[q].base
          PROVE  Raced(r, i)'
      <4>1. CASE r \in request[q].earlier
        BY <1>0, <3>1, <3>4, <4>1, RacedStays
      <4>2. CASE r \notin request[q].earlier
        BY <1>2, <3>3, <4>2 DEF Raced
      <4> QED
        BY <4>1, <4>2
    <3> QED
      BY <3>1, <3>2, <3>3, <3>4
  <2> QED
    BY <2>1, <2>2, <2>3
<1> HIDE DEF j
<1> QED
  BY <1>1, <1>3, <1>5 DEF EditInv

\* The answer to a rejection changes no edit.
LEMMA AnnounceEdits ==
  ASSUME TypeInv, EditInv, NEW q \in Requests, Announce(q)
  PROVE  EditInv'
<1>0. QueueTypes /\ Review(q) /\ items' = items
  BY DEF TypeInv, Review, Announce
<1>1. request'[q].pc \in Over
  BY <1>0, Finishing
<1>2. ASSUME NEW i \in DOMAIN items, NEW p \in Requests, Editing(p, i)'
      PROVE  /\ request'[p].base \subseteq Edits(i)'
             /\ \A r \in request'[p].earlier :
                  r \in request'[p].base \/ Raced(r, i)'
             /\ request'[p].pc = "loaded" => p \notin request'[p].loaded
  <2>1. p # q
    BY <1>1, <1>2 DEF Editing, Over
  <2> QED
    BY <1>0, <1>2, <2>1, OthersEdit
<1>3. \A i \in DOMAIN items :
        /\ items'[i].payload \subseteq Edits(i)'
        /\ \A r \in Edits(i)' : r \in items'[i].payload \/ Raced(r, i)'
  BY <1>0, SameEdits, SameItemsEdit
<1> QED
  BY <1>0, <1>2, <1>3 DEF EditInv

\* A new item has no edits yet.
LEMMA StepEdits ==
  ASSUME TypeInv, EditInv, NEW r \in Runs, Step(r)
  PROVE  EditInv'
<1>1. /\ request' = request
      /\ items' = items \/ items' = Append(items, NewItem(r))
  BY StepQueue
<1>2. /\ items \in Seq(Items) /\ NewItem(r).payload = {}
      /\ \A p \in Requests :
           request[p].pc # "idle" => request[p].item \in DOMAIN items
  BY DEF NewItem, TypeInv, QueueTypes
<1>3. \A i \in DOMAIN items' :
        \/ i \in DOMAIN items /\ items'[i] = items[i]
        \/ i \notin DOMAIN items /\ items'[i].payload = {}
  BY <1>1, <1>2
<1>4. ASSUME NEW i \in DOMAIN items'
      PROVE  /\ Edits(i)' = Edits(i)
             /\ \A p \in Requests : Editing(p, i)' <=> Editing(p, i)
             /\ \A p \in Requests : Raced(p, i)' <=> Raced(p, i)
  BY <1>1 DEF Edits, Editing, Raced
<1>5. ASSUME NEW i, i \notin DOMAIN items
      PROVE  Edits(i) = {} /\ \A p \in Requests : ~Editing(p, i)
  BY <1>2, <1>5 DEF Edits, Editing
<1>6. ASSUME NEW i \in DOMAIN items'
      PROVE  /\ items'[i].payload \subseteq Edits(i)'
             /\ \A p \in Edits(i)' : p \in items'[i].payload \/ Raced(p, i)'
             /\ \A p \in Requests : Editing(p, i)' =>
                  /\ request'[p].base \subseteq Edits(i)'
                  /\ \A e \in request'[p].earlier :
                       e \in request'[p].base \/ Raced(e, i)'
                  /\ request'[p].pc = "loaded" => p \notin request'[p].loaded
  <2>1. CASE i \in DOMAIN items /\ items'[i] = items[i]
    <3>1. \A e : Raced(e, i) => Raced(e, i)'
      BY <1>1 DEF Raced, Edits
    <3> QED
      BY <1>1, <1>4, <2>1, <3>1 DEF EditInv
  <2>2. CASE i \notin DOMAIN items /\ items'[i].payload = {}
    BY <1>4, <1>5, <2>2
  <2> QED
    BY <1>3, <2>1, <2>2
<1> QED
  BY <1>6 DEF EditInv

\* For any number of racing reviewers: an edit disappears only under an edit
\* that had read the item before this one was committed.
THEOREM EditsKept == Spec => []EditsAreLostToRacesOnly
<1>1. Init => EditInv
  BY DEF Init, EditInv
<1>2. TypeInv /\ EditInv /\ [Next]_vars => EditInv'
  <2> SUFFICES ASSUME TypeInv, EditInv, [Next]_vars PROVE EditInv'
    OBVIOUS
  <2>1. CASE Results \/ Click \/ Expire \/ UNCHANGED vars
    <3>1. UNCHANGED <<items, request>>
      BY <2>1, OthersKeep DEF vars, people
    <3> QED
      BY <3>1 DEF EditInv, Edits, Editing, Raced
  <2>2. ASSUME NEW q \in Requests, Review(q) PROVE EditInv'
    BY <2>2, VerifyEdit, LoadEdits, CommitEdits, AnnounceEdits DEF Review
  <2> QED
    BY <2>1, <2>2, StepEdits DEF Next
<1>3. EditInv => EditsAreLostToRacesOnly
  BY DEF EditInv, EditsAreLostToRacesOnly, Raced
<1> QED
  BY <1>1, <1>2, <1>3, Typed, PTL DEF Spec

-----------------------------------------------------------------------------
(* What the newest entry and the results show.                             *)

Deciding == {"signals", "record", "validate", "fallback", "paused"}

\* OwnVerdictShows made inductive, for one run: its entry of the present
\* execution shows a verdict from the summary on, and no entry comes from an
\* execution that has not begun.
EntryShows(r) ==
  /\ pass[r] \in Deciding => verdict[r] = Undecided
  /\ newest.by = r => newest.time <= time[r]
  /\ newest.by = r /\ newest.time = time[r] =>
       /\ pass[r] \in Deciding => newest.verdict = Undecided
       /\ pass[r] = "summary" => newest.verdict \in {Undecided, verdict[r]}
       /\ pass[r] = "ended" /\ ~stumbled[r] => newest.verdict = verdict[r]

VerdictInv == \A r \in Runs : EntryShows(r)

\* A pass changes its own state, and appends entries of its own.
LEMMA OwnStep ==
  ASSUME PassTypes, NEW r \in Runs, Step(r), NEW p \in Runs, p # r
  PROVE  /\ pass'[p] = pass[p] /\ time'[p] = time[p]
         /\ verdict'[p] = verdict[p] /\ stumbled'[p] = stumbled[p]
         /\ newest' = newest \/ newest'.by = r
<1>0. \A v : Entry(r, time[r], v).by = r
  BY DEF Entry
<1>1. CASE Deliver(r)
  BY <1>1 DEF Deliver, Goes, PassTypes
<1>2. CASE Signals(r)
  BY <1>0, <1>2 DEF Signals, Goes, Saves, SavesAgain, SaveFails, Stumbles,
     PassTypes
<1>3. CASE Record(r)
  BY <1>0, <1>3 DEF Record, Recorded, Goes, Saves, PassTypes
<1>4. CASE Validate(r)
  BY <1>4 DEF Validate, AsksHuman, Goes, Stumbles, PassTypes
<1>5. CASE Summarise(r)
  BY <1>0, <1>5 DEF Summarise, Settled, Goes, Saves, SavesAgain, SaveFails,
     Stumbles, PassTypes
<1>6. CASE Fallback(r)
  BY <1>0, <1>6 DEF Fallback, Recorded, Goes, Saves, PassTypes
<1> QED
  BY <1>1, <1>2, <1>3, <1>4, <1>5, <1>6 DEF Step

\* A write that is no summary's shows no verdict.
LEMMA RecordShows ==
  ASSUME PassTypes, NEW r \in Runs, EntryShows(r), NEW to \in Deciding,
         pass[r] \in Deciding, pass'[r] = to,
         newest' = newest \/ Saves(r, Undecided),
         UNCHANGED <<time, verdict>>
  PROVE  EntryShows(r)'
<1>1. pass'[r] # "summary" /\ pass'[r] # "ended"
  BY DEF Deciding
<1>2. CASE newest' = newest
  BY <1>1, <1>2 DEF EntryShows
<1>3. CASE Saves(r, Undecided)
  <2>1. newest'.verdict = Undecided /\ newest'.time = time[r] /\ time[r] \in Nat
    BY <1>3 DEF Saves, Entry, PassTypes
  <2> QED
    BY <1>1, <2>1 DEF EntryShows
<1> QED
  BY <1>2, <1>3

\* A pass's own step.
LEMMA OwnShows ==
  ASSUME PassTypes, NEW r \in Runs, EntryShows(r), Step(r)
  PROVE  EntryShows(r)'
<1>0. /\ time[r] \in Nat /\ pass[r] \in Places /\ newest.time \in Nat
      /\ verdict[r] \in Shows
  BY DEF PassTypes
<1>1. CASE Deliver(r)
  <2>1. /\ pass'[r] = "signals" /\ verdict'[r] = Undecided
        /\ time'[r] = time[r] + 1 /\ newest' = newest
    BY <1>1 DEF Deliver, Goes, PassTypes
  <2>2. newest.by = r => newest.time <= time'[r] /\ newest.time # time'[r]
    BY <1>0, <2>1 DEF EntryShows
  <2> QED
    BY <2>1, <2>2 DEF EntryShows
<1>2. CASE Signals(r)
  <2>1. /\ pass[r] \in Deciding /\ pass'[r] \in Deciding
        /\ newest' = newest \/ Saves(r, Undecided)
        /\ UNCHANGED <<time, verdict>>
    BY <1>2 DEF Signals, Goes, SavesAgain, SaveFails, Deciding, PassTypes
  <2> QED
    BY <2>1, RecordShows
<1>3. CASE Record(r)
  <2>1. /\ pass[r] \in Deciding /\ pass'[r] \in Deciding
        /\ newest' = newest \/ Saves(r, Undecided)
        /\ UNCHANGED <<time, verdict>>
    BY <1>3 DEF Record, Recorded, Goes, Deciding, PassTypes
  <2> QED
    BY <2>1, RecordShows
<1>4. CASE Validate(r)
  <2>1. /\ pass[r] \in Deciding /\ pass'[r] \in {"fallback", "summary"}
        /\ UNCHANGED <<time, verdict, newest>>
    BY <1>4 DEF Validate, AsksHuman, Goes, Deciding, PassTypes
  <2> QED
    BY <2>1 DEF EntryShows, Deciding
<1>5. CASE Summarise(r)
  <2>1. PICK v \in IF verdict[r] = Undecided THEN Verdicts ELSE {verdict[r]} :
          /\ verdict' = [verdict EXCEPT ![r] = v]
          /\ \/ Saves(r, v) /\ Smooth /\ Settled(r) /\ UNCHANGED stumbled
             \/ SavesAgain(r, v) /\ UNCHANGED stumbled
             \/ SaveFails /\ Settled(r) /\ Stumbles(r)
    BY <1>5 DEF Summarise
  <2>2. verdict'[r] = v /\ pass[r] = "summary" /\ time' = time
    BY <1>5, <2>1 DEF Summarise, PassTypes
  <2>3. CASE Saves(r, v)
    <3>1. pass'[r] \in {"summary", "ended"}
      BY <2>1, <2>2 DEF SavesAgain, Settled, Goes, PassTypes
    <3>2. newest'.verdict = v /\ newest'.time = time[r]
      BY <2>3 DEF Saves, Entry
    <3> QED
      BY <1>0, <2>2, <3>1, <3>2 DEF EntryShows, Deciding
  <2>4. CASE SaveFails /\ Settled(r) /\ Stumbles(r)
    <3>1. pass'[r] = "ended" /\ stumbled'[r] /\ newest' = newest
      BY <2>4 DEF SaveFails, Settled, Stumbles, Goes, PassTypes
    <3> QED
      BY <2>2, <3>1 DEF EntryShows, Deciding
  <2> QED
    BY <2>1, <2>3, <2>4 DEF SavesAgain
<1>6. CASE Fallback(r)
  <2>1. /\ pass[r] \in Deciding /\ pass'[r] \in Deciding
        /\ newest' = newest \/ Saves(r, Undecided)
        /\ UNCHANGED <<time, verdict>>
    BY <1>6 DEF Fallback, Recorded, Goes, Deciding, PassTypes
  <2> QED
    BY <2>1, RecordShows
<1> QED
  BY <1>1, <1>2, <1>3, <1>4, <1>5, <1>6 DEF Step

\* For any number of runs of the company, deliveries and lost replies: the
\* newest entry never hides the verdict of the pass that wrote it.
THEOREM OwnVerdict == Spec => []OwnVerdictShows
<1>1. Init => VerdictInv
  BY NamesAssumption DEF Init, VerdictInv, EntryShows, NoEntry, Entry
<1>2. TypeInv /\ VerdictInv /\ [Next]_vars => VerdictInv'
  <2> SUFFICES ASSUME TypeInv, VerdictInv, [Next]_vars, NEW p \in Runs
               PROVE  EntryShows(p)'
    BY DEF VerdictInv
  <2>0. PassTypes /\ EntryShows(p)
    BY DEF TypeInv, VerdictInv
  <2>1. ASSUME NEW r \in Runs, Step(r) PROVE EntryShows(p)'
    <3>1. CASE p = r
      BY <2>0, <2>1, <3>1, OwnShows
    <3>2. CASE p # r
      BY <2>0, <2>1, <3>2, OwnStep DEF EntryShows
    <3> QED
      BY <3>1, <3>2
  <2>2. ASSUME UNCHANGED passVars, newest' = newest \/ newest'.by \notin Runs
        PROVE  EntryShows(p)'
    BY <2>0, <2>2 DEF EntryShows, passVars
  <2>3. /\ NoEntry.by \notin Runs
        /\ Entry(Reviewer, 0, Undecided).by \notin Runs
    BY NamesAssumption DEF NoEntry, Entry
  <2>4. ASSUME NEW q \in Requests, Review(q) PROVE EntryShows(p)'
    BY <2>0, <2>2, <2>3, <2>4, ReviewEntries
  <2>5. CASE Results \/ Click \/ Expire
    BY <2>2, <2>3, <2>5, OthersKeep
  <2>6. CASE UNCHANGED vars
    BY <2>2, <2>6 DEF vars
  <2> QED
    BY <2>1, <2>4, <2>5, <2>6 DEF Next
<1>3. TypeInv /\ VerdictInv => OwnVerdictShows
  BY DEF VerdictInv, EntryShows, OwnVerdictShows, Deciding
<1> QED
  BY <1>1, <1>2, <1>3, Typed, PTL DEF Spec

\* For any number of entries that paused and repeated passes have left in the
\* audit log: the results list the company once, and never omit it.
THEOREM Listed == Spec => []ListedOnce
<1>1. Init => ListedOnce
  BY DEF Init, ListedOnce, NoView
<1>2. TypeInv /\ ListedOnce /\ [Next]_vars => ListedOnce'
  <2> SUFFICES ASSUME TypeInv, ListedOnce, [Next]_vars PROVE ListedOnce'
    OBVIOUS
  <2>1. CASE UNCHANGED view
    BY <2>1 DEF ListedOnce
  <2>2. CASE Respond
    <3>1. /\ view'.pc = "answered" /\ view'.entries = view.entries
          /\ view'.raw = Deduplicated(view.raw)
          /\ Len(view.raw) >= view.entries
      BY <2>2 DEF Respond, TypeInv, ViewTypes
    <3>2. view.raw \in Seq(Shows) /\ view.entries \in Nat
      BY DEF TypeInv, ViewTypes
    <3>3. CASE view.raw = <<>>
      BY <3>1, <3>2, <3>3 DEF Deduplicated, ListedOnce
    <3>4. CASE view.raw # <<>>
      BY <3>1, <3>2, <3>4 DEF Deduplicated, ListedOnce
    <3> QED
      BY <3>3, <3>4
  <2>3. CASE Results /\ ~Respond
    <3>1. CASE \E r \in Runs : ReadAudit(r)
      BY <3>1 DEF ReadAudit, ListedOnce
    <3>2. CASE ReadEntry
      <4>1. view' = [view EXCEPT !.raw = Append(view.raw, Shown)]
        BY <3>2 DEF ReadEntry
      <4>2. view'.pc = view.pc /\ view.pc = "entries"
        BY <3>2, <4>1 DEF ReadEntry, TypeInv, ViewTypes
      <4> QED
        BY <4>2 DEF ListedOnce
    <3>3. CASE ReadGraph
      <4> DEFINE raw == IF known THEN <<Shown>> ELSE <<>>
      <4>1. view' = [view EXCEPT !.pc = "entries", !.raw = raw]
        BY <3>3 DEF ReadGraph
      <4> HIDE DEF raw
      <4> QED
        BY <4>1 DEF ListedOnce, TypeInv, ViewTypes
    <3>4. CASE ReadFails
      BY <3>4 DEF ReadFails, NoView, ListedOnce, TypeInv, ViewTypes
    <3> QED
      BY <2>3, <3>1, <3>2, <3>3, <3>4 DEF Results
  <2>4. ASSUME NEW r \in Runs, Step(r) PROVE UNCHANGED view
    BY <2>4 DEF Step, Deliver, Signals, Record, Validate, Summarise, Fallback,
       people
  <2>5. ASSUME NEW q \in Requests, Review(q) PROVE UNCHANGED view
    BY <2>5, ReviewEntries DEF TypeInv
  <2>6. Click \/ Expire \/ UNCHANGED vars => UNCHANGED view
    BY DEF Click, Expire, vars, people
  <2> QED
    BY <2>1, <2>2, <2>3, <2>4, <2>5, <2>6 DEF Next
<1> QED
  BY <1>1, <1>2, Typed, PTL DEF Spec
=============================================================================
