------------------------- MODULE RunLifecycleProofs -------------------------
(***************************************************************************)
(* Theorems about RunLifecycle, for every set of workers and requests,     *)
(* every number of companies, every set of faults and every bound.         *)
(***************************************************************************)
EXTENDS RunLifecycle, TLAPS

\* TypeOK with the one fact it needs to be inductive: a company is only being
\* processed while one is left, so the countdown of GraphEnds stays in Nat.
TypeInv ==
  /\ TypeOK
  /\ \A w \in Workers : stage[w] \in {"plan", "graph", "summary"}
                           => left[w] > 0

LEMMA TypeInit == Init => TypeInv
<1> USE ConstantsAssumption
<1> SUFFICES ASSUME Init PROVE TypeInv
  OBVIOUS
<1> USE DEF Init
<1>1. /\ row \in [status : Status, completed_at : BOOLEAN]
      /\ held \in [Workers -> BOOLEAN] /\ expired \in BOOLEAN
      /\ stage \in [Workers -> Stages]
      /\ seen \in [Workers -> Status \union {Unread}]
      /\ left \in [Workers -> Nat]
  BY DEF Status, Stages, Unread
<1>2. /\ cancel \in [Clients -> {"idle", "checked", "revoked", "done", "dead"}]
      /\ seenBy \in [Clients -> Status \union {Unread}]
      /\ feed \in Seq(Events) /\ lost \subseteq Reasons
      /\ seenByCreator \in Status \union {Unread}
  BY DEF Status, Unread
<1>3. \A w \in Workers : stage[w] = "idle"
  OBVIOUS
<1> QED
  BY <1>1, <1>2, <1>3 DEF TypeInv, TypeOK

\* The worker's steps, the longest part of the type invariant.
LEMMA TypeWork ==
  ASSUME TypeInv, NEW w \in Workers, Work(w)
  PROVE  TypeInv'
<1> USE ConstantsAssumption DEF TypeInv, TypeOK, apiVars, brokerVars,
        workerVars, revokeVars, cancelVars, Stages
<1>1. CASE Receive(w)
  <2>1. queued' \in Nat
    BY <1>1 DEF Receive
  <2>2. CASE w \in revoked
    <3>1. lost' \subseteq Reasons
      BY <1>1, <2>2 DEF Receive, Reasons
    <3>2. UNCHANGED <<held, stage, left>>
      BY <1>1, <2>2 DEF Receive
    <3> QED
      BY <1>1, <2>1, <3>1, <3>2 DEF Receive
  <2>3. CASE w \notin revoked
    <3>1. /\ held' = [held EXCEPT ![w] = TRUE]
          /\ stage' = [stage EXCEPT ![w] = "connect"]
          /\ left' = [left EXCEPT ![w] = Companies]
          /\ UNCHANGED lost
      BY <1>1, <2>3 DEF Receive
    <3> QED
      BY <1>1, <2>1, <3>1 DEF Receive
  <2> QED
    BY <2>2, <2>3
<1>2. CASE Connect(w)
  BY <1>2 DEF Connect, Goto
<1>3. CASE UpdateGet(w)
  BY <1>3 DEF UpdateGet
<1>4. CASE UpdateCommit(w)
  <2>1. row' \in [status : Status, completed_at : BOOLEAN]
    BY <1>4 DEF UpdateCommit, Updated, Updates, Writes, Status
  <2>2. Continues[stage[w]] \in {"company", "graph", "fail", "pubDone",
                                 "pubFail"}
    BY <1>4 DEF UpdateCommit, Updates, Writes, Continues
  <2>3. Continues[stage[w]] = "graph" => left[w] > 0
    BY <1>4 DEF UpdateCommit, Updates, Writes, Continues
  <2> QED
    BY <1>4, <2>1, <2>2, <2>3 DEF UpdateCommit, Goto
<1>5. CASE NextCompany(w)
  BY <1>5 DEF NextCompany, Goto
<1>6. CASE GraphEnds(w)
  BY <1>6 DEF GraphEnds, Goto
<1>7. CASE Publish(w)
  <2>1. feed' \in Seq(Events)
    BY <1>7 DEF Publish, Outcome, Events
  <2> QED
    BY <1>7, <2>1 DEF Publish, Goto
<1>8. CASE Acknowledge(w)
  BY <1>8 DEF Acknowledge, Rest
<1> QED
  BY <1>1, <1>2, <1>3, <1>4, <1>5, <1>6, <1>7, <1>8 DEF Work

LEMMA TypeMishap ==
  ASSUME TypeInv, NEW w \in Workers, Mishap(w)
  PROVE  TypeInv'
<1> USE ConstantsAssumption DEF TypeInv, TypeOK, apiVars, brokerVars,
        workerVars, revokeVars, cancelVars, Stages
<1>1. CASE SummaryRuns(w)
  BY <1>1 DEF SummaryRuns, Goto
<1>2. CASE AgentFails(w)
  <2>1. feed' \in Seq(Events)
    BY <1>2 DEF AgentFails, Events
  <2> QED
    BY <1>2, <2>1 DEF AgentFails, Goto
<1>3. CASE Raise(w)
  <2>1. Handler(stage[w]) \in {"planFail", "fail", "ack"}
    BY <1>3 DEF Raise, Handler
  <2> QED
    BY <1>3, <2>1 DEF Raise, Goto, Reasons
<1>4. CASE Crash(w)
  <2>1. CASE held[w]
    BY <1>4, <2>1 DEF Crash, Rest
  <2>2. CASE ~held[w]
    BY <1>4, <2>2 DEF Crash, Rest, Reasons
  <2> QED
    BY <2>1, <2>2
<1>5. CASE Restart(w)
  BY <1>5 DEF Restart
<1>6. CASE VisibilityTimeout(w)
  BY <1>6 DEF VisibilityTimeout
<1>7. CASE PublishUnanswered(w)
  <2>1. feed' \in Seq(Events) /\ unanswered' \in BOOLEAN
    BY <1>7 DEF PublishUnanswered, Outcome, Events
  <2>2. Handler(stage[w]) \in {"fail", "ack"}
    BY <1>7 DEF PublishUnanswered, Handler
  <2> QED
    BY <1>7, <2>1, <2>2 DEF PublishUnanswered, Goto
<1> QED
  BY <1>1, <1>2, <1>3, <1>4, <1>5, <1>6, <1>7 DEF Mishap

LEMMA TypeRest ==
  ASSUME TypeInv,
         Api \/ Flush \/ (\E w \in Workers : RevokeArrives(w))
             \/ (\E c \in Clients : Cancel(c)) \/ UNCHANGED vars
  PROVE  TypeInv'
<1> USE ConstantsAssumption DEF TypeInv, TypeOK, apiVars, brokerVars,
        workerVars, revokeVars, cancelVars, Stages
<1>1. CASE Api
  <2>1. CASE CreateRow
    BY <2>1 DEF CreateRow, Status
  <2>2. CASE Dispatch
    BY <2>2 DEF Dispatch
  <2>3. CASE DispatchFails
    BY <2>3 DEF DispatchFails, Reasons
  <2>4. CASE CreatorDies
    BY <2>4 DEF CreatorDies, Reasons
  <2>5. CASE FallbackGet
    BY <2>5 DEF FallbackGet
  <2>6. CASE FallbackCommit
    BY <2>6 DEF FallbackCommit, Updated, Status
  <2> QED
    BY <1>1, <2>1, <2>2, <2>3, <2>4, <2>5, <2>6 DEF Api
<1>2. CASE Flush
  BY <1>2 DEF Flush, Reasons
<1>3. ASSUME NEW w \in Workers, RevokeArrives(w) PROVE TypeInv'
  BY <1>3 DEF RevokeArrives, Rest, Reasons
<1>4. ASSUME NEW c \in Clients, Cancel(c) PROVE TypeInv'
  <2>1. CASE CancelCheck(c)
    BY <2>1 DEF CancelCheck
  <2>2. CASE CancelRevoke(c)
    BY <2>2 DEF CancelRevoke
  <2>3. CASE CancelGet(c)
    BY <2>3 DEF CancelGet
  <2>4. CASE CancelCommit(c)
    BY <2>4 DEF CancelCommit, Updated, Status
  <2>5. CASE CancelDies(c)
    BY <2>5 DEF CancelDies
  <2> QED
    BY <1>4, <2>1, <2>2, <2>3, <2>4, <2>5 DEF Cancel
<1>5. CASE UNCHANGED vars
  BY <1>5 DEF vars
<1> QED
  BY <1>1, <1>2, <1>3, <1>4, <1>5

\* Type correctness: every variable keeps its type in every reachable state.
THEOREM TypeCorrect == Spec => []TypeOK
<1>1. TypeInv /\ [Next]_vars => TypeInv'
  BY TypeWork, TypeMishap, TypeRest DEF Next
<1>2. TypeInv => TypeOK
  BY DEF TypeInv
<1> QED
  BY TypeInit, <1>1, <1>2, PTL DEF Spec

-----------------------------------------------------------------------------
LEMMA UpdateStages ==
  Updates = {"start", "plan", "summary", "planFail", "final", "fail"}
BY DEF Updates, Writes

\* A step of worker w that keeps the row, the queue, the creator and the
\* reasons, and after which w still has its duty, keeps AbandonInv.
LEMMA KeepsDuty ==
  ASSUME TypeInv, AbandonInv, NEW w \in Workers,
         UNCHANGED <<row, queued, creator, lost>>,
         \A v \in Workers \ {w} : stage'[v] = stage[v] /\ seen'[v] = seen[v],
         Obliged(w) => Obliged(w)',
         stage'[w] \notin Updates => seen'[w] = Unread
  PROVE  AbandonInv'
<1>1. \A v \in Workers \ {w} : Obliged(v)' = Obliged(v)
  BY DEF Obliged, Unfinished
<1>2. (\E v \in Workers : Obliged(v)) => (\E v \in Workers : Obliged(v)')
  BY <1>1
<1> QED
  BY <1>2 DEF AbandonInv, TypeInv, TypeOK

LEMMA AbandonWork ==
  ASSUME TypeInv, AbandonInv, NEW w \in Workers, Work(w)
  PROVE  AbandonInv'
<1> USE UpdateStages DEF TypeInv, TypeOK
<1>1. CASE Receive(w)
  <2>1. CASE w \in revoked
    BY <1>1, <2>1 DEF Receive, AbandonInv, apiVars
  <2>2. CASE w \notin revoked
    <3>1. /\ stage' = [stage EXCEPT ![w] = "connect"]
          /\ UNCHANGED <<row, creator, seen, lost>>
      BY <1>1, <2>2 DEF Receive, apiVars
    <3>2. seen[w] = Unread
      BY <1>1 DEF Receive, AbandonInv
    <3>3. Obliged(w)'
      BY <3>1 DEF Obliged, Unfinished
    <3> QED
      BY <3>1, <3>2, <3>3 DEF AbandonInv
  <2> QED
    BY <2>1, <2>2
<1>2. CASE Connect(w)
  <2>1. seen[w] = Unread
    BY <1>2 DEF Connect, AbandonInv
  <2>2. Obliged(w)'
    BY <1>2 DEF Connect, Goto, Obliged, Unfinished
  <2> QED
    BY <1>2, <2>1, <2>2, KeepsDuty DEF Connect, Goto, apiVars, brokerVars
<1>3. CASE UpdateGet(w)
  <2>1. CASE Obliged(w)' \/ ~Obliged(w)
    BY <1>3, <2>1, KeepsDuty DEF UpdateGet, apiVars, brokerVars
  <2>2. CASE ~Obliged(w)' /\ Obliged(w)
    <3>1. stage[w] \in {"final", "fail"} /\ row.status = Writes[stage[w]]
      BY <1>3, <2>2 DEF UpdateGet, Obliged, Unfinished
    <3>2. row.status \in {"completed", "failed"}
      BY <3>1 DEF Writes
    <3> QED
      BY <1>3, <3>2 DEF UpdateGet, AbandonInv, apiVars, brokerVars
  <2> QED
    BY <2>1, <2>2
<1>4. CASE UpdateCommit(w)
  <2>1. CASE stage[w] \in {"final", "fail"}
    <3>1. CASE seen[w] = Writes[stage[w]]
      <4>1. ~Obliged(w)
        BY <2>1, <3>1 DEF Obliged
      <4>2. row'.status = row.status
        BY <1>4, <3>1 DEF UpdateCommit, Updated
      <4>3. \A v \in Workers \ {w} : Obliged(v)' = Obliged(v)
        BY <1>4 DEF UpdateCommit, Goto, Obliged, Unfinished
      <4>4. /\ UNCHANGED <<queued, creator, lost>>
            /\ \A v \in Workers : stage'[v] \notin Updates
                                     => seen'[v] = Unread
        BY <1>4 DEF UpdateCommit, Goto, AbandonInv, apiVars, brokerVars
      <4> QED
        BY <4>1, <4>2, <4>3, <4>4 DEF AbandonInv
    <3>2. CASE seen[w] # Writes[stage[w]]
      <4>1. row'.status \in {"completed", "failed"}
        BY <1>4, <2>1, <3>2 DEF UpdateCommit, Updated, Writes
      <4>2. /\ UNCHANGED <<creator, lost>>
            /\ \A v \in Workers : stage'[v] \notin Updates
                                     => seen'[v] = Unread
        BY <1>4 DEF UpdateCommit, Goto, AbandonInv, apiVars
      <4> QED
        BY <4>1, <4>2 DEF AbandonInv
    <3> QED
      BY <3>1, <3>2
  <2>2. CASE stage[w] \notin {"final", "fail"}
    <3>1. Continues[stage[w]] \in {"company", "graph", "fail"}
      BY <1>4, <2>2 DEF UpdateCommit, Continues
    <3>2. stage'[w] \in {"company", "graph", "fail"} /\ seen'[w] = Unread
      BY <1>4, <3>1 DEF UpdateCommit, Goto
    <3>3. Obliged(w)'
      BY <3>2 DEF Obliged, Unfinished, Writes, Unread
    <3>4. /\ UNCHANGED <<creator, lost>>
          /\ \A v \in Workers : stage'[v] \notin Updates
                                   => seen'[v] = Unread
      BY <1>4 DEF UpdateCommit, Goto, AbandonInv, apiVars
    <3> QED
      BY <3>3, <3>4 DEF AbandonInv
  <2> QED
    BY <2>1, <2>2
<1>5. CASE NextCompany(w)
  <2>1. seen[w] = Unread
    BY <1>5 DEF NextCompany, AbandonInv
  <2>2. Obliged(w)'
    BY <1>5, <2>1 DEF NextCompany, Goto, Obliged, Unfinished, Writes, Unread
  <2> QED
    BY <1>5, <2>1, <2>2, KeepsDuty
    DEF NextCompany, Goto, apiVars, brokerVars
<1>6. CASE GraphEnds(w)
  <2>1. seen[w] = Unread
    BY <1>6 DEF GraphEnds, AbandonInv
  <2>2. Obliged(w)'
    BY <1>6 DEF GraphEnds, Goto, Obliged, Unfinished
  <2> QED
    BY <1>6, <2>1, <2>2, KeepsDuty DEF GraphEnds, Goto, apiVars, brokerVars
<1>7. CASE Publish(w)
  <2>1. ~Obliged(w) /\ seen[w] = Unread
    BY <1>7 DEF Publish, Obliged, Unfinished, AbandonInv
  <2> QED
    BY <1>7, <2>1, KeepsDuty DEF Publish, Goto, apiVars, brokerVars
<1>8. CASE Acknowledge(w)
  <2>1. ~Obliged(w)
    BY <1>8 DEF Acknowledge, Obliged, Unfinished
  <2> QED
    BY <1>8, <2>1, KeepsDuty DEF Acknowledge, Rest, apiVars
<1> QED
  BY <1>1, <1>2, <1>3, <1>4, <1>5, <1>6, <1>7, <1>8 DEF Work

LEMMA AbandonMishap ==
  ASSUME TypeInv, AbandonInv, NEW w \in Workers, Mishap(w)
  PROVE  AbandonInv'
<1> USE UpdateStages DEF TypeInv, TypeOK
<1>1. CASE SummaryRuns(w)
  <2>1. Obliged(w)'
    BY <1>1 DEF SummaryRuns, Goto, Obliged, Unfinished
  <2> QED
    BY <1>1, <2>1, KeepsDuty DEF SummaryRuns, Goto, apiVars, brokerVars
<1>2. CASE AgentFails(w)
  <2>1. Obliged(w)'
    BY <1>2 DEF AgentFails, Goto, Obliged, Unfinished
  <2> QED
    BY <1>2, <2>1, KeepsDuty DEF AgentFails, Goto, apiVars, brokerVars
<1>3. CASE Raise(w)
  <2>0. /\ stage' = [stage EXCEPT ![w] = Handler(stage[w])]
        /\ seen' = [seen EXCEPT ![w] = Unread]
        /\ UNCHANGED <<row, queued, creator>>
    BY <1>3 DEF Raise, Goto, apiVars, brokerVars
  <2>1. CASE stage[w] \in {"connect", "fail"}
    <3>1. lost' # {}
      BY <1>3, <2>1 DEF Raise
    <3> QED
      BY <2>0, <3>1 DEF AbandonInv
  <2>2. CASE stage[w] = "pubFail"
    <3>1. ~Obliged(w) /\ lost' = lost
      BY <1>3, <2>2 DEF Raise, Obliged, Unfinished
    <3> QED
      BY <2>0, <3>1, KeepsDuty
  <2>3. CASE stage[w] \notin {"connect", "fail", "pubFail"}
    <3>1. Handler(stage[w]) \in {"planFail", "fail"} /\ lost' = lost
      BY <1>3, <2>3 DEF Raise, Handler, Stages
    <3>2. Obliged(w)'
      BY <2>0, <3>1 DEF Obliged, Unfinished, Writes, Unread
    <3> QED
      BY <2>0, <3>1, <3>2, KeepsDuty
  <2> QED
    BY <2>1, <2>2, <2>3
<1>4. CASE Crash(w)
  <2>1. queued' > 0 \/ lost' # {}
    <3>1. CASE held[w]
      BY <1>4, <3>1 DEF Crash
    <3>2. CASE ~held[w]
      BY <1>4, <3>2 DEF Crash
    <3> QED
      BY <3>1, <3>2
  <2>2. \A v \in Workers : stage'[v] \notin Updates => seen'[v] = Unread
    BY <1>4 DEF Crash, Rest, AbandonInv
  <2>3. creator' = "fallback" => lost' # {}
    BY <1>4 DEF Crash, AbandonInv, apiVars
  <2> QED
    BY <2>1, <2>2, <2>3 DEF AbandonInv
<1>5. CASE Restart(w)
  BY <1>5, KeepsDuty
  DEF Restart, apiVars, brokerVars, workerVars, AbandonInv, Obliged,
      Unfinished
<1>6. CASE VisibilityTimeout(w)
  BY <1>6 DEF VisibilityTimeout, AbandonInv, apiVars, workerVars
<1>7. CASE PublishUnanswered(w)
  <2>0. /\ stage' = [stage EXCEPT ![w] = Handler(stage[w])]
        /\ UNCHANGED <<row, queued, creator, seen, lost>>
        /\ stage[w] \in {"pubDone", "pubFail"}
    BY <1>7 DEF PublishUnanswered, Goto, apiVars, brokerVars
  <2>1. ~Obliged(w) /\ seen[w] = Unread
    BY <2>0 DEF Obliged, Unfinished, AbandonInv
  <2> QED
    BY <2>0, <2>1, KeepsDuty
<1> QED
  BY <1>1, <1>2, <1>3, <1>4, <1>5, <1>6, <1>7 DEF Mishap

LEMMA AbandonRest ==
  ASSUME TypeInv, AbandonInv,
         Api \/ Flush \/ (\E w \in Workers : RevokeArrives(w))
             \/ (\E c \in Clients : Cancel(c)) \/ UNCHANGED vars
  PROVE  AbandonInv'
<1> USE DEF TypeInv, TypeOK
<1>1. CASE Api
  <2>1. UNCHANGED <<stage, seen>>
    BY <1>1 DEF Api, CreateRow, Dispatch, DispatchFails, CreatorDies,
                FallbackGet, FallbackCommit, workerVars
  <2>2. (\E v \in Workers : Obliged(v)) = (\E v \in Workers : Obliged(v)')
    BY <2>1 DEF Obliged, Unfinished
  <2>3. CASE CreateRow
    BY <2>1, <2>3 DEF CreateRow, AbandonInv
  <2>4. CASE Dispatch
    BY <2>1, <2>4 DEF Dispatch, AbandonInv
  <2>5. CASE DispatchFails
    BY <2>1, <2>5 DEF DispatchFails, AbandonInv
  <2>6. CASE CreatorDies
    BY <2>1, <2>6 DEF CreatorDies, AbandonInv
  <2>7. CASE FallbackGet
    BY <2>1, <2>2, <2>7 DEF FallbackGet, AbandonInv, brokerVars
  <2>8. CASE FallbackCommit
    BY <2>1, <2>8 DEF FallbackCommit, AbandonInv, brokerVars
  <2> QED
    BY <1>1, <2>3, <2>4, <2>5, <2>6, <2>7, <2>8 DEF Api
<1>2. CASE Flush
  BY <1>2 DEF Flush, AbandonInv, workerVars
<1>3. ASSUME NEW w \in Workers, RevokeArrives(w) PROVE AbandonInv'
  <2>1. \A v \in Workers : stage'[v] \notin Updates => seen'[v] = Unread
    BY <1>3 DEF RevokeArrives, Rest, AbandonInv
  <2>2. CASE Live(w)
    BY <1>3, <2>1, <2>2 DEF RevokeArrives, AbandonInv, apiVars
  <2>3. CASE ~Live(w)
    <3>1. ~Obliged(w) /\ lost' = lost
      BY <1>3, <2>3 DEF RevokeArrives, Live, Obliged, Unfinished
    <3> QED
      BY <1>3, <2>1, <3>1, KeepsDuty DEF RevokeArrives, Rest, apiVars
  <2> QED
    BY <2>2, <2>3
<1>4. ASSUME NEW c \in Clients, Cancel(c) PROVE AbandonInv'
  <2>1. UNCHANGED <<stage, seen, queued, creator, lost>>
    BY <1>4 DEF Cancel, CancelCheck, CancelRevoke, CancelGet, CancelCommit,
                CancelDies, workerVars, brokerVars, apiVars
  <2>2. row' = row \/ row'.status = "cancelled" \/ row'.status = row.status
    BY <1>4 DEF Cancel, CancelCheck, CancelRevoke, CancelGet, CancelCommit,
                CancelDies, Updated
  <2>3. \A v \in Workers : Obliged(v)' = Obliged(v)
    BY <2>1 DEF Obliged, Unfinished
  <2> QED
    BY <2>1, <2>2, <2>3 DEF AbandonInv
<1>5. CASE UNCHANGED vars
  BY <1>5 DEF vars, AbandonInv, Obliged, Unfinished
<1> QED
  BY <1>1, <1>2, <1>3, <1>4, <1>5

\* As long as the row reads pending or running and no work has been given up,
\* some worker is obliged to write a terminal status that its SELECT has not
\* already seen there, or a delivery that will make one so is still to come.
THEOREM AbandonHolds == Spec => []AbandonInv
<1>1. Init => AbandonInv
  BY DEF Init, AbandonInv
<1>2. TypeInv /\ [Next]_vars => TypeInv'
  BY TypeWork, TypeMishap, TypeRest DEF Next
<1>3. TypeInv /\ AbandonInv /\ [Next]_vars => AbandonInv'
  BY AbandonWork, AbandonMishap, AbandonRest DEF Next
<1> QED
  BY TypeInit, <1>1, <1>2, <1>3, PTL DEF Spec

\* No interleaving of requests, duplicate executions, cancels and faults
\* leaves a pending or running row with nobody in charge of it and no recorded
\* reason: the only ways to a stuck run are the ones "lost" names.
THEOREM AbandonSafe == Spec => []NoSilentAbandon
<1>1. AbandonInv => NoSilentAbandon
  BY DEF AbandonInv, NoSilentAbandon, Owned, Obliged
<1> QED
  BY <1>1, AbandonHolds, PTL

-----------------------------------------------------------------------------
\* A worker that remembers the id as revoked executes nothing.
RevokedRest == \A w \in revoked : ~Live(w)

\* Only Receive makes an idle worker live, and it discards a revoked task.
LEMMA RevokedStep == TypeInv /\ RevokedRest /\ [Next]_vars => RevokedRest'
<1> SUFFICES ASSUME TypeInv, RevokedRest, [Next]_vars
             PROVE  RevokedRest'
  OBVIOUS
<1> USE DEF TypeInv, TypeOK, RevokedRest, Live
<1>1. ASSUME NEW w \in Workers, Receive(w) PROVE RevokedRest'
  <2>1. CASE w \in revoked
    BY <1>1, <2>1 DEF Receive, revokeVars
  <2>2. CASE w \notin revoked
    BY <1>1, <2>2 DEF Receive, revokeVars
  <2> QED
    BY <2>1, <2>2
<1>2. ASSUME NEW w \in Workers, RevokeArrives(w) PROVE RevokedRest'
  BY <1>2 DEF RevokeArrives, Rest
<1>3. ASSUME NEW w \in Workers, Restart(w) PROVE RevokedRest'
  BY <1>3 DEF Restart, workerVars
<1>4. ASSUME NEW w \in Workers, (Work(w) /\ ~Receive(w)) \/ (Mishap(w) /\ ~Restart(w))
      PROVE RevokedRest'
  <2>1. revoked' = revoked
    BY <1>4 DEF Work, Mishap, Connect, UpdateGet, UpdateCommit, NextCompany,
                GraphEnds, Publish, Acknowledge, SummaryRuns, AgentFails,
                Raise, PublishUnanswered, Crash, VisibilityTimeout, revokeVars
  <2>2. stage[w] # "idle" \/ stage' = stage
    BY <1>4, UpdateStages
    DEF Work, Mishap, Connect, UpdateGet, UpdateCommit, NextCompany,
        GraphEnds, Publish, Acknowledge, SummaryRuns, AgentFails,
        Raise, PublishUnanswered, Crash, VisibilityTimeout, workerVars
  <2>3. \A v \in Workers \ {w} : stage'[v] = stage[v]
    BY <1>4 DEF Work, Mishap, Connect, UpdateGet, UpdateCommit, NextCompany,
                GraphEnds, Publish, Acknowledge, SummaryRuns, AgentFails,
                Raise, PublishUnanswered, Crash, VisibilityTimeout, Goto, Rest,
                workerVars
  <2> QED
    BY <2>1, <2>2, <2>3
<1>5. CASE Api \/ Flush \/ UNCHANGED vars
  BY <1>5 DEF Api, CreateRow, Dispatch, DispatchFails, CreatorDies,
              FallbackGet, FallbackCommit, Flush, vars, workerVars, revokeVars
<1>6. ASSUME NEW c \in Clients, Cancel(c) PROVE RevokedRest'
  BY <1>6 DEF Cancel, CancelCheck, CancelRevoke, CancelGet, CancelCommit,
              CancelDies, workerVars, revokeVars
<1> QED
  BY <1>1, <1>2, <1>3, <1>4, <1>5, <1>6 DEF Next

\* While every worker remembers the revocation, a cancelled row stays
\* cancelled: no worker is live to commit an older decision over it.
THEOREM CancelHolds == Spec => CancelHoldsOnceRevoked
<1>1. Init => RevokedRest
  BY DEF Init, RevokedRest
<1>2. TypeInv /\ [Next]_vars => TypeInv'
  BY TypeWork, TypeMishap, TypeRest DEF Next
<1>3. ASSUME TypeInv, RevokedRest, [Next]_vars, row.status = "cancelled",
             revoked = Workers, creator = "done"
      PROVE  row'.status = "cancelled"
  <2> USE DEF TypeInv, TypeOK, RevokedRest, Live
  <2>1. ASSUME NEW w \in Workers, Work(w) \/ Mishap(w) \/ RevokeArrives(w)
        PROVE  row' = row
    BY <1>3, <2>1, UpdateStages
    DEF Work, Mishap, RevokeArrives, Receive, Connect, UpdateGet,
        UpdateCommit, NextCompany, GraphEnds, Publish, Acknowledge,
        SummaryRuns, AgentFails, Raise, PublishUnanswered, Crash, Restart,
        VisibilityTimeout
  <2>2. CASE Api \/ Flush \/ UNCHANGED vars
    BY <1>3, <2>2 DEF Api, CreateRow, Dispatch, DispatchFails, CreatorDies,
                      FallbackGet, FallbackCommit, Flush, vars
  <2>3. ASSUME NEW c \in Clients, Cancel(c)
        PROVE  row'.status = "cancelled"
    BY <1>3, <2>3 DEF Cancel, CancelCheck, CancelRevoke, CancelGet,
                      CancelCommit, CancelDies, Updated
  <2> QED
    BY <1>3, <2>1, <2>2, <2>3 DEF Next
<1>4. [Next]_vars /\ TypeInv /\ RevokedRest
        => [ row.status = "cancelled" /\ revoked = Workers /\ creator = "done"
               => row'.status = "cancelled" ]_vars
  BY <1>3
<1> QED
  BY TypeInit, <1>1, <1>2, RevokedStep, <1>4, PTL
  DEF Spec, CancelHoldsOnceRevoked
-----------------------------------------------------------------------------
\* OneExecution made inductive: until the task is sent nobody can execute it,
\* and an expired timeout has sent it once more.
OneInv ==
  /\ creator # "done" => sent = 0
  /\ sent = 0 => queued = 0 /\ \A w \in Workers : ~Live(w)
  /\ expired => sent > 1
  /\ OneExecution

\* What it takes to keep OneInv when no copy is added: the same workers, or
\* fewer, are live.
LEMMA KeepsOne ==
  ASSUME OneInv, UNCHANGED <<creator, queued, sent, expired>>,
         \A w \in Workers : Live(w)' => Live(w)
  PROVE  OneInv'
  BY DEF OneInv, OneExecution

\* A worker's own step.
LEMMA OneWork ==
  ASSUME TypeInv, OneInv, NEW w \in Workers, Work(w)
  PROVE  OneInv'
<1> USE UpdateStages DEF TypeInv, TypeOK
<1>1. CASE Receive(w)
  <2>1. sent # 0 /\ creator = "done"
    BY <1>1 DEF Receive, OneInv
  <2>2. CASE w \in revoked
    <3>1. stage' = stage /\ queued' = queued - 1
          /\ UNCHANGED <<creator, sent, expired>>
      BY <1>1, <2>2 DEF Receive, apiVars
    <3> QED
      BY <2>1, <3>1 DEF OneInv, OneExecution, Live
  <2>3. CASE w \notin revoked
    <3>1. /\ stage' = [stage EXCEPT ![w] = "connect"]
          /\ queued' = queued - 1 /\ queued > 0
          /\ UNCHANGED <<creator, sent, expired>>
      BY <1>1, <2>3 DEF Receive, apiVars
    <3>2. \A v \in Workers \ {w} : Live(v)' = Live(v)
      BY <3>1 DEF Live
    <3>3. ~expired => queued' = 0 /\ \A v \in Workers : ~Live(v)
      BY <3>1 DEF OneInv, OneExecution
    <3> QED
      BY <2>1, <3>1, <3>2, <3>3 DEF OneInv, OneExecution
  <2> QED
    BY <2>2, <2>3
<1>2. CASE Acknowledge(w)
  BY <1>2, KeepsOne DEF Acknowledge, Rest, Live, apiVars
<1>3. CASE Work(w) /\ ~Receive(w) /\ ~Acknowledge(w)
  <2>1. UNCHANGED <<creator, queued, sent, expired>>
    BY <1>3 DEF Work, Connect, UpdateGet, UpdateCommit, NextCompany,
                GraphEnds, Publish, apiVars, brokerVars
  <2>2. stage[w] # "idle" /\ \A v \in Workers \ {w} : stage'[v] = stage[v]
    BY <1>3 DEF Work, Connect, UpdateGet, UpdateCommit, NextCompany,
                GraphEnds, Publish, Goto
  <2> QED
    BY <2>1, <2>2, KeepsOne DEF Live
<1> QED
  BY <1>1, <1>2, <1>3

LEMMA OneMishap ==
  ASSUME TypeInv, OneInv, NEW w \in Workers, Mishap(w) \/ RevokeArrives(w)
  PROVE  OneInv'
<1> USE DEF TypeInv, TypeOK
<1>1. CASE Crash(w)
  <2>1. /\ Live(w) /\ ~Live(w)' /\ creator' = creator /\ expired' = expired
        /\ \A v \in Workers \ {w} : Live(v)' = Live(v)
    BY <1>1 DEF Crash, Rest, Live, apiVars
  <2>2. CASE held[w]
    <3>1. queued' = queued + 1 /\ sent' = sent + 1
      BY <1>1, <2>2 DEF Crash
    <3>2. creator = "done" /\ sent # 0
      BY <2>1 DEF OneInv
    <3>3. ASSUME ~expired
          PROVE  queued = 0 /\ \A v \in Workers : ~Live(v)'
      <4>1. queued = 0
        BY <2>1, <3>3 DEF OneInv, OneExecution
      <4>2. ASSUME NEW v \in Workers PROVE ~Live(v)'
        BY <2>1, <3>3, <4>2 DEF OneInv, OneExecution
      <4> QED
        BY <4>1, <4>2
    <3>4. sent' # 0 /\ (expired' => sent' > 1)
      BY <2>1, <3>1, <3>2 DEF OneInv
    <3>5. OneExecution'
      <4>1. CASE expired
        BY <2>1, <4>1 DEF OneExecution
      <4>2. CASE ~expired
        <5>1. queued' = 1
          BY <3>1, <3>3, <4>2
        <5> QED
          BY <3>3, <4>2, <5>1 DEF OneExecution
      <4> QED
        BY <4>1, <4>2
    <3> QED
      BY <2>1, <3>2, <3>4, <3>5 DEF OneInv
  <2>3. CASE ~held[w]
    <3>1. UNCHANGED <<queued, sent>>
      BY <1>1, <2>3 DEF Crash
    <3> QED
      BY <2>1, <3>1, KeepsOne
  <2> QED
    BY <2>2, <2>3
<1>2. CASE VisibilityTimeout(w)
  <2>1. /\ Live(w) /\ expired' /\ sent' = sent + 1
        /\ UNCHANGED <<creator, stage>>
    BY <1>2 DEF VisibilityTimeout, apiVars, workerVars
  <2>2. sent # 0 /\ creator = "done"
    BY <2>1 DEF OneInv
  <2> QED
    BY <2>1, <2>2 DEF OneInv, OneExecution
<1>3. CASE RevokeArrives(w)
  BY <1>3, KeepsOne DEF RevokeArrives, Rest, Live, apiVars
<1>4. CASE Restart(w)
  BY <1>4, KeepsOne DEF Restart, Live, apiVars, brokerVars, workerVars
<1>5. CASE SummaryRuns(w) \/ AgentFails(w) \/ Raise(w) \/ PublishUnanswered(w)
  <2>1. UNCHANGED <<creator, queued, sent, expired>>
    BY <1>5 DEF SummaryRuns, AgentFails, Raise, PublishUnanswered, apiVars,
                brokerVars
  <2>2. stage[w] # "idle" /\ \A v \in Workers \ {w} : stage'[v] = stage[v]
    BY <1>5 DEF SummaryRuns, AgentFails, Raise, PublishUnanswered, Goto
  <2> QED
    BY <2>1, <2>2, KeepsOne DEF Live
<1> QED
  BY <1>1, <1>2, <1>3, <1>4, <1>5 DEF Mishap

LEMMA OneStep == TypeInv /\ OneInv /\ [Next]_vars => OneInv'
<1> SUFFICES ASSUME TypeInv, OneInv, [Next]_vars
             PROVE  OneInv'
  OBVIOUS
<1> USE DEF TypeInv, TypeOK
<1>1. CASE Dispatch
  <2>1. /\ creator = "created" /\ creator' = "done" /\ queued' = queued + 1
        /\ sent' = sent + 1 /\ UNCHANGED <<stage, expired>>
    BY <1>1 DEF Dispatch, workerVars
  <2>2. sent = 0 /\ queued = 0 /\ \A w \in Workers : ~Live(w)
    BY <2>1 DEF OneInv
  <2> QED
    BY <2>1, <2>2 DEF OneInv, OneExecution, Live
<1>2. CASE Api /\ ~Dispatch
  <2>1. UNCHANGED <<queued, sent, expired, stage>>
        /\ creator # "done" /\ sent = 0
    BY <1>2 DEF Api, CreateRow, DispatchFails, CreatorDies, FallbackGet,
                FallbackCommit, brokerVars, workerVars, OneInv
  <2> QED
    BY <2>1 DEF OneInv, OneExecution, Live
<1>3. CASE Flush
  BY <1>3 DEF Flush, OneInv, OneExecution, Live, apiVars, workerVars
<1>4. ASSUME NEW c \in Clients, Cancel(c) PROVE OneInv'
  BY <1>4, KeepsOne
  DEF Cancel, CancelCheck, CancelRevoke, CancelGet, CancelCommit, CancelDies,
      Live, apiVars, brokerVars, workerVars
<1>5. CASE UNCHANGED vars
  BY <1>5, KeepsOne DEF vars, Live
<1> QED
  BY <1>1, <1>2, <1>3, <1>4, <1>5, OneWork, OneMishap DEF Next

\* One worker at a time executes the task, whatever crashes, is requeued,
\* revoked, restarted or forgotten, until a visibility timeout expires.
THEOREM ExecutedOnce == Spec => []OneExecution
<1>1. Init => OneInv
  BY DEF Init, OneInv, OneExecution, Live
<1>2. TypeInv /\ [Next]_vars => TypeInv'
  BY TypeWork, TypeMishap, TypeRest DEF Next
<1>3. OneInv => OneExecution
  BY DEF OneInv
<1> QED
  BY TypeInit, <1>1, <1>2, OneStep, <1>3, PTL DEF Spec
-----------------------------------------------------------------------------
\* While the task has been sent once, a failed row means that its only
\* execution is past every update but the one that writes failed.
FailInv ==
  sent <= 1 /\ row.status = "failed" =>
    /\ sent = 1 /\ queued = 0
    /\ \A w \in Workers : stage[w] \in {"idle", "fail", "pubFail", "ack"}

\* A worker about to commit, in a task sent once, is the only one executing.
LEMMA CommitsAlone ==
  ASSUME TypeInv, OneInv, sent <= 1, NEW w \in Workers, Live(w)
  PROVE  sent = 1 /\ queued = 0 /\ \A v \in Workers \ {w} : ~Live(v)
<1>1. sent = 1 /\ ~expired
  BY DEF OneInv, TypeInv, TypeOK
<1>2. queued = 0
  BY <1>1 DEF OneInv, OneExecution, TypeInv, TypeOK
<1> QED
  BY <1>1, <1>2 DEF OneInv, OneExecution

LEMMA FailCommit ==
  ASSUME TypeInv, OneInv, FailInv, NEW w \in Workers, UpdateCommit(w)
  PROVE  /\ FailInv'
         /\ row.status = "failed" /\ sent = 1 => row'.status = "failed"
<1> USE UpdateStages DEF TypeInv, TypeOK
<1>1. /\ stage[w] \in Updates /\ Live(w)
      /\ row'.status \in {row.status, Writes[stage[w]]}
      /\ row'.status = row.status => Writes[stage[w]] = row.status
                                       \/ seen[w] = Writes[stage[w]]
      /\ stage' = [stage EXCEPT ![w] = Continues[stage[w]]]
      /\ UNCHANGED <<sent, queued>>
  BY DEF UpdateCommit, Updated, Goto, Live, brokerVars
<1>2. CASE sent <= 1
  <2>1. sent = 1 /\ queued = 0 /\ \A v \in Workers \ {w} : stage[v] = "idle"
    BY <1>1, <1>2, CommitsAlone DEF Live
  <2>2. CASE row.status = "failed"
    <3>1. stage[w] = "fail"
      BY <1>1, <1>2, <2>2 DEF FailInv
    <3> QED
      BY <1>1, <2>1, <2>2, <3>1 DEF FailInv, Writes, Continues
  <2>3. CASE row.status # "failed"
    <3>1. ASSUME row'.status = "failed" PROVE stage[w] \in {"planFail", "fail"}
      BY <1>1, <2>3, <3>1 DEF Writes
    <3> QED
      BY <1>1, <2>1, <2>3, <3>1 DEF FailInv, Continues
  <2> QED
    BY <2>2, <2>3
<1>3. CASE ~(sent <= 1)
  BY <1>1, <1>3 DEF FailInv
<1> QED
  BY <1>2, <1>3

\* Steps of the broker and the workers that leave the row alone.
LEMMA FailWorker ==
  ASSUME TypeInv, OneInv, FailInv, NEW w \in Workers,
         (Work(w) /\ ~UpdateCommit(w)) \/ Mishap(w) \/ RevokeArrives(w)
  PROVE  FailInv' /\ row' = row
<1> USE UpdateStages DEF TypeInv, TypeOK
<1>1. row' = row
  BY DEF Work, Mishap, RevokeArrives, Receive, Connect, UpdateGet, NextCompany,
         GraphEnds, Publish, Acknowledge, SummaryRuns, AgentFails, Raise,
         PublishUnanswered, Crash, Restart, VisibilityTimeout
<1>2. sent' = sent \/ (sent' = sent + 1 /\ Live(w))
  BY DEF Work, Mishap, RevokeArrives, Receive, Connect, UpdateGet, NextCompany,
         GraphEnds, Publish, Acknowledge, SummaryRuns, AgentFails, Raise,
         PublishUnanswered, Crash, Restart, VisibilityTimeout, brokerVars
<1>3. CASE sent' <= 1 /\ row.status = "failed"
  <2>1. sent' = sent
    BY <1>2, <1>3 DEF OneInv
  <2>2. /\ sent = 1 /\ queued = 0
        /\ \A v \in Workers : stage[v] \in {"idle", "fail", "pubFail", "ack"}
    BY <1>3, <2>1 DEF FailInv
  <2>3. queued' = 0
    BY <2>1, <2>2
    DEF Work, Mishap, RevokeArrives, Receive, Connect, UpdateGet, NextCompany,
        GraphEnds, Publish, Acknowledge, SummaryRuns, AgentFails, Raise,
        PublishUnanswered, Crash, Restart, VisibilityTimeout, brokerVars
  <2>4. \A v \in Workers : stage'[v] \in {"idle", "fail", "pubFail", "ack"}
    <3>1. CASE Raise(w)
      <4>1. stage[w] \in {"fail", "pubFail"} /\ Handler(stage[w]) = "ack"
        BY <2>2, <3>1 DEF Raise, Handler
      <4> QED
        BY <2>2, <3>1, <4>1 DEF Raise, Goto
    <3>2. CASE RevokeArrives(w) \/ Crash(w) \/ Restart(w)
                 \/ VisibilityTimeout(w)
      BY <2>2, <3>2
      DEF RevokeArrives, Crash, Restart, VisibilityTimeout, Rest, workerVars
    <3>3. CASE Work(w) /\ ~UpdateCommit(w)
      BY <2>2, <3>3
      DEF Work, Receive, Connect, UpdateGet, NextCompany, GraphEnds, Publish,
          Acknowledge, Goto, Rest
    <3>4. ~SummaryRuns(w) /\ ~AgentFails(w)
      BY <2>2 DEF SummaryRuns, AgentFails
    <3>5. CASE PublishUnanswered(w)
      <4>1. stage[w] = "pubFail" /\ Handler(stage[w]) = "ack"
        BY <2>2, <3>5 DEF PublishUnanswered, Handler
      <4> QED
        BY <2>2, <3>5, <4>1 DEF PublishUnanswered, Goto
    <3> QED
      BY <3>1, <3>2, <3>3, <3>4, <3>5 DEF Mishap
  <2> QED
    BY <1>1, <2>1, <2>2, <2>3, <2>4 DEF FailInv
<1>4. CASE ~(sent' <= 1 /\ row.status = "failed")
  BY <1>1, <1>4 DEF FailInv
<1> QED
  BY <1>1, <1>3, <1>4

\* Requests: before the task is sent no row reads failed, and afterwards the
\* creating request is done.
LEMMA FailRequest ==
  ASSUME TypeInv, OneInv, FailInv,
         Api \/ Flush \/ UNCHANGED vars \/ (\E c \in Clients : Cancel(c))
  PROVE  /\ FailInv'
         /\ row.status = "failed" /\ sent = 1
              => row'.status \in {"failed", "cancelled"}
<1> USE DEF TypeInv, TypeOK
<1>1. CASE Api
  <2>0. creator # "done"
    BY <1>1 DEF Api, CreateRow, Dispatch, DispatchFails, CreatorDies,
                FallbackGet, FallbackCommit
  <2>1. creator # "done" /\ sent = 0 /\ row.status # "failed"
    BY <2>0 DEF OneInv, FailInv
  <2>2. row'.status # "failed"
    BY <1>1, <2>1 DEF Api, CreateRow, Dispatch, DispatchFails, CreatorDies,
                      FallbackGet, FallbackCommit, Updated
  <2> QED
    BY <2>1, <2>2 DEF FailInv
<1>2. CASE Flush
  BY <1>2 DEF Flush, FailInv, workerVars
<1>3. CASE UNCHANGED vars
  BY <1>3 DEF vars, FailInv
<1>4. ASSUME NEW c \in Clients, Cancel(c)
      PROVE  /\ FailInv'
             /\ row.status = "failed" => row'.status \in {"failed", "cancelled"}
  <2>1. UNCHANGED <<sent, queued, stage>>
    BY <1>4 DEF Cancel, CancelCheck, CancelRevoke, CancelGet, CancelCommit,
                CancelDies, brokerVars, workerVars
  <2>2. row'.status \in {row.status, "cancelled"}
    BY <1>4 DEF Cancel, CancelCheck, CancelRevoke, CancelGet, CancelCommit,
                CancelDies, Updated
  <2> QED
    BY <2>1, <2>2 DEF FailInv
<1> QED
  BY <1>1, <1>2, <1>3, <1>4

\* With the task delivered once, nothing but a cancel takes a row out of
\* failed: not the graph's last summary, not the final update, not the creator.
THEOREM FailedStays == Spec => FailedIsFinal
<1>1. Init => OneInv /\ FailInv
  BY DEF Init, OneInv, OneExecution, Live, FailInv
<1>2. TypeInv /\ [Next]_vars => TypeInv'
  BY TypeWork, TypeMishap, TypeRest DEF Next
<1>3. ASSUME TypeInv, OneInv, FailInv, [Next]_vars
      PROVE  /\ FailInv'
             /\ row.status = "failed" /\ sent = 1
                  => row'.status \in {"failed", "cancelled"}
  <2>1. ASSUME NEW w \in Workers, Work(w) \/ Mishap(w) \/ RevokeArrives(w)
        PROVE  /\ FailInv'
               /\ row.status = "failed" /\ sent = 1 => row'.status = "failed"
    <3>1. CASE UpdateCommit(w)
      BY <1>3, <3>1, FailCommit
    <3>2. CASE ~UpdateCommit(w)
      BY <1>3, <2>1, <3>2, FailWorker
    <3> QED
      BY <3>1, <3>2
  <2> QED
    BY <1>3, <2>1, FailRequest DEF Next
<1>4. TypeInv /\ OneInv /\ FailInv /\ [Next]_vars => FailInv'
  BY <1>3
<1>5. TypeInv /\ OneInv /\ FailInv /\ [Next]_vars
        => [ row.status = "failed" /\ sent = 1
               => row'.status \in {"failed", "cancelled"} ]_vars
  BY <1>3
<1> QED
  BY TypeInit, <1>1, <1>2, OneStep, <1>4, <1>5, PTL DEF Spec, FailedIsFinal

-----------------------------------------------------------------------------
(* The feed and the row.                                                   *)

Announced == Contains(feed, "run_completed")

\* w's last update has set or found the status it was about to write.
Completing(w) ==
  stage[w] = "pubDone" \/ (stage[w] = "final" /\ seen[w] = "completed")
Failing(w) ==
  stage[w] = "pubFail" \/ (stage[w] = "fail" /\ seen[w] = "failed")

\* One more event.
LEMMA OneEvent ==
  ASSUME TypeInv, NEW x \in Events
  PROVE  /\ Last(Append(feed, x)) = x /\ Append(feed, x) # <<>>
         /\ \A y : Contains(Append(feed, x), y) <=> y = x \/ Contains(feed, y)
<1>1. feed \in Seq(Events)
  BY DEF TypeInv, TypeOK
<1> DEFINE t == Append(feed, x)
<1>2. /\ Len(t) = Len(feed) + 1 /\ Len(feed) \in Nat /\ t[Len(feed) + 1] = x
      /\ DOMAIN t = 1..Len(feed) + 1 /\ DOMAIN feed = 1..Len(feed)
      /\ \A i \in 1..Len(feed) : t[i] = feed[i]
  BY <1>1
<1>3. t # <<>>
  BY <1>1
<1> HIDE DEF t
<1>4. \A y : Contains(t, y) <=> y = x \/ Contains(feed, y)
  BY <1>2 DEF Contains
<1> QED
  BY <1>2, <1>3, <1>4 DEF Last, t

\* The last event is one of the feed's.
LEMMA LastIsContained ==
  ASSUME TypeInv, feed # <<>>
  PROVE  Contains(feed, Last(feed))
<1>1. Len(feed) \in 1..Len(feed)
  BY DEF TypeInv, TypeOK
<1> QED
  BY <1>1 DEF Contains, Last

InGraph == {"graph", "summary"}

\* Where a step of a worker that leaves the row alone takes it.
Moves(w) ==
  \/ /\ stage'[w] = "idle" /\ feed' = feed /\ unanswered' = unanswered
     /\ \/ stage[w] \in {"idle", "ack"} /\ (queued' = queued \/ lost' # {})
        \/ lost' # {}
        \/ sent' = sent + 1
  \/ /\ stage' = stage /\ seen' = seen /\ sent' = sent + 1
     /\ feed' = feed /\ unanswered' = unanswered
  \/ /\ stage[w] \notin {"ack", "pubFail"} /\ (stage[w] = "idle" => queued > 0)
     /\ stage[w] = "fail" => stage'[w] = "fail"
     /\ stage'[w] \notin {"idle", "ack", "pubDone", "pubFail"}
     /\ \/ feed' = feed
        \/ stage[w] \in InGraph /\ feed' = Append(feed, "run_failed")
     /\ \/ seen'[w] = Unread
        \/ stage'[w] = stage[w] /\ seen'[w] = row.status
     /\ unanswered' = unanswered
  \/ /\ stage[w] = "pubDone" /\ feed' = Append(feed, "run_completed")
     /\ \/ stage'[w] = "ack" /\ unanswered' = unanswered
        \/ stage'[w] = "fail" /\ seen'[w] = Unread /\ unanswered'
  \/ /\ stage[w] = "pubFail" /\ stage'[w] = "ack"
     /\ feed' = feed \/ feed' = Append(feed, "run_failed")
     /\ unanswered' = unanswered
  \/ /\ stage[w] \in {"connect", "fail"} /\ stage'[w] = "ack"
     /\ feed' = feed /\ unanswered' = unanswered /\ lost' # {}

LEMMA WorkerMoves ==
  ASSUME TypeInv, AbandonInv, NEW w \in Workers,
         (Work(w) /\ ~UpdateCommit(w)) \/ Mishap(w) \/ RevokeArrives(w)
  PROVE  /\ UNCHANGED <<row, creator, cancel>>
         /\ \A v \in Workers \ {w} : stage'[v] = stage[v] /\ seen'[v] = seen[v]
         /\ sent' = sent \/ (sent' = sent + 1 /\ Live(w))
         /\ queued' = queued \/ queued > 0 \/ sent' = sent + 1
         /\ lost \subseteq lost'
         /\ Moves(w)
<1> USE UpdateStages DEF TypeInv, TypeOK, Goto, Rest, Moves
<1>0. stage[w] \notin Updates => seen[w] = Unread
  BY DEF AbandonInv
<1>1. CASE Receive(w)
  <2>1. CASE w \in revoked
    BY <1>1, <2>1 DEF Receive, apiVars, cancelVars
  <2>2. CASE w \notin revoked
    BY <1>0, <1>1, <2>2 DEF Receive, apiVars, cancelVars
  <2> QED
    BY <2>1, <2>2
<1>2. CASE Connect(w) \/ NextCompany(w) \/ GraphEnds(w) \/ SummaryRuns(w)
  BY <1>0, <1>2 DEF Connect, NextCompany, GraphEnds, SummaryRuns, apiVars,
     brokerVars, cancelVars
<1>3. CASE UpdateGet(w)
  BY <1>3 DEF UpdateGet, apiVars, brokerVars, cancelVars
<1>4. CASE Publish(w)
  BY <1>4 DEF Publish, Outcome, apiVars, brokerVars, cancelVars
<1>5. CASE Acknowledge(w)
  BY <1>5 DEF Acknowledge, apiVars, cancelVars
<1>6. CASE AgentFails(w)
  BY <1>6 DEF AgentFails, InGraph, apiVars, brokerVars, cancelVars
<1>7. CASE Raise(w)
  <2>1. /\ stage'[w] = Handler(stage[w]) /\ seen'[w] = Unread /\ feed' = feed
        /\ unanswered' = unanswered
        /\ stage[w] \in Stages \ {"idle", "ack", "summary"}
        /\ stage[w] \in {"connect", "fail"} => lost' # {}
        /\ lost \subseteq lost'
        /\ \A v \in Workers \ {w} : stage'[v] = stage[v] /\ seen'[v] = seen[v]
        /\ UNCHANGED <<row, creator, cancel, sent, queued>>
    BY <1>7 DEF Raise, apiVars, brokerVars, cancelVars
  <2>2. \/ stage[w] = "pubFail" /\ stage'[w] = "ack"
        \/ stage[w] \in {"connect", "fail"} /\ stage'[w] = "ack"
        \/ /\ stage'[w] \in {"fail", "planFail"}
           /\ stage[w] \notin {"fail", "pubFail"}
    BY <2>1 DEF Handler, Stages
  <2> QED
    BY <2>1, <2>2
<1>8. CASE Crash(w)
  BY <1>8 DEF Crash, Live, apiVars, cancelVars
<1>9. CASE Restart(w)
  BY <1>9 DEF Restart, apiVars, brokerVars, workerVars, cancelVars
<1>10. CASE VisibilityTimeout(w)
  BY <1>10 DEF VisibilityTimeout, apiVars, workerVars, cancelVars
<1>11. CASE RevokeArrives(w)
  BY <1>11 DEF RevokeArrives, Live, apiVars, cancelVars
<1>12. CASE PublishUnanswered(w)
  <2>1. /\ stage'[w] = Handler(stage[w]) /\ stage[w] \in {"pubDone", "pubFail"}
        /\ feed' = Append(feed, Outcome(w)) /\ seen' = seen
        /\ unanswered' = (unanswered \/ stage[w] = "pubDone")
        /\ \A v \in Workers \ {w} : stage'[v] = stage[v]
        /\ UNCHANGED <<row, creator, cancel, sent, queued, lost>>
    BY <1>12 DEF PublishUnanswered, apiVars, brokerVars, cancelVars
  <2>2. seen[w] = Unread
    BY <1>0, <2>1
  <2>3. CASE stage[w] = "pubDone"
    BY <2>1, <2>2, <2>3 DEF Handler, Outcome
  <2>4. CASE stage[w] = "pubFail"
    BY <2>1, <2>2, <2>4 DEF Handler, Outcome
  <2> QED
    BY <2>1, <2>3, <2>4
<1> QED
  BY <1>1, <1>2, <1>3, <1>4, <1>5, <1>6, <1>7, <1>8, <1>9, <1>10, <1>11,
     <1>12
  DEF Work, Mishap

\* What an announced completion leaves of the run.  Unless whoever announced it
\* was not told, the execution is over.
SettledRow == \/ row.status \in {"completed", "cancelled"}
              \/ unanswered /\ row.status = "failed"

Over(w) == \/ stage[w] \in {"idle", "ack"}
           \/ unanswered /\ stage[w] \in {"fail", "pubFail"}

\* While the task has been sent once, an announced completion is committed, and
\* so is one that is about to be announced; if whoever announced it was not told,
\* it may be on its way to a failure.
CommitInv ==
  sent <= 1 =>
    /\ Announced => /\ sent = 1 /\ queued = 0 /\ SettledRow
                    /\ \A w \in Workers : Over(w)
    /\ unanswered => Announced
    /\ \A w \in Workers :
         Completing(w) => row.status \in {"completed", "cancelled"}

\* An update of a worker keeps CommitInv.
LEMMA CommitCommit ==
  ASSUME TypeInv, OneInv, CommitInv, NEW w \in Workers, UpdateCommit(w)
  PROVE  CommitInv'
<1> USE UpdateStages DEF TypeInv, TypeOK
<1>1. /\ stage[w] \in Updates /\ Live(w)
      /\ row'.status = IF seen[w] = Writes[stage[w]] THEN row.status
                       ELSE Writes[stage[w]]
      /\ stage' = [stage EXCEPT ![w] = Continues[stage[w]]]
      /\ UNCHANGED <<sent, queued, feed, unanswered>>
  BY DEF UpdateCommit, Updated, Goto, Live, brokerVars
<1>2. CASE sent <= 1
  <2>1. sent = 1 /\ queued = 0 /\ \A v \in Workers \ {w} : stage[v] = "idle"
    BY <1>1, <1>2, CommitsAlone DEF Live
  <2>2. \A v \in Workers \ {w} : ~Completing(v)'
    BY <1>1, <2>1 DEF Completing
  <2>3. Completing(w)' => stage[w] = "final"
    BY <1>1 DEF Completing, Continues
  <2>4. stage[w] = "final" => row'.status \in {"completed", "cancelled"}
    BY <1>1, <1>2 DEF CommitInv, Completing, Writes
  <2>5. Announced' = Announced /\ unanswered' = unanswered
    BY <1>1 DEF Announced
  <2>6. ASSUME Announced
        PROVE  SettledRow' /\ \A v \in Workers : Over(v)'
    <3>1. unanswered /\ stage[w] = "fail" /\ SettledRow
      BY <1>1, <1>2, <2>6 DEF CommitInv, Over
    <3>2. row'.status \in {row.status, "failed"} /\ stage'[w] = "pubFail"
      BY <1>1, <3>1 DEF Writes, Continues
    <3>3. SettledRow'
      BY <2>5, <3>1, <3>2 DEF SettledRow
    <3>4. \A v \in Workers : Over(v)'
      BY <1>1, <2>1, <2>5, <3>1, <3>2 DEF Over
    <3> QED
      BY <3>3, <3>4
  <2>7. /\ sent' = 1 /\ queued' = 0
        /\ unanswered' => Announced'
    BY <1>1, <1>2, <2>1, <2>5 DEF CommitInv
  <2>8. \A v \in Workers :
          Completing(v)' => row'.status \in {"completed", "cancelled"}
    BY <2>2, <2>3, <2>4
  <2> QED
    BY <2>5, <2>6, <2>7, <2>8 DEF CommitInv
<1>3. CASE ~(sent <= 1)
  BY <1>1, <1>3 DEF CommitInv
<1> QED
  BY <1>2, <1>3

\* A step of a worker that leaves the row alone keeps CommitInv.
LEMMA CommitWorker ==
  ASSUME TypeInv, OneInv, AbandonInv, CommitInv, NEW w \in Workers,
         (Work(w) /\ ~UpdateCommit(w)) \/ Mishap(w) \/ RevokeArrives(w)
  PROVE  CommitInv'
<1> USE DEF TypeInv, TypeOK
<1>1. /\ row' = row /\ Moves(w)
      /\ \A v \in Workers \ {w} : stage'[v] = stage[v] /\ seen'[v] = seen[v]
      /\ sent' = sent \/ (sent' = sent + 1 /\ Live(w))
      /\ queued' = queued \/ queued > 0 \/ sent' = sent + 1
  BY WorkerMoves
<1> SUFFICES ASSUME sent' <= 1
             PROVE  /\ Announced' => /\ sent' = 1 /\ queued' = 0 /\ SettledRow'
                                     /\ \A v \in Workers : Over(v)'
                    /\ unanswered' => Announced'
                    /\ \A v \in Workers : Completing(v)'
                         => row'.status \in {"completed", "cancelled"}
  BY DEF CommitInv
<1>2. sent' = sent /\ sent <= 1
  BY <1>1 DEF OneInv
<1>3. Live(w) => sent = 1 /\ queued = 0 /\ \A v \in Workers \ {w} : stage[v] = "idle"
  BY <1>2, CommitsAlone DEF Live
<1>4. Completing(w)' => Completing(w) \/ row.status = "completed"
  BY <1>1, <1>2 DEF Moves, Completing, Unread
<1>5. \A v \in Workers : Completing(v)' => row.status \in {"completed", "cancelled"}
  BY <1>1, <1>2, <1>4 DEF CommitInv, Completing
<1>6. /\ Announced => Announced'
      /\ feed' = Append(feed, "run_completed") => Announced'
      /\ Announced' => Announced \/ feed' = Append(feed, "run_completed")
  <2>1. "run_completed" \in Events /\ "run_failed" \in Events
    BY DEF Events
  <2>2. Contains(Append(feed, "run_completed"), "run_completed")
    BY <2>1, OneEvent
  <2>3. Contains(Append(feed, "run_failed"), "run_completed") <=> Announced
    BY <2>1, OneEvent DEF Announced
  <2>4. \/ feed' = feed
        \/ feed' = Append(feed, "run_failed")
        \/ feed' = Append(feed, "run_completed")
    BY <1>1 DEF Moves
  <2>5. CASE feed' = feed
    BY <2>2, <2>5 DEF Announced
  <2>6. CASE feed' = Append(feed, "run_failed")
    BY <2>2, <2>3, <2>6 DEF Announced
  <2>7. CASE feed' = Append(feed, "run_completed")
    BY <2>2, <2>7 DEF Announced
  <2> QED
    BY <2>4, <2>5, <2>6, <2>7
<1>7. unanswered' => Announced'
  <2>1. CASE unanswered
    BY <1>2, <1>6, <2>1 DEF CommitInv
  <2>2. CASE ~unanswered
    BY <1>1, <1>6, <2>2 DEF Moves
  <2> QED
    BY <2>1, <2>2
<1>8. ASSUME Announced', ~Announced
      PROVE  /\ sent' = 1 /\ queued' = 0 /\ SettledRow'
             /\ \A v \in Workers : Over(v)'
  <2>1. /\ stage[w] = "pubDone"
        /\ stage'[w] = "ack" \/ (stage'[w] = "fail" /\ unanswered')
    <3>1. feed' = Append(feed, "run_completed")
      BY <1>6, <1>8
    <3>2. feed' # feed
      BY <1>8 DEF Announced
    <3>3. feed' # Append(feed, "run_failed")
      <4>1. Last(Append(feed, "run_completed")) = "run_completed"
        BY OneEvent DEF Events
      <4>2. Last(Append(feed, "run_failed")) = "run_failed"
        BY OneEvent DEF Events
      <4> QED
        BY <3>1, <4>1, <4>2
    <3> QED
      BY <1>1, <3>2, <3>3 DEF Moves
  <2>2. Live(w) /\ Completing(w)
    BY <2>1 DEF Live, Completing
  <2>3. row.status \in {"completed", "cancelled"}
    BY <1>2, <2>2 DEF CommitInv
  <2>4. sent' = 1 /\ queued' = 0
    BY <1>1, <1>2, <1>3, <2>2
  <2>5. \A v \in Workers : Over(v)'
    BY <1>1, <1>3, <2>1, <2>2 DEF Over
  <2> QED
    BY <1>1, <2>3, <2>4, <2>5 DEF SettledRow
<1>9. ASSUME Announced
      PROVE  /\ sent' = 1 /\ queued' = 0 /\ SettledRow'
             /\ \A v \in Workers : Over(v)'
  <2>1. sent = 1 /\ queued = 0 /\ SettledRow /\ \A v \in Workers : Over(v)
    BY <1>2, <1>9 DEF CommitInv
  <2>2. queued' = 0
    BY <1>1, <1>2, <2>1
  <2>3. unanswered' = unanswered
    BY <1>1, <2>1 DEF Moves, Over
  <2>4. Over(w)'
    BY <1>1, <1>2, <2>1, <2>3 DEF Moves, Over
  <2>5. \A v \in Workers : Over(v)'
    BY <1>1, <2>1, <2>3, <2>4 DEF Over
  <2> QED
    BY <1>1, <1>2, <2>1, <2>2, <2>3, <2>5 DEF SettledRow
<1> QED
  BY <1>1, <1>5, <1>7, <1>8, <1>9

\* Requests keep CommitInv: only a cancel changes a row of a task that is sent.
LEMMA CommitRequest ==
  ASSUME TypeInv, OneInv, CommitInv,
         Api \/ Flush \/ UNCHANGED vars \/ (\E c \in Clients : Cancel(c))
  PROVE  CommitInv'
<1> USE DEF TypeInv, TypeOK
<1>1. CASE Api
  <2>1. creator # "done" /\ UNCHANGED <<stage, seen, feed, unanswered>>
    BY <1>1 DEF Api, CreateRow, Dispatch, DispatchFails, CreatorDies,
                FallbackGet, FallbackCommit, workerVars
  <2>2. sent = 0 /\ \A w \in Workers : stage[w] = "idle"
    BY <2>1 DEF OneInv, Live
  <2>3. ~Announced /\ ~unanswered
    BY <2>2 DEF CommitInv
  <2> QED
    BY <2>1, <2>2, <2>3 DEF CommitInv, Announced, Completing
<1>2. CASE Flush
  BY <1>2 DEF Flush, CommitInv, SettledRow, Over, Announced, Completing,
     workerVars
<1>3. CASE UNCHANGED vars
  BY <1>3 DEF vars, CommitInv, SettledRow, Over, Announced, Completing
<1>4. ASSUME NEW c \in Clients, Cancel(c) PROVE CommitInv'
  <2>1. UNCHANGED <<sent, queued, stage, seen, feed, unanswered>>
    BY <1>4 DEF Cancel, CancelCheck, CancelRevoke, CancelGet, CancelCommit,
                CancelDies, brokerVars, workerVars
  <2>2. row'.status \in {row.status, "cancelled"}
    BY <1>4 DEF Cancel, CancelCheck, CancelRevoke, CancelGet, CancelCommit,
                CancelDies, Updated
  <2> QED
    BY <2>1, <2>2 DEF CommitInv, SettledRow, Over, Announced, Completing
<1> QED
  BY <1>1, <1>2, <1>3, <1>4

\* These invariants hold together: in particular, a completion announced for a
\* task delivered once is committed, or a cancel has replaced it.
LEMMA AnnouncedLate == Spec => [](TypeInv /\ OneInv /\ AbandonInv /\ CommitInv)
<1>1. Init => OneInv /\ AbandonInv /\ CommitInv
  BY DEF Init, OneInv, OneExecution, Live, AbandonInv, CommitInv, Announced,
     Contains, Completing
<1>2. TypeInv /\ [Next]_vars => TypeInv'
  BY TypeWork, TypeMishap, TypeRest DEF Next
<1>3. TypeInv /\ AbandonInv /\ [Next]_vars => AbandonInv'
  BY AbandonWork, AbandonMishap, AbandonRest DEF Next
<1>4. TypeInv /\ OneInv /\ AbandonInv /\ CommitInv /\ [Next]_vars => CommitInv'
  BY CommitCommit, CommitWorker, CommitRequest DEF Next
<1> QED
  BY TypeInit, <1>1, <1>2, OneStep, <1>3, <1>4, PTL DEF Spec

\* The last terminal event, if its publisher knows of it, and the row agree.
Agrees ==
  /\ row.status \in {"completed", "failed"}
  /\ row.status = "completed"
       <=> feed # <<>> /\ Last(feed) = "run_completed" /\ ~unanswered

Untouched ==
  sent = 1 /\ lost = {} /\ \A c \in Clients : cancel[c] = "idle"

\* In a run that was sent once, of which nothing was given up and that nobody
\* cancels, the row has what its execution is about to announce, and agrees with
\* the feed when the execution is over.
AgreeInv ==
  Untouched =>
    /\ \A w \in Workers : /\ Completing(w) => row.status = "completed"
                          /\ Failing(w) => row.status = "failed"
                          /\ stage[w] = "ack" => Agrees
    /\ queued = 0 /\ (\A w \in Workers : ~Live(w)) => Agrees

\* An update of a worker keeps AgreeInv.
LEMMA AgreeCommit ==
  ASSUME TypeInv, OneInv, AgreeInv, NEW w \in Workers, UpdateCommit(w)
  PROVE  AgreeInv'
<1> USE UpdateStages DEF TypeInv, TypeOK
<1>1. /\ stage[w] \in Updates /\ Live(w)
      /\ row'.status = IF seen[w] = Writes[stage[w]] THEN row.status
                       ELSE Writes[stage[w]]
      /\ stage' = [stage EXCEPT ![w] = Continues[stage[w]]]
      /\ UNCHANGED <<sent, lost, cancel>>
  BY DEF UpdateCommit, Updated, Goto, Live, brokerVars, cancelVars
<1> SUFFICES ASSUME Untouched
             PROVE  AgreeInv'
  BY <1>1 DEF AgreeInv, Untouched
<1>2. \A v \in Workers \ {w} : stage'[v] = "idle"
  BY <1>1, CommitsAlone DEF Live, Untouched
<1>3. \A v \in Workers \ {w} : ~Completing(v)' /\ ~Failing(v)' /\ stage'[v] # "ack"
  BY <1>2 DEF Completing, Failing
<1>4. Live(w)' /\ stage'[w] # "ack"
  BY <1>1 DEF Continues, Live
<1>5. Completing(w)' => row'.status = "completed"
  <2>1. Completing(w)' => stage[w] = "final"
    BY <1>1 DEF Completing, Continues
  <2> QED
    BY <1>1, <2>1 DEF AgreeInv, Completing, Writes
<1>6. Failing(w)' => row'.status = "failed"
  <2>1. seen'[w] = Unread /\ Unread # "failed"
    BY DEF UpdateCommit, Unread
  <2>2. Failing(w)' => stage[w] = "fail"
    BY <1>1, <2>1 DEF Failing, Continues
  <2> QED
    BY <1>1, <2>2 DEF AgreeInv, Failing, Writes
<1> QED
  BY <1>3, <1>4, <1>5, <1>6 DEF AgreeInv

\* A step of a worker that leaves the row alone keeps AgreeInv.
LEMMA AgreeWorker ==
  ASSUME TypeInv, OneInv, AbandonInv, CommitInv, AgreeInv, NEW w \in Workers,
         (Work(w) /\ ~UpdateCommit(w)) \/ Mishap(w) \/ RevokeArrives(w)
  PROVE  AgreeInv'
<1> USE DEF TypeInv, TypeOK
<1>1. /\ row' = row /\ Moves(w) /\ cancel' = cancel /\ lost \subseteq lost'
      /\ \A v \in Workers \ {w} : stage'[v] = stage[v] /\ seen'[v] = seen[v]
      /\ sent' = sent \/ (sent' = sent + 1 /\ Live(w))
      /\ queued' = queued \/ queued > 0 \/ sent' = sent + 1
  BY WorkerMoves
<1> SUFFICES ASSUME Untouched'
             PROVE  /\ \A v \in Workers :
                         /\ Completing(v)' => row.status = "completed"
                         /\ Failing(v)' => row.status = "failed"
                         /\ stage'[v] = "ack" => Agrees'
                    /\ queued' = 0 /\ (\A v \in Workers : ~Live(v)') => Agrees'
  BY <1>1 DEF AgreeInv
<1>2. Untouched /\ sent' = sent
  BY <1>1 DEF OneInv, Untouched
<1>3. Live(w) => queued = 0 /\ \A v \in Workers \ {w} : stage[v] = "idle"
  BY <1>2, CommitsAlone DEF Live, Untouched
<1>4. ASSUME NEW v \in Workers
      PROVE  /\ Completing(v)' => row.status = "completed"
             /\ Failing(v)' => row.status = "failed"
  <2>1. CASE v # w
    BY <1>1, <1>2, <2>1 DEF AgreeInv, Completing, Failing
  <2>2. CASE v = w
    <3>1. Completing(w)' => Completing(w) \/ row.status = "completed"
      BY <1>1, <1>2 DEF Moves, Completing, Unread, Untouched
    <3>2. Failing(w)' => Failing(w) \/ row.status = "failed"
      BY <1>1, <1>2 DEF Moves, Failing, Unread, Untouched
    <3> QED
      BY <1>2, <2>2, <3>1, <3>2 DEF AgreeInv
  <2> QED
    BY <2>1, <2>2
<1>5. Agrees /\ feed' = feed /\ unanswered' = unanswered => Agrees'
  BY <1>1 DEF Agrees
<1>6. ASSUME stage[w] = "pubDone" \/ stage[w] = "pubFail", stage'[w] = "ack"
      PROVE  Agrees'
  <2>1. sent <= 1 /\ unanswered' = unanswered /\ (unanswered => Announced)
    BY <1>1, <1>2, <1>6 DEF Untouched, Moves, CommitInv
  <2>2. /\ "run_completed" \in Events /\ "run_failed" \in Events
        /\ Unread # "completed" /\ Unread # "failed"
    BY DEF Events, Unread
  <2>3. CASE stage[w] = "pubDone"
    <3>1. row.status = "completed" /\ feed' = Append(feed, "run_completed")
      BY <1>1, <1>2, <1>6, <2>3 DEF AgreeInv, Completing, Moves
    <3>2. ~unanswered
      BY <2>1, <2>3 DEF CommitInv, Over
    <3> QED
      BY <1>1, <2>1, <2>2, <3>1, <3>2, OneEvent DEF Agrees
  <2>4. CASE stage[w] = "pubFail"
    <3>1. row.status = "failed"
          /\ (feed' = feed \/ feed' = Append(feed, "run_failed"))
      BY <1>1, <1>2, <1>6, <2>4 DEF AgreeInv, Failing, Moves
    <3>2. ~unanswered => (feed # <<>> => Last(feed) # "run_completed")
      BY <2>1, <2>4, LastIsContained DEF Announced, CommitInv, Over
    <3>3. Last(Append(feed, "run_failed")) = "run_failed"
      BY <2>2, OneEvent
    <3> QED
      BY <1>1, <2>1, <3>1, <3>2, <3>3 DEF Agrees
  <2> QED
    BY <1>6, <2>3, <2>4
<1>7. ASSUME NEW v \in Workers, stage'[v] = "ack" PROVE Agrees'
  <2>1. CASE stage[v] = "ack"
    <3>1. feed' = feed /\ unanswered' = unanswered
      <4>1. CASE v = w
        BY <1>1, <2>1, <4>1 DEF Moves
      <4>2. CASE v # w
        <5>1. ~Live(w)
          BY <1>3, <2>1, <4>2
        <5> QED
          BY <1>1, <5>1 DEF Moves, Live, InGraph
      <4> QED
        BY <4>1, <4>2
    <3> QED
      BY <1>2, <1>5, <2>1, <3>1 DEF AgreeInv
  <2>2. CASE stage[v] # "ack"
    <3>1. v = w
      BY <1>1, <1>7, <2>2
    <3>2. stage[w] = "pubDone" \/ stage[w] = "pubFail"
      BY <1>1, <1>2, <1>7, <2>2, <3>1 DEF Moves, Untouched
    <3> QED
      BY <1>6, <1>7, <3>1, <3>2
  <2> QED
    BY <2>1, <2>2
<1>8. ASSUME queued' = 0, \A v \in Workers : ~Live(v)' PROVE Agrees'
  <2>1. /\ stage'[w] = "idle" /\ feed' = feed /\ unanswered' = unanswered
        /\ stage[w] \in {"idle", "ack"} /\ queued' = queued
    BY <1>1, <1>2, <1>8 DEF Moves, Live, Untouched
  <2>2. CASE stage[w] = "ack"
    BY <1>2, <1>5, <2>1, <2>2 DEF AgreeInv
  <2>3. CASE stage[w] = "idle"
    <3>1. queued = 0 /\ \A v \in Workers : ~Live(v)
      BY <1>1, <1>8, <2>1, <2>3 DEF Live
    <3> QED
      BY <1>2, <1>5, <2>1, <3>1 DEF AgreeInv
  <2> QED
    BY <2>1, <2>2, <2>3
<1> QED
  BY <1>4, <1>7, <1>8

\* Requests keep AgreeInv: a sent task has a creator that is done.
LEMMA AgreeRequest ==
  ASSUME TypeInv, OneInv, AgreeInv,
         Api \/ Flush \/ UNCHANGED vars \/ (\E c \in Clients : Cancel(c))
  PROVE  AgreeInv'
<1> USE DEF TypeInv, TypeOK
<1>1. CASE Api
  <2>1. creator # "done" /\ stage' = stage
        /\ \/ sent' = sent
           \/ queued' = queued + 1
    BY <1>1 DEF Api, CreateRow, Dispatch, DispatchFails, CreatorDies,
                FallbackGet, FallbackCommit, workerVars, brokerVars
  <2>2. sent = 0 /\ queued = 0 /\ \A w \in Workers : stage[w] = "idle"
    BY <2>1 DEF OneInv, Live
  <2>3. Untouched' => queued' # 0
    BY <2>1, <2>2 DEF Untouched
  <2>4. \A w \in Workers :
          ~Completing(w)' /\ ~Failing(w)' /\ stage'[w] # "ack"
    BY <2>1, <2>2 DEF Completing, Failing
  <2> QED
    BY <2>3, <2>4 DEF AgreeInv
<1>2. CASE Flush
  BY <1>2 DEF Flush, AgreeInv, Untouched
<1>3. CASE UNCHANGED vars
  BY <1>3 DEF vars, AgreeInv, Untouched, Completing, Failing, Agrees, Live
<1>4. ASSUME NEW c \in Clients, Cancel(c) PROVE AgreeInv'
  <2>1. cancel'[c] # "idle"
    BY <1>4 DEF Cancel, CancelCheck, CancelRevoke, CancelGet, CancelCommit,
                CancelDies
  <2> QED
    BY <2>1 DEF AgreeInv, Untouched
<1> QED
  BY <1>1, <1>2, <1>3, <1>4

\* For any number of workers, exceptions, faults and agent failures: when a task
\* delivered once, never cancelled and not given up is over, the row reads
\* completed exactly when the last terminal event is run_completed and its
\* publisher was told so, and failed otherwise.
THEOREM FeedAgrees == Spec => []FeedAgreesWithRow
<1>1. Init => AgreeInv
  BY DEF Init, AgreeInv, Untouched
<1>2. TypeInv /\ OneInv /\ AbandonInv /\ CommitInv /\ AgreeInv /\ [Next]_vars
        => AgreeInv'
  BY AgreeCommit, AgreeWorker, AgreeRequest DEF Next
<1>3. AgreeInv => FeedAgreesWithRow
  BY DEF AgreeInv, FeedAgreesWithRow, Quiet, Untouched, Agrees
<1> QED
  BY <1>1, <1>2, <1>3, AnnouncedLate, PTL DEF Spec

-----------------------------------------------------------------------------
(* Why an execution of the task ends, as far as it can be said without     *)
(* fairness.                                                               *)

\* What a stage has ahead of it when l companies are left: four stages for each
\* of them, the final update and its event; the except branches are nearer to
\* the end than whatever they are reached from.
StagesLeft(s, l) ==
  CASE s = "connect"  -> 4 * l + 8
    [] s = "start"    -> 4 * l + 7
    [] s = "company"  -> 4 * l + 6
    [] s = "plan"     -> 4 * l + 5
    [] s = "summary"  -> 4 * l + 4
    [] s = "graph"    -> 4 * l + 3
    [] s = "final"    -> 5
    [] s \in {"pubDone", "planFail"} -> 4
    [] s = "fail"     -> 3
    [] s = "pubFail"  -> 2
    [] s = "ack"      -> 1
    [] OTHER          -> 0

\* Twice that, since an update is a SELECT and a commit.
TaskLeft(w) ==
  2 * StagesLeft(stage[w], left[w]) + (IF seen[w] = Unread THEN 1 ELSE 0)

StaysPut(w) ==
  stage'[w] = stage[w] /\ seen'[w] = seen[w] /\ TaskLeft(w)' = TaskLeft(w)

TakesDelivery(w) == stage[w] = "idle" /\ queued' < queued

RunsAgents(w) == {stage[w], stage'[w]} \subseteq InGraph /\ left'[w] = left[w]

TaskFalls(w) ==
  /\ {TaskLeft(w), TaskLeft(w)'} \subseteq Nat
  /\ TaskLeft(w)' < TaskLeft(w)

TaskAdvances(w) ==
  StaysPut(w) \/ TakesDelivery(w) \/ RunsAgents(w) \/ TaskFalls(w)

\* There is never less than nothing left.
LEMMA StagesTyped ==
  ASSUME NEW s, NEW l \in Nat
  PROVE  StagesLeft(s, l) \in Nat
BY DEF StagesLeft

\* A worker that is at its place stays there.
LEMMA StandsStill ==
  ASSUME NEW w, stage'[w] = stage[w], seen'[w] = seen[w], left'[w] = left[w]
  PROVE  StaysPut(w)
BY DEF StaysPut, TaskLeft

\* A stage less is a step less, whatever the SELECT of it was.
LEMMA StageFalls ==
  ASSUME NEW w, left[w] \in Nat, left'[w] \in Nat,
         StagesLeft(stage'[w], left'[w]) < StagesLeft(stage[w], left[w])
  PROVE  TaskFalls(w)
<1> DEFINE a == StagesLeft(stage[w], left[w])
           b == StagesLeft(stage'[w], left'[w])
<1>1. a \in Nat /\ b \in Nat /\ b < a
  BY StagesTyped
<1>2. TaskLeft(w) = 2 * a \/ TaskLeft(w) = 2 * a + 1
  <2>1. CASE seen[w] = Unread
    BY <2>1 DEF TaskLeft
  <2>2. CASE seen[w] # Unread
    BY <1>1, <2>2 DEF TaskLeft
  <2> QED
    BY <2>1, <2>2
<1>3. TaskLeft(w)' = 2 * b \/ TaskLeft(w)' = 2 * b + 1
  <2>1. CASE seen'[w] = Unread
    BY <2>1 DEF TaskLeft
  <2>2. CASE seen'[w] # Unread
    BY <1>1, <2>2 DEF TaskLeft
  <2> QED
    BY <2>1, <2>2
<1> HIDE DEF a, b
<1> QED
  BY <1>1, <1>2, <1>3 DEF TaskFalls

\* Every step of a worker advances it.
LEMMA WorkAdvances ==
  ASSUME TypeInv, NEW w \in Workers, Work(w)
  PROVE  TaskAdvances(w)
<1> USE DEF TaskAdvances
<1>0. /\ left[w] \in Nat /\ queued \in Nat
      /\ stage[w] \in {"plan", "graph", "summary"} => left[w] > 0
      /\ stage \in [Workers -> Stages] /\ left \in [Workers -> Nat]
      /\ seen \in [Workers -> Status \union {Unread}]
      /\ row.status \in Status
  BY DEF TypeInv, TypeOK
<1>1. CASE Receive(w)
  BY <1>0, <1>1 DEF Receive, TakesDelivery
<1>2. CASE Connect(w)
  <2>1. stage[w] = "connect" /\ stage'[w] = "start" /\ left'[w] = left[w]
    BY <1>0, <1>2 DEF Connect, Goto
  <2>2. StagesLeft(stage'[w], left'[w]) < StagesLeft(stage[w], left[w])
    BY <1>0, <2>1 DEF StagesLeft
  <2> QED
    BY <1>0, <2>1, <2>2, StageFalls
<1>3. CASE UpdateGet(w)
  <2>1. /\ stage' = stage /\ left' = left
        /\ seen[w] = Unread /\ seen'[w] = row.status
    BY <1>0, <1>3 DEF UpdateGet
  <2>2. seen'[w] # Unread
    BY <1>0, <2>1 DEF Status, Unread
  <2> DEFINE a == StagesLeft(stage[w], left[w])
  <2>3. a \in Nat
    BY <1>0, StagesTyped
  <2>4. TaskLeft(w) = 2 * a + 1 /\ TaskLeft(w)' = 2 * a + 0
    BY <2>1, <2>2 DEF TaskLeft
  <2> HIDE DEF a
  <2> QED
    BY <2>3, <2>4 DEF TaskFalls
<1>4. CASE UpdateCommit(w)
  <2>1. stage[w] \in Updates /\ stage'[w] = Continues[stage[w]]
        /\ left'[w] = left[w]
    BY <1>0, <1>4 DEF UpdateCommit, Goto
  <2>2. StagesLeft(stage'[w], left'[w]) < StagesLeft(stage[w], left[w])
    <3>1. CASE stage[w] = "start" /\ stage'[w] = "company"
      BY <1>0, <2>1, <3>1 DEF StagesLeft
    <3>2. CASE stage[w] \in {"plan", "summary"} /\ stage'[w] = "graph"
      BY <1>0, <2>1, <3>2 DEF StagesLeft
    <3>3. CASE stage[w] = "planFail" /\ stage'[w] = "fail"
      BY <3>3 DEF StagesLeft
    <3>4. CASE stage[w] = "final" /\ stage'[w] = "pubDone"
      BY <3>4 DEF StagesLeft
    <3>5. CASE stage[w] = "fail" /\ stage'[w] = "pubFail"
      BY <3>5 DEF StagesLeft
    <3> QED
      BY <2>1, <3>1, <3>2, <3>3, <3>4, <3>5, UpdateStages DEF Continues
  <2> QED
    BY <1>0, <2>1, <2>2, StageFalls
<1>5. CASE NextCompany(w)
  <2>1. /\ stage[w] = "company" /\ left'[w] = left[w]
        /\ stage'[w] \in {"plan", "final"}
    BY <1>0, <1>5 DEF NextCompany, Goto
  <2>2. StagesLeft(stage'[w], left'[w]) < StagesLeft(stage[w], left[w])
    BY <1>0, <2>1 DEF StagesLeft
  <2> QED
    BY <1>0, <2>1, <2>2, StageFalls
<1>6. CASE GraphEnds(w)
  <2>1. /\ stage[w] = "graph" /\ stage'[w] = "company"
        /\ left'[w] = left[w] - 1 /\ left'[w] \in Nat
    BY <1>0, <1>6 DEF GraphEnds, Goto
  <2>2. StagesLeft(stage'[w], left'[w]) < StagesLeft(stage[w], left[w])
    BY <1>0, <2>1 DEF StagesLeft
  <2> QED
    BY <1>0, <2>1, <2>2, StageFalls
<1>7. CASE Publish(w) \/ Acknowledge(w)
  <2>1. /\ \/ stage[w] \in {"pubDone", "pubFail"} /\ stage'[w] = "ack"
           \/ stage[w] = "ack" /\ stage'[w] = "idle"
        /\ left'[w] \in Nat
    BY <1>0, <1>7 DEF Publish, Acknowledge, Goto, Rest
  <2>2. StagesLeft(stage'[w], left'[w]) < StagesLeft(stage[w], left[w])
    BY <2>1 DEF StagesLeft
  <2> QED
    BY <1>0, <2>1, <2>2, StageFalls
<1> QED
  BY <1>1, <1>2, <1>3, <1>4, <1>5, <1>6, <1>7 DEF Work

\* So does whatever may happen to it, except that the graph may run its agents
\* in any way.
LEMMA MishapAdvances ==
  ASSUME TypeInv, AbandonInv, NEW w \in Workers, Mishap(w) \/ RevokeArrives(w)
  PROVE  TaskAdvances(w)
<1> USE DEF TaskAdvances
<1>0. /\ left[w] \in Nat /\ stage[w] \in Stages
      /\ stage[w] \in {"plan", "graph", "summary"} => left[w] > 0
      /\ stage \in [Workers -> Stages] /\ left \in [Workers -> Nat]
      /\ seen \in [Workers -> Status \union {Unread}]
  BY DEF TypeInv, TypeOK
<1>1. CASE SummaryRuns(w) \/ AgentFails(w)
  BY <1>0, <1>1 DEF SummaryRuns, AgentFails, Goto, RunsAgents, InGraph
<1>2. CASE Raise(w)
  <2>1. /\ stage'[w] = Handler(stage[w]) /\ left'[w] = left[w]
        /\ stage[w] \notin {"idle", "ack", "summary"}
    BY <1>0, <1>2 DEF Raise, Goto
  <2>2. StagesLeft(stage'[w], left'[w]) < StagesLeft(stage[w], left[w])
    <3>1. CASE stage[w] = "graph" /\ stage'[w] = "planFail"
      BY <1>0, <2>1, <3>1 DEF StagesLeft
    <3>2. CASE /\ stage[w] \in {"start", "company", "plan", "planFail",
                                "final", "pubDone"}
               /\ stage'[w] = "fail"
      BY <1>0, <2>1, <3>2 DEF StagesLeft
    <3>3. CASE stage[w] \in {"connect", "fail", "pubFail"} /\ stage'[w] = "ack"
      BY <1>0, <2>1, <3>3 DEF StagesLeft
    <3> QED
      BY <1>0, <2>1, <3>1, <3>2, <3>3 DEF Handler, Stages
  <2> QED
    BY <1>0, <2>1, <2>2, StageFalls
<1>7. CASE PublishUnanswered(w)
  <2>1. /\ left'[w] = left[w]
        /\ \/ stage[w] = "pubDone" /\ stage'[w] = "fail"
           \/ stage[w] = "pubFail" /\ stage'[w] = "ack"
    BY <1>0, <1>7 DEF PublishUnanswered, Goto, Handler
  <2>2. StagesLeft(stage'[w], left'[w]) < StagesLeft(stage[w], left[w])
    BY <2>1 DEF StagesLeft
  <2> QED
    BY <1>0, <2>1, <2>2, StageFalls
<1>3. CASE Restart(w) \/ VisibilityTimeout(w)
  BY <1>3, StandsStill DEF Restart, VisibilityTimeout, workerVars
<1>4. ASSUME Rest(w), Live(w) PROVE TaskFalls(w)
  <2>1. stage'[w] = "idle" /\ left'[w] = 0 /\ stage[w] # "idle"
    BY <1>0, <1>4 DEF Rest, Live
  <2>2. StagesLeft(stage'[w], left'[w]) < StagesLeft(stage[w], left[w])
    BY <1>0, <2>1 DEF StagesLeft, Stages
  <2> QED
    BY <1>0, <2>1, <2>2, StageFalls
<1>5. CASE Crash(w)
  BY <1>4, <1>5 DEF Crash
<1>6. CASE RevokeArrives(w)
  <2>1. CASE Live(w)
    BY <1>4, <1>6, <2>1 DEF RevokeArrives
  <2>2. CASE ~Live(w)
    <3>1. /\ stage[w] = "idle" /\ stage'[w] = "idle"
          /\ seen[w] = Unread /\ seen'[w] = Unread
      BY <1>0, <1>6, <2>2, UpdateStages
      DEF RevokeArrives, Rest, Live, AbandonInv
    <3>2. \A l : StagesLeft("idle", l) = 0
      BY DEF StagesLeft
    <3>3. TaskLeft(w) = 1 /\ TaskLeft(w)' = 1
      BY <3>1, <3>2 DEF TaskLeft
    <3> QED
      BY <3>1, <3>3 DEF StaysPut
  <2> QED
    BY <2>1, <2>2
<1> QED
  BY <1>1, <1>2, <1>3, <1>5, <1>6, <1>7 DEF Mishap

\* The others stay where they are.
LEMMA OthersStay ==
  ASSUME NEW w \in Workers, Work(w) \/ Mishap(w) \/ RevokeArrives(w),
         NEW v \in Workers, v # w, TypeInv
  PROVE  StaysPut(v)
<1> USE DEF Goto, Rest
<1>0. /\ stage \in [Workers -> Stages] /\ left \in [Workers -> Nat]
      /\ seen \in [Workers -> Status \union {Unread}]
  BY DEF TypeInv, TypeOK
<1>1. CASE Receive(w)
  BY <1>0, <1>1, StandsStill DEF Receive
<1>2. CASE Connect(w) \/ UpdateGet(w) \/ UpdateCommit(w) \/ NextCompany(w)
  BY <1>0, <1>2, StandsStill DEF Connect, UpdateGet, UpdateCommit, NextCompany
<1>3. CASE GraphEnds(w) \/ Publish(w) \/ Acknowledge(w)
  BY <1>0, <1>3, StandsStill DEF GraphEnds, Publish, Acknowledge
<1>4. CASE SummaryRuns(w) \/ AgentFails(w) \/ Raise(w) \/ PublishUnanswered(w)
           \/ Crash(w)
  BY <1>0, <1>4, StandsStill DEF SummaryRuns, AgentFails, Raise,
     PublishUnanswered, Crash
<1>5. CASE Restart(w) \/ VisibilityTimeout(w)
  BY <1>5, StandsStill DEF Restart, VisibilityTimeout, workerVars
<1>6. CASE RevokeArrives(w)
  BY <1>0, <1>6, StandsStill DEF RevokeArrives
<1> QED
  BY <1>1, <1>2, <1>3, <1>4, <1>5, <1>6 DEF Work, Mishap

\* No execution of the task goes round in circles: whatever is raised, revoked
\* or lost, a worker that moves takes a delivery out of the queue, runs agents of
\* one company's graph, or has less left to do of a natural number that is
\* 8 n + 17 when it begins on n companies.
THEOREM TaskIsFinite == Spec => [][\A w \in Workers : TaskAdvances(w)]_vars
<1>1. TypeInv /\ AbandonInv /\ [Next]_vars
        => [\A w \in Workers : TaskAdvances(w)]_vars
  <2> SUFFICES ASSUME TypeInv, AbandonInv, Next, NEW v \in Workers
               PROVE  TaskAdvances(v)
    OBVIOUS
  <2>1. CASE \E w \in Workers : Work(w) \/ Mishap(w) \/ RevokeArrives(w)
    <3>1. PICK w \in Workers : Work(w) \/ Mishap(w) \/ RevokeArrives(w)
      BY <2>1
    <3>2. CASE v = w
      BY <3>1, <3>2, WorkAdvances, MishapAdvances
    <3>3. CASE v # w
      BY <3>1, <3>3, OthersStay DEF TaskAdvances
    <3> QED
      BY <3>2, <3>3
  <2>2. CASE Api \/ Flush \/ \E c \in Clients : Cancel(c)
    <3>1. UNCHANGED workerVars
      BY <2>2 DEF Api, CreateRow, Dispatch, DispatchFails, CreatorDies,
         FallbackGet, FallbackCommit, Flush, Cancel, CancelCheck, CancelRevoke,
         CancelGet, CancelCommit, CancelDies
    <3> QED
      BY <3>1, StandsStill DEF TaskAdvances, workerVars
  <2> QED
    BY <2>1, <2>2 DEF Next
<1>2. Init => AbandonInv
  BY DEF Init, AbandonInv
<1>3. TypeInv /\ [Next]_vars => TypeInv'
  BY TypeWork, TypeMishap, TypeRest DEF Next
<1>4. TypeInv /\ AbandonInv /\ [Next]_vars => AbandonInv'
  BY AbandonWork, AbandonMishap, AbandonRest DEF Next
<1> QED
  BY TypeInit, <1>1, <1>2, <1>3, <1>4, PTL DEF Spec
=============================================================================
