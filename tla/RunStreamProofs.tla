--------------------------- MODULE RunStreamProofs ---------------------------
(***************************************************************************)
(* Theorems about RunStream, for any number of viewers besides the         *)
(* parameters of RunLifecycle.  A stream only listens: what is proved of   *)
(* the run alone holds of the run with its viewers (RunUndisturbed).       *)
(***************************************************************************)
EXTENDS RunStream, RunLifecycleProofs

\* What viewers do leaves the run alone.
LEMMA ViewersListen ==
  ASSUME [StreamNext]_streamVars
  PROVE  /\ [Next]_vars
         /\ \/ UNCHANGED viewVars
            \/ Next /\ UNCHANGED <<view, next>> /\ (muted \in BOOLEAN => muted' \in BOOLEAN)
            \/ \E v \in Viewers : \/ Subscribe(v) \/ Forward(v) \/ Disconnect(v)
                                  \/ PollRaises(v)
<1>1. CASE RunStep
  BY <1>1 DEF RunStep
<1>2. ASSUME NEW v \in Viewers,
             Subscribe(v) \/ Forward(v) \/ Disconnect(v) \/ PollRaises(v)
      PROVE  UNCHANGED vars
  BY <1>2 DEF Subscribe, Forward, Disconnect, PollRaises
<1>3. CASE UNCHANGED streamVars
  BY <1>3 DEF streamVars
<1> QED
  BY <1>1, <1>2, <1>3 DEF StreamNext

\* The run behaves with its viewers as it does alone (stream.py only reads):
\* every property of RunLifecycle's behaviours holds of RunStream's.
THEOREM RunUndisturbed == StreamSpec => Spec
<1>1. StreamInit => Init
  BY DEF StreamInit
<1>2. [StreamNext]_streamVars => [Next]_vars
  BY ViewersListen
<1> QED
  BY <1>1, <1>2, PTL DEF StreamSpec, Spec

\* Nothing is taken back from the feed.
LEMMA FeedGrows ==
  ASSUME TypeInv, [Next]_vars
  PROVE  Len(feed) \in Nat /\ Len(feed') \in Nat /\ Len(feed) <= Len(feed')
         /\ DOMAIN feed = 1..Len(feed) /\ DOMAIN feed' = 1..Len(feed')
<1>0. feed \in Seq(Events)
  BY DEF TypeInv, TypeOK
<1>1. feed' = feed \/ \E x \in Events : feed' = Append(feed, x)
  <2>1. CASE \E w \in Workers : AgentFails(w)
    BY <2>1 DEF AgentFails, Events
  <2>2. CASE \E w \in Workers : Publish(w) \/ PublishUnanswered(w)
    BY <2>2 DEF Publish, PublishUnanswered, Outcome, Events
  <2>3. ASSUME NEW w \in Workers,
               \/ Work(w) /\ ~Publish(w)
               \/ Mishap(w) /\ ~AgentFails(w) /\ ~PublishUnanswered(w)
               \/ RevokeArrives(w)
        PROVE  feed' = feed
    BY <2>3 DEF Work, Mishap, RevokeArrives, Receive, Connect, UpdateGet,
       UpdateCommit, NextCompany, GraphEnds, Acknowledge, SummaryRuns, Raise,
       Crash, Restart, VisibilityTimeout
  <2>4. Api \/ Flush \/ UNCHANGED vars => feed' = feed
    BY DEF Api, CreateRow, Dispatch, DispatchFails, CreatorDies, FallbackGet,
       FallbackCommit, Flush, vars
  <2>5. ASSUME NEW c \in Clients, Cancel(c) PROVE feed' = feed
    BY <2>5 DEF Cancel, CancelCheck, CancelRevoke, CancelGet, CancelCommit,
       CancelDies
  <2> QED
    BY <2>1, <2>2, <2>3, <2>4, <2>5 DEF Next
<1>2. feed' \in Seq(Events) /\ (Len(feed') = Len(feed) \/ Len(feed') = Len(feed) + 1)
  BY <1>0, <1>1
<1> QED
  BY <1>0, <1>2

\* The viewers' part of StreamTypeOK.
ViewTypes ==
  /\ view \in [Viewers -> {"away", "open", "ended", "broken"}]
  /\ muted \in BOOLEAN
  /\ next \in [Viewers -> Nat]
  /\ \A v \in Viewers : next[v] <= Len(feed) + 1
  /\ \A v \in Viewers : view[v] = "ended" => next[v] \in DOMAIN feed

\* Every step keeps it.
LEMMA ViewStep ==
  TypeInv /\ ViewTypes /\ [StreamNext]_streamVars => ViewTypes'
<1> SUFFICES ASSUME TypeInv, ViewTypes, [StreamNext]_streamVars
             PROVE  ViewTypes'
  OBVIOUS
<1>1. /\ Len(feed) \in Nat /\ Len(feed') \in Nat /\ Len(feed) <= Len(feed')
      /\ DOMAIN feed = 1..Len(feed) /\ DOMAIN feed' = 1..Len(feed')
  BY ViewersListen, FeedGrows
<1>2. CASE UNCHANGED viewVars
  BY <1>1, <1>2 DEF ViewTypes, viewVars
<1>3. CASE UNCHANGED <<view, next>> /\ (muted \in BOOLEAN => muted' \in BOOLEAN)
  BY <1>1, <1>3 DEF ViewTypes
<1>4. ASSUME NEW v \in Viewers, Subscribe(v) PROVE ViewTypes'
  <2>1. feed' = feed
    BY <1>4 DEF Subscribe, vars
  <2> QED
    BY <1>1, <1>4, <2>1 DEF Subscribe, ViewTypes
<1>5. ASSUME NEW v \in Viewers, Forward(v) \/ Disconnect(v) \/ PollRaises(v)
      PROVE  ViewTypes'
  <2>1. feed' = feed
    BY <1>5 DEF Forward, Disconnect, PollRaises, vars
  <2> QED
    BY <1>1, <1>5, <2>1 DEF Forward, Disconnect, PollRaises, ViewTypes
<1> QED
  BY <1>2, <1>3, <1>4, <1>5, ViewersListen

\* The types of the run and of its viewers hold throughout.
LEMMA StreamTyped == StreamSpec => [](TypeInv /\ CommitInv /\ ViewTypes)
<1>1. StreamInit => ViewTypes
  <2> SUFFICES ASSUME StreamInit PROVE ViewTypes
    OBVIOUS
  <2>1. feed = <<>> /\ Len(feed) = 0
    BY DEF StreamInit, Init
  <2>2. /\ view = [v \in Viewers |-> "away"] /\ muted = FALSE
        /\ next = [v \in Viewers |-> 0]
    BY DEF StreamInit
  <2>3. /\ next \in [Viewers -> Nat]
        /\ \A v \in Viewers : next[v] <= Len(feed) + 1 /\ view[v] = "away"
    BY <2>1, <2>2
  <2> QED
    BY <2>2, <2>3 DEF ViewTypes
<1> QED
  BY <1>1, RunUndisturbed, AnnouncedLate, ViewStep, PTL DEF StreamSpec

\* For any number of viewers: the variables of a stream keep their types, and a
\* stream that has ended has shown an event that was published.
THEOREM StreamTypes == StreamSpec => []StreamTypeOK
<1>1. TypeInv /\ ViewTypes => StreamTypeOK
  <2> SUFFICES ASSUME TypeInv, ViewTypes PROVE StreamTypeOK
    OBVIOUS
  <2>1. Len(feed) \in Nat
    BY DEF TypeInv, TypeOK
  <2>2. next \in [Viewers -> 0..Len(feed) + 1]
    BY <2>1 DEF ViewTypes
  <2> QED
    BY <2>2 DEF StreamTypeOK, ViewTypes, TypeInv
<1> QED
  BY <1>1, StreamTyped, PTL

\* For any number of viewers, workers, cancels and faults: a stream that ended
\* with run_completed, for a task delivered once, shows a status that is
\* committed, or that a cancel has replaced, or that the task took for a failure
\* because its publish raised after it had been applied.
THEOREM CompletedCommitted == StreamSpec => []CompletedIsCommitted
<1>1. TypeInv /\ CommitInv /\ ViewTypes => CompletedIsCommitted
  BY DEF CommitInv, SettledRow, ViewTypes, CompletedIsCommitted, Announced,
     Shown, Contains
<1> QED
  BY <1>1, StreamTyped, PTL

-----------------------------------------------------------------------------
(* Why a viewer is told, as far as it can be said without fairness.        *)

\* Some worker's execution has still its event to publish.
Unpublished == \E w \in Workers : stage[w] \notin {"idle", "ack"}

\* As long as nothing was given up and no publish has raised: what was sent is
\* still to be received, or being executed, or has been announced.
ToldInv ==
  lost = {} /\ ~muted =>
    /\ creator = "done" => sent > 0
    /\ sent > 0 => feed # <<>> \/ queued > 0 \/ Unpublished

\* A worker's step that is not its last leaves it with an event to publish.
LEMMA ToldWork ==
  ASSUME TypeInv, ToldInv, lost = {}, ~muted, NEW w \in Workers,
         Work(w) \/ Mishap(w) \/ RevokeArrives(w), lost' = {},
         ~(stage[w] = "pubFail" /\ stage'[w] = "ack" /\ feed' = feed)
  PROVE  /\ creator' = creator /\ sent' >= sent
         /\ sent' > 0 => feed' # <<>> \/ queued' > 0 \/ Unpublished'
<1> USE DEF Goto, Rest
<1>0. /\ stage \in [Workers -> Stages] /\ feed \in Seq(Events)
      /\ queued \in Nat /\ sent \in Nat
      /\ sent > 0 => feed # <<>> \/ queued > 0 \/ Unpublished
  BY DEF TypeInv, TypeOK, ToldInv
<1>1. ASSUME UNCHANGED <<feed, queued, sent, creator>>,
             \A v \in Workers \ {w} : stage'[v] = stage[v],
             stage[w] \in {"idle", "ack"} \/ stage'[w] \notin {"idle", "ack"}
      PROVE  /\ creator' = creator /\ sent' >= sent
             /\ sent' > 0 => feed' # <<>> \/ queued' > 0 \/ Unpublished'
  BY <1>0, <1>1 DEF Unpublished
<1>2. ASSUME queued' = queued + 1, sent' >= sent, creator' = creator
      PROVE  /\ creator' = creator /\ sent' >= sent
             /\ sent' > 0 => feed' # <<>> \/ queued' > 0 \/ Unpublished'
  BY <1>0, <1>2
<1>3. ASSUME NEW x, feed' = Append(feed, x), sent' = sent, creator' = creator
      PROVE  /\ creator' = creator /\ sent' >= sent
             /\ sent' > 0 => feed' # <<>> \/ queued' > 0 \/ Unpublished'
  <2>1. feed' # <<>>
    <3>1. Len(feed') = Len(feed) + 1 /\ Len(feed) \in Nat
      BY <1>0, <1>3
    <3>2. Len(<<>>) = 0
      OBVIOUS
    <3> QED
      BY <3>1, <3>2
  <2> QED
    BY <1>0, <1>3, <2>1
<1>4. CASE Receive(w)
  <2>1. w \notin revoked
    BY <1>4 DEF Receive
  <2>2. stage'[w] = "connect" /\ UNCHANGED <<sent, creator>>
    BY <1>0, <1>4, <2>1 DEF Receive, apiVars
  <2> QED
    BY <1>0, <2>2 DEF Unpublished
<1>5. CASE Connect(w) \/ UpdateGet(w) \/ NextCompany(w) \/ GraphEnds(w)
           \/ SummaryRuns(w)
  BY <1>0, <1>1, <1>5, UpdateStages
  DEF Connect, UpdateGet, NextCompany, GraphEnds, SummaryRuns, apiVars, brokerVars
<1>6. CASE UpdateCommit(w)
  <2>1. /\ stage[w] \in Updates /\ stage'[w] = Continues[stage[w]]
        /\ \A v \in Workers \ {w} : stage'[v] = stage[v]
        /\ UNCHANGED <<feed, queued, sent, creator>>
    BY <1>0, <1>6 DEF UpdateCommit, apiVars, brokerVars
  <2>2. stage'[w] \notin {"idle", "ack"}
    BY <2>1, UpdateStages DEF Continues
  <2> QED
    BY <1>1, <2>1, <2>2
<1>7. CASE Publish(w) \/ PublishUnanswered(w) \/ AgentFails(w)
  <2>1. /\ \E x : feed' = Append(feed, x)
        /\ sent' = sent /\ creator' = creator
    BY <1>7 DEF Publish, PublishUnanswered, AgentFails, apiVars, brokerVars
  <2> QED
    BY <1>3, <2>1
<1>8. CASE Acknowledge(w)
  BY <1>0, <1>1, <1>8 DEF Acknowledge, apiVars
<1>9. CASE Raise(w)
  <2>1. /\ stage[w] \in Stages \ {"idle", "ack", "summary"}
        /\ stage'[w] = Handler(stage[w])
        /\ \A v \in Workers \ {w} : stage'[v] = stage[v]
        /\ UNCHANGED <<feed, queued, sent, creator>>
    BY <1>0, <1>9 DEF Raise, apiVars, brokerVars
  <2>2. stage[w] \notin {"connect", "fail"}
    BY <1>9 DEF Raise
  <2>3. stage'[w] \notin {"idle", "ack"}
    BY <2>1, <2>2 DEF Handler, Stages
  <2> QED
    BY <1>1, <2>1, <2>3
<1>10. CASE Crash(w)
  <2>1. held[w]
    BY <1>10 DEF Crash
  <2>2. queued' = queued + 1 /\ sent' = sent + 1 /\ creator' = creator
    BY <1>10, <2>1 DEF Crash, apiVars
  <2> QED
    BY <1>0, <1>2, <2>2
<1>11. CASE Restart(w)
  BY <1>1, <1>11 DEF Restart, apiVars, brokerVars, workerVars
<1>12. CASE VisibilityTimeout(w)
  BY <1>0, <1>2, <1>12 DEF VisibilityTimeout, apiVars
<1>13. CASE RevokeArrives(w)
  <2>1. stage[w] = "idle"
    BY <1>13 DEF RevokeArrives, Live
  <2> QED
    BY <1>0, <1>1, <1>13, <2>1 DEF RevokeArrives, apiVars
<1> QED
  BY <1>4, <1>5, <1>6, <1>7, <1>8, <1>9, <1>10, <1>11, <1>12, <1>13
  DEF Work, Mishap

\* Nothing given up is forgotten.
LEMMA LossesStay == [Next]_vars => lost \subseteq lost'
<1>1. ASSUME NEW w \in Workers, Work(w) \/ Mishap(w) \/ RevokeArrives(w)
      PROVE  lost \subseteq lost'
  BY <1>1 DEF Work, Mishap, RevokeArrives, Receive, Connect, UpdateGet,
     UpdateCommit, NextCompany, GraphEnds, Publish, Acknowledge, SummaryRuns,
     AgentFails, Raise, PublishUnanswered, Crash, Restart, VisibilityTimeout
<1>2. ASSUME NEW c \in Clients, Cancel(c) PROVE lost \subseteq lost'
  BY <1>2 DEF Cancel, CancelCheck, CancelRevoke, CancelGet, CancelCommit,
     CancelDies
<1>3. Api \/ Flush \/ UNCHANGED vars => lost \subseteq lost'
  BY DEF Api, CreateRow, Dispatch, DispatchFails, CreatorDies, FallbackGet,
     FallbackCommit, Flush, vars
<1> QED
  BY <1>1, <1>2, <1>3 DEF Next

\* Every step keeps ToldInv.
LEMMA ToldStep ==
  TypeInv /\ AbandonInv /\ ViewTypes /\ ToldInv /\ [StreamNext]_streamVars
    => ToldInv'
<1> SUFFICES ASSUME TypeInv, AbandonInv, ViewTypes, ToldInv,
                    [StreamNext]_streamVars, lost' = {}, ~muted'
             PROVE  /\ creator' = "done" => sent' > 0
                    /\ sent' > 0 => feed' # <<>> \/ queued' > 0 \/ Unpublished'
  BY DEF ToldInv
<1>0. lost = {} /\ queued \in Nat /\ sent \in Nat
  BY ViewersListen, LossesStay DEF TypeInv, TypeOK
<1>1. CASE UNCHANGED vars /\ muted' = muted
  BY <1>0, <1>1 DEF ToldInv, Unpublished, vars
<1>2. CASE RunStep
  <2>1. ~muted
    BY <1>2 DEF RunStep
  <2>2. /\ creator = "done" => sent > 0
        /\ sent > 0 => feed # <<>> \/ queued > 0 \/ Unpublished
    BY <1>0, <2>1 DEF ToldInv
  <2>3. ASSUME NEW w \in Workers, Work(w) \/ Mishap(w) \/ RevokeArrives(w)
        PROVE  /\ creator' = "done" => sent' > 0
               /\ sent' > 0 => feed' # <<>> \/ queued' > 0 \/ Unpublished'
    <3>1. ~(stage[w] = "pubFail" /\ stage'[w] = "ack" /\ feed' = feed)
      BY <1>2 DEF RunStep
    <3>2. /\ creator' = creator /\ sent' >= sent
          /\ sent' > 0 => feed' # <<>> \/ queued' > 0 \/ Unpublished'
      BY <1>0, <2>1, <2>3, <3>1, ToldWork
    <3>3. sent' \in Nat
      BY <2>3, TypeWork, TypeMishap, TypeRest DEF TypeInv, TypeOK
    <3> QED
      BY <1>0, <2>2, <3>2, <3>3
  <2>4. ASSUME UNCHANGED <<creator, sent, feed, queued, stage>>
        PROVE  /\ creator' = "done" => sent' > 0
               /\ sent' > 0 => feed' # <<>> \/ queued' > 0 \/ Unpublished'
    BY <2>2, <2>4 DEF Unpublished
  <2>5. CASE Api
    <3>1. CASE CreateRow
      BY <2>2, <3>1 DEF CreateRow, brokerVars, workerVars, Unpublished
    <3>2. CASE Dispatch
      BY <1>0, <3>2 DEF Dispatch
    <3>3. CASE DispatchFails \/ CreatorDies
      BY <3>3 DEF DispatchFails, CreatorDies
    <3>4. CASE FallbackGet \/ FallbackCommit
      BY <1>0, <3>4 DEF FallbackGet, FallbackCommit, AbandonInv
    <3> QED
      BY <2>5, <3>1, <3>2, <3>3, <3>4 DEF Api
  <2>6. CASE Flush
    BY <2>6 DEF Flush
  <2>7. ASSUME NEW c \in Clients, Cancel(c)
        PROVE  UNCHANGED <<creator, sent, feed, queued, stage>>
    BY <2>7 DEF Cancel, CancelCheck, CancelRevoke, CancelGet, CancelCommit,
       CancelDies, apiVars, brokerVars, workerVars
  <2> QED
    BY <1>2, <2>3, <2>4, <2>5, <2>6, <2>7 DEF RunStep, Next
<1>3. ASSUME NEW v \in Viewers,
             Subscribe(v) \/ Forward(v) \/ Disconnect(v) \/ PollRaises(v)
      PROVE  UNCHANGED vars /\ muted' = muted
  BY <1>3 DEF Subscribe, Forward, Disconnect, PollRaises
<1>4. CASE UNCHANGED streamVars
  BY <1>1, <1>4 DEF streamVars, viewVars
<1> QED
  BY <1>1, <1>2, <1>3, <1>4 DEF StreamNext

\* Whoever subscribed before the first terminal event has one to be shown when
\* the run has come to rest: whatever was raised, revoked, redelivered or
\* expired on the way, an execution does not end in silence unless a loss is on
\* record or its own last publish raised.
THEOREM EndIsPublished ==
  StreamSpec =>
    [](Quiet /\ lost = {} /\ ~muted =>
         /\ feed # <<>>
         /\ \A v \in Viewers : view[v] = "open" /\ next[v] = 1
                                 => next[v] \in DOMAIN feed)
<1>1. TypeInv /\ ToldInv =>
        (Quiet /\ lost = {} /\ ~muted =>
           /\ feed # <<>>
           /\ \A v \in Viewers : view[v] = "open" /\ next[v] = 1
                                   => next[v] \in DOMAIN feed)
  <2> SUFFICES ASSUME TypeInv, ToldInv, Quiet, lost = {}, ~muted
               PROVE  feed # <<>> /\ 1 \in DOMAIN feed
    OBVIOUS
  <2>1. feed # <<>>
    BY DEF Quiet, Live, ToldInv, Unpublished
  <2>2. feed \in Seq(Events)
    BY DEF TypeInv, TypeOK
  <2>3. 1 \in DOMAIN feed
    BY <2>1, <2>2
  <2> QED
    BY <2>1, <2>3
<1>2. StreamInit => ToldInv
  BY DEF StreamInit, Init, ToldInv
<1>3. Spec => []AbandonInv
  BY AbandonHolds
<1> QED
  BY <1>1, <1>2, <1>3, ToldStep, StreamTyped, RunUndisturbed, PTL DEF StreamSpec
=============================================================================
