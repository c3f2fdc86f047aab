----------------------------- MODULE RunStream ------------------------------
(***************************************************************************)
(* The event stream of a run, GET /stream/{run_id}, composed with the run. *)
(* Redis pub/sub keeps nothing: a subscriber gets what is published while  *)
(* it is subscribed.  feed is append-only, so a subscription is the        *)
(* position in feed of the next terminal event it will be sent; the other  *)
(* events (agent_started, hitl_required, heartbeats) end no stream and are *)
(* left out.                                                               *)
(***************************************************************************)
EXTENDS RunLifecycle

CONSTANTS Viewers   (* browser connections                                 *)

VARIABLES
  view,   (* view[v]: "away", "open", "ended" (stream_end sent), "broken"  *)
  next,   (* next[v]: the position in feed of v's next event               *)
  muted   (* history: the task's run_failed raised and was not applied     *)

viewVars   == <<view, next, muted>>
streamVars == <<vars, viewVars>>

Shown(v) == feed[next[v]]   \* the event that ended the stream of v

StreamInit ==
  /\ Init
  /\ view = [v \in Viewers |-> "away"]
  /\ next = [v \in Viewers |-> 0]
  /\ muted = FALSE

\* The browser learns the id from the answer to POST, then subscribes.
Subscribe(v) ==
  /\ creator = "done" /\ view[v] = "away"
  /\ view' = [view EXCEPT ![v] = "open"]
  /\ next' = [next EXCEPT ![v] = Len(feed) + 1]
  /\ UNCHANGED <<vars, muted>>

\* Mutant: the stream ends at a turn that polled nothing.
ForwardEarly(v) ==
  /\ view[v] = "open"
  /\ view' = [view EXCEPT ![v] = "ended"]
  /\ UNCHANGED <<vars, next, muted>>

\* One turn of _event_generator that polls a terminal event: it is forwarded,
\* then stream_end, and the generator ends.
Forward(v) ==
  /\ view[v] = "open" /\ next[v] \in DOMAIN feed
  /\ view' = [view EXCEPT ![v] = "ended"]
  /\ UNCHANGED <<vars, next, muted>>

\* request.is_disconnected(), seen at the head of the loop.
Disconnect(v) ==
  /\ view[v] = "open"
  /\ view' = [view EXCEPT ![v] = "away"]
  /\ UNCHANGED <<vars, next, muted>>

\* Redis drops the connection: get_message raises out of the generator.
PollRaises(v) ==
  /\ Faults \intersect {"flush", "raise"} # {}
  /\ view[v] = "open"
  /\ view' = [view EXCEPT ![v] = "broken"]
  /\ UNCHANGED <<vars, next, muted>>

\* A step of the run.
RunStep ==
  /\ Next
  /\ muted' = (muted \/ \E w \in Workers : /\ stage[w] = "pubFail"
                                          /\ stage'[w] = "ack"
                                          /\ feed' = feed)
  /\ UNCHANGED <<view, next>>

StreamNext ==
  \/ RunStep
  \/ \E v \in Viewers : Subscribe(v) \/ Forward(v) \/ Disconnect(v)
                          \/ PollRaises(v)

StreamSpec == StreamInit /\ [][StreamNext]_streamVars

\* The generator polls every second for as long as its request is open.
StreamFair == StreamSpec /\ Fairness /\ \A v \in Viewers : WF_view(Forward(v))

-----------------------------------------------------------------------------
\* Every variable keeps its type.
StreamTypeOK ==
  /\ TypeOK
  /\ view \in [Viewers -> {"away", "open", "ended", "broken"}]
  /\ muted \in BOOLEAN
  /\ next \in [Viewers -> 0..Len(feed) + 1]
  /\ \A v \in Viewers : view[v] = "ended" => next[v] \in DOMAIN feed

\* A run_completed is never announced early: for a task delivered once, the row
\* a viewer then fetches is completed, or was cancelled meanwhile by a request
\* that had read an older status.  It can only read failed when the publish the
\* viewer was shown had raised although it was applied (tasks.py then takes its
\* except branch): no other exception turns an announced completion into a
\* failure.
CompletedIsCommitted ==
  \A v \in Viewers :
    view[v] = "ended" /\ Shown(v) = "run_completed" /\ sent = 1
      => \/ row.status \in {"completed", "cancelled"}
         \/ unanswered /\ row.status = "failed"

\* A viewer whose stream began before any terminal event is told of the end,
\* whatever the run does, unless work was given up or the task could not even
\* publish its failure: neither a return, an exception at any other point of
\* the pipeline nor an agent's failure leaves it waiting.
ViewerIsTold ==
  \A v \in Viewers :
    view[v] = "open" /\ feed = <<>> ~> view[v] # "open" \/ lost # {} \/ muted
=============================================================================
