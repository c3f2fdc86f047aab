---------------------------- MODULE CompanyPass -----------------------------
(***************************************************************************)
(* What RunLifecycle assumes of one execution of the agent graph           *)
(* (its stage "graph"): the only write to the agent_runs row is the        *)
(* summary's "completed"; agents may fail, each failure being announced as *)
(* a run_failed event, without ending the pass; and the pass ends either   *)
(* by returning, whatever it did, or by an exception, which leaves the row *)
(* failed.  PlannerGraph implements it.                                    *)
(***************************************************************************)
EXTENDS Naturals

VARIABLES
  phase,     (* "graph", then "returned" or "raised"                       *)
  row,       (* status of the agent_runs row                               *)
  failures   (* run_failed events published by agents                      *)

passVars == <<phase, row, failures>>

Init == phase = "graph" /\ row = "running" /\ failures = 0

\* One node of the graph: possibly the summary's write, possibly a failure.
Node ==
  /\ phase = "graph"
  /\ row' \in {row, "completed"}
  /\ failures' \in {failures, failures + 1}
  /\ UNCHANGED phase

Return == phase = "graph" /\ phase' = "returned" /\ UNCHANGED <<row, failures>>

RaiseOut ==
  /\ phase = "graph"
  /\ phase' = "raised"
  /\ row' = "failed"
  /\ UNCHANGED failures

Next == Node \/ Return \/ RaiseOut

Spec == Init /\ [][Next]_passVars /\ WF_passVars(Return \/ RaiseOut)
=============================================================================
