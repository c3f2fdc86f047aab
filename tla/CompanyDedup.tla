---------------------------- MODULE CompanyDedup ----------------------------
(***************************************************************************)
(* What the memory layer promises about skipping ONE company: knowledge    *)
(* that a pass has worked on it only comes from passes that work; in Neo4j *)
(* it is durable and every later decision, of any tenant, is to skip; in   *)
(* Redis alone it may be forgotten.  CompanyMemory implements it.          *)
(***************************************************************************)
CONSTANTS Passes

VARIABLES
  known,    (* "none", "cached" (only Redis knows) or "durable" (Neo4j)    *)
  verdict   (* verdict[p]: "over", "checking", "work" or "skip"            *)

Init == known = "none" /\ verdict = [p \in Passes |-> "over"]

Turn(p, v) == verdict' = [verdict EXCEPT ![p] = v]

\* A pass begins; a forced one works without a decision.
Begin(p) ==
  /\ verdict[p] \in {"over", "skip"}
  /\ Turn(p, "checking") \/ Turn(p, "work")
  /\ UNCHANGED known

DecideWork(p) ==
  /\ verdict[p] = "checking" /\ known # "durable"
  /\ Turn(p, "work") /\ UNCHANGED known

DecideSkip(p) ==
  /\ verdict[p] = "checking" /\ known # "none"
  /\ Turn(p, "skip") /\ UNCHANGED known

End(p) == verdict[p] # "over" /\ Turn(p, "over") /\ UNCHANGED known

\* Only the write of a working pass makes the company known.
Learn(p) ==
  /\ verdict[p] = "work"
  /\ known' \in IF known = "none" THEN {"cached", "durable"} ELSE {"durable"}
  /\ UNCHANGED verdict

Forget == known = "cached" /\ known' = "none" /\ UNCHANGED verdict

Next == \/ \E p \in Passes : \/ Begin(p) \/ DecideWork(p) \/ DecideSkip(p)
                             \/ End(p) \/ Learn(p)
        \/ Forget

Spec == Init /\ [][Next]_<<known, verdict>>
=============================================================================
