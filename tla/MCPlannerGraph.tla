--------------------------- MODULE MCPlannerGraph ---------------------------
(***************************************************************************)
(* Selections for TLC: every list of up to three ids drawn from an alias,  *)
(* an agent with and one without side effects, both validation ids, the    *)
(* summary, a custom agent and an unknown id, plus the six default agents  *)
(* as the Studio orders them under its own ids.                            *)
(***************************************************************************)
EXTENDS PlannerGraph

Ids == {"company_icp_agent", "icp_scorer", "contact_enrichment",
        "validation", "validation_agent", "summary", "custom", "ghost"}

StudioChain == <<"trigger_monitor", "company_icp_agent", "contact_enrichment",
                 "persona_finder", "validation_agent", "summary_agent">>

MCSelections == SeqOf(Ids, 3) \union {StudioChain, DefaultSequence}
MCCustom == {"custom"}
=============================================================================
