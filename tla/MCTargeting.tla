---------------------------- MODULE MCTargeting -----------------------------
(* A demonstration company that meets every rule, one that misses one, and *)
(* a custom domain of which only the name is known.                        *)
EXTENDS Targeting, TLC

CONSTANTS demo, miss, custom, p1, e1, e2

All == {"name", "description", "headcount", "funding_stage", "industry",
        "hq_country", "annual_revenue_usd", "tech_stack"}

MCCompanies == {demo, miss, custom}
MCSeed   == (demo :> All) @@ (miss :> All) @@ (custom :> {"name"})
MCGood   == (demo :> All) @@ (miss :> All \ {"funding_stage"})
              @@ (custom :> All)
MCPeople == (demo :> 1) @@ (miss :> 1) @@ (custom :> 0)

MCFindings == {{"headcount", "description"}}
MCRuleSets == {{}, {"headcount", "funding_stages", "industries"}}
MCUpdates  == {[rules |-> Keep, active |-> "on"],
               [rules |-> Keep, active |-> "off"],
               [rules |-> {"headcount"}, active |-> "keep"]}
Plainly(keys) == [keys |-> keys, nested |-> {}, given |-> 0]
\* The last: 1.5 is too much beside rules that are all met, but not beside
\* those of which one is missed.
MCExtras   == {Plainly({}), Plainly({"funding_stage"}),
               Plainly({"funding_stages", "hq_countries", "description"}),
               [keys   |-> {"industry", "icp_rules", "semantic_score"},
                nested |-> {"headcount", "funding_stages"}, given |-> 15000]}
MCSimilarities == {5000}
MCGrowths      == {0, 12}

MCPasses   == {p1}
MCEditors  == {e1, e2}

Symmetry == Permutations(MCEditors)
=============================================================================
