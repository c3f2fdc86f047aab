----------------------------- MODULE MCWebMonitor -----------------------------
(***************************************************************************)
(* Model values for TLC.  The lists of sources have a feed and a page with *)
(* a common article, an invalid and an unregistered source, each alone or  *)
(* beside a good one.                                                      *)
(***************************************************************************)
EXTENDS WebMonitor, TLC

CONSTANTS e1, e2, a, b

MCExecutions == {e1, e2}
MCArticles   == {a, b}

Of(type, valid) == [type |-> type, valid |-> valid, url |-> a]

MCCollections ==
  {<<Of("rss", TRUE), Of("website", TRUE)>>,
   <<Of("firecrawl", TRUE), Of("linkedin", TRUE)>>,
   <<Of("search", TRUE)>>, <<Of("rss", FALSE)>>}

Agent(memory, slots, registry) ==
  [memory |-> memory, slots |-> slots, registry |-> registry]

MCSetups ==
  {Agent("none", 1, TRUE), Agent("local", 2, TRUE),
   Agent("remote", 2, TRUE), Agent("local", 1, FALSE)}

MCBatches == {<<b, a>>}

Symmetry == Permutations(MCExecutions)
=============================================================================
