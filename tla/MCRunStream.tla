---------------------------- MODULE MCRunStream -----------------------------
(***************************************************************************)
(* Model values for TLC: a run with one viewer.                            *)
(***************************************************************************)
EXTENDS RunStream

CONSTANTS w1, w2, c1, v1

MCWorkers == {w1, w2}
MCClients == {c1}
MCViewers == {v1}
MCRuns == {"runs"}
MCLiveFaults == {"raise", "broker", "apiDies"}
=============================================================================
