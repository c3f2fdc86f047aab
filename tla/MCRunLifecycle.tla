--------------------------- MODULE MCRunLifecycle ---------------------------
(***************************************************************************)
(* Model values for TLC.  Workers and requests are interchangeable: every  *)
(* action and property quantifies over them and none compares them, so     *)
(* their permutations are symmetries; they are used in safety runs only.   *)
(***************************************************************************)
EXTENDS RunLifecycle, TLC

CONSTANTS w1, w2, c1, c2

MCWorkers == {w1, w2}
MCOneWorker == {w1}
MCClients == {c1}
MCTwoClients == {c1, c2}
MCRuns == {"runs"}
MCStudio == {"studio"}
MCBoth == {"runs", "studio"}

MCNoFaults == {}
MCAll == {"crash", "restart", "visibility", "flush", "broker", "apiDies",
          "raise"}

Symmetry == Permutations(MCWorkers) \union Permutations(MCTwoClients)
=============================================================================
