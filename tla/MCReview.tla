------------------------------ MODULE MCReview ------------------------------
(* Two runs of one company, two or three reviewers' requests.              *)
EXTENDS Review, TLC

CONSTANTS r1, r2, q1, q2, q3, v1

MCRuns     == {r1, r2}
MCRequests == {q1, q2, q3}
MCVerdicts == {v1}

Symmetry == Permutations(MCRuns) \union Permutations(MCRequests)
=============================================================================
