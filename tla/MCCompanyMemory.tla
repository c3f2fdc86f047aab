-------------------------- MODULE MCCompanyMemory ---------------------------
(***************************************************************************)
(* Model values for TLC.  Passes are interchangeable, and so are tenants.  *)
(* No step reads what Qdrant or Postgres hold, so one of the two shows     *)
(* what either does and quarters the interleavings.                        *)
(***************************************************************************)
EXTENDS CompanyMemory, TLC

CONSTANTS p1, p2, t1, t2

MCPasses == {p1, p2}
MCTenants == {t1, t2}
MCOthers == {"qdrant", "postgres"}
MCOneOther == {"qdrant"}

Symmetry == Permutations(MCPasses) \union Permutations(MCTenants)
=============================================================================
