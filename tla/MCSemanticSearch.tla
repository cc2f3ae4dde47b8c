-------------------------- MODULE MCSemanticSearch --------------------------
(***************************************************************************)
(* The instance of SemanticSearch for TLC: three articles, two of them at  *)
(* the same distance of a query, and limits 1 and 2 for 5 and 50.          *)
(***************************************************************************)
EXTENDS SemanticSearch, TLC

CONSTANTS a1, a2, a3, flash, other

MCPlace == (a1 :> 0) @@ (a2 :> 1) @@ (a3 :> 3)
MCRawLimits == {-1, 0, 1, 3}
=============================================================================
