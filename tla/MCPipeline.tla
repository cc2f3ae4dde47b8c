----------------------------- MODULE MCPipeline -----------------------------
(***************************************************************************)
(* Instances of Pipeline for TLC.  Two feeds list a common URL, u1; the    *)
(* item u2 of the first feed has a blank title.                            *)
(***************************************************************************)
EXTENDS Pipeline, TLC

CONSTANTS f1, f2, u1, u2, r1, r2

MCNameRank  == (f1 :> 1) @@ (f2 :> 2)
SharedItems == (f1 :> <<u1>>) @@ (f2 :> <<u2, u1>>)
OwnItems    == (f1 :> <<u1>>) @@ (f2 :> <<u2>>)
MCSymmetry == Permutations({r1, r2})
=============================================================================
