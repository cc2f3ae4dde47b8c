----------------------------- MODULE MCFeedAdmin -----------------------------
(***************************************************************************)
(* The instance of FeedAdmin for TLC.                                      *)
(***************************************************************************)
EXTENDS FeedAdmin, TLC

CONSTANTS a1, a2, a3, i1, i2, i3, u1, u2

MCSymmetry == Permutations({a1, a2, a3}) \union Permutations({i1, i2, i3})
                  \union Permutations({u1, u2})
=============================================================================
