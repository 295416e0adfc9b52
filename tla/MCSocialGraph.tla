---------------------------- MODULE MCSocialGraph ----------------------------
(***************************************************************************)
(* Follows and blocks alone, for the property that fails.                  *)
(***************************************************************************)
EXTENDS SocialGraph, TLC

Symmetry == Permutations(Users) \union Permutations(Calls)
=============================================================================
