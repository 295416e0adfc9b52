------------------------------- MODULE MCChat -------------------------------
(***************************************************************************)
(* The chat of two users for TLC.                                          *)
(***************************************************************************)
EXTENDS Chat, TLC

Symmetry == Permutations(Users) \union Permutations(Calls)
=============================================================================
