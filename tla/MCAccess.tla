------------------------------- MODULE MCAccess -------------------------------
(* Access with interchangeable users and requests.                           *)
EXTENDS Access, TLC

Symmetry == Permutations(Users) \union Permutations(Requests)
=============================================================================
