---------------------------- MODULE MCAuthSessions ----------------------------
(* AuthSessions with interchangeable tokens, reset codes and requests.       *)
EXTENDS AuthSessions, TLC

Symmetry == Permutations(Tokens) \cup Permutations(ResetCodes) \cup Permutations(Calls)
=============================================================================
