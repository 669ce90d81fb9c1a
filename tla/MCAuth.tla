-------------------------------- MODULE MCAuth --------------------------------
(***************************************************************************)
(* Auth for TLC: requests, session tokens and cross-domain tokens are      *)
(* interchangeable.                                                        *)
(***************************************************************************)
EXTENDS Auth, TLC

Symmetry == Permutations(Requests) \cup Permutations(Sessions) \cup Permutations(CrossTokens)

===============================================================================
