---------------------------- MODULE MCInstallation ----------------------------
(***************************************************************************)
(* Installation for TLC: domains, requests and loops are alike.  *)
(***************************************************************************)
EXTENDS Installation, TLC

Symmetry == Permutations(Domains) \cup Permutations(Requests) \cup Permutations(Loops)

===============================================================================
