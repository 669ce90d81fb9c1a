----------------------------- MODULE MCConfigSync -----------------------------
(***************************************************************************)
(* ConfigSync for TLC: files, webhooks and requests are alike.             *)
(***************************************************************************)
EXTENDS ConfigSync, TLC

Symmetry == Permutations(Files) \cup Permutations(Webhooks) \cup Permutations(Requests)

===============================================================================
