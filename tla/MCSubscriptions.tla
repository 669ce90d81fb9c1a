--------------------------- MODULE MCSubscriptions ---------------------------
(* Subscriptions with interchangeable addresses, links and requests. *)
EXTENDS Subscriptions, TLC

Symmetry == Permutations(Emails) \cup Permutations(Links) \cup Permutations(Requests)

=============================================================================
