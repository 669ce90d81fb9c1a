----------------------------- MODULE MCAlertBoard -----------------------------
(* AlertBoard with interchangeable alerts and services. *)
EXTENDS AlertBoard, TLC

Symmetry == Permutations(Alerts) \cup Permutations(Services)

=============================================================================
