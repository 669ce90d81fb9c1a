------------------------- MODULE MCNotificationQueue -------------------------
(***************************************************************************)
(* NotificationQueue for TLC: receivers of one type are interchangeable    *)
(* when they are all healthy or all not.                                   *)
(***************************************************************************)
EXTENDS NotificationQueue, TLC

Symmetry ==
  Permutations(EmailSubs \cap Healthy) \cup Permutations(EmailSubs \ Healthy)
    \cup Permutations(SlackSubs \cap Healthy) \cup Permutations(SlackSubs \ Healthy)

=============================================================================
