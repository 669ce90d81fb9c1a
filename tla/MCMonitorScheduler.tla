------------------------- MODULE MCMonitorScheduler -------------------------
(***************************************************************************)
(* MonitorScheduler for TLC.  Check goroutines are interchangeable; so are *)
(* channels of one type.  Monitor ids are not: rowids are ordered.         *)
(***************************************************************************)
EXTENDS MonitorScheduler, TLC

Symmetry ==
  Permutations(Workers) \cup Permutations(SmtpChannels) \cup Permutations(SlackChannels)

=============================================================================
