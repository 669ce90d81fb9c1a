SPECIFICATION Spec

CONSTANTS
  w1 = w1
  w2 = w2
  slack1 = slack1
  MaxId = 1
  MaxGen = 2
  Workers = {w1, w2}
  Attempts = 1
  SmtpChannels = {}
  SlackChannels = {slack1}
  Outcomes = {"ok", "refused", "canceled"}
  MaxRestarts = 1

INVARIANTS
  TypeOK
  NoOverlap
  NoLeakedCheckout
  AlertsReflectLatestLog
  DrainedBeforeClose

SYMMETRY Symmetry

CHECK_DEADLOCK FALSE
