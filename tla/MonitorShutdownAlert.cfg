SPECIFICATION Spec

CONSTANTS
  MaxId = 1
  MaxGen = 1
  Workers = {w1}
  Attempts = 1
  SmtpChannels = {mail1}
  SlackChannels = {}
  Outcomes = {"ok", "refused", "canceled"}
  MaxRestarts = 0

INVARIANTS
  DownMeansTargetFailed

CHECK_DEADLOCK FALSE
