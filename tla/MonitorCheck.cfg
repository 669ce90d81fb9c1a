SPECIFICATION FairSpec

CONSTANTS
  w1 = w1
  mail1 = mail1
  mail2 = mail2
  MaxId = 1
  MaxGen = 1
  Workers = {w1}
  Attempts = 2
  SmtpChannels = {mail1, mail2}
  SlackChannels = {}
  Outcomes = {"badRequest", "refused", "timeout", "canceled", "bodyCut", "bad", "ok"}
  MaxRestarts = 0

INVARIANTS
  RowsConsistent
  MailedAgainOnlyUnheard

PROPERTIES
  CheckedAgain
  ShutdownCompletes

CHECK_DEADLOCK FALSE
