SPECIFICATION FairSpec

CONSTANTS
  e1 = e1
  s1 = s1
  EmailSubs = {e1}
  SlackSubs = {s1}
  Channels = {"none", "smtp", "slack"}
  Healthy = {s1}
  MaxMsg = 1
  MaxId = 2
  MaxRestarts = 1

INVARIANTS
  TypeOK
  DuplicateOnlyIfRecordLost

PROPERTIES
  DeliveredEventually
