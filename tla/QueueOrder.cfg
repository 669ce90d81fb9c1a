SPECIFICATION Spec

CONSTANTS
  s1 = s1
  EmailSubs = {}
  SlackSubs = {s1}
  Channels = {"none", "slack"}
  Healthy = {s1}
  MaxMsg = 3
  MaxId = 3
  MaxRestarts = 1

INVARIANTS
  NothingLost

PROPERTIES
  DeliveredInOrder
  ImplementsOutbox
