SPECIFICATION Spec

CONSTANTS
  e1 = e1
  e2 = e2
  t1 = t1
  t2 = t2
  r1 = r1
  r2 = r2
  Emails = {e1, e2}
  Links = {t1, t2}
  Requests = {r1, r2}
  Settings = {"smtp", "postmark"}

INVARIANTS
  TypeOK
  OneRecentLink
  SubscribedConsented
  ConfirmedStaysActive

SYMMETRY Symmetry
