SPECIFICATION FairSpec

CONSTANTS
  e1 = e1
  t1 = t1
  r1 = r1
  r2 = r2
  Emails = {e1}
  Links = {t1}
  Requests = {r1, r2}
  Settings = {"postmark"}

PROPERTIES
  RequestsAnswered
