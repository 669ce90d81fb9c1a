SPECIFICATION Spec

CONSTANTS
  r1 = r1
  r2 = r2
  k1 = k1
  s1 = s1
  s2 = s2
  t1 = t1
  Requests = {r1, r2}
  Clients = {k1}
  Sessions = {s1, s2}
  CrossTokens = {t1}
  Limit = 2
  MaxId = 2
  MaxAcct = 3
  MaxPw = 2
  MaxInv = 2

SYMMETRY Symmetry

INVARIANTS
  TypeOK
  FailuresBounded
  SessionOpensOwnAccount
  PasswordChangeEndsSessions
  UsedOnce
  SomebodyRemains
