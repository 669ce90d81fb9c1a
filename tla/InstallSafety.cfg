SPECIFICATION Spec

CONSTANTS
  d1 = d1
  d2 = d2
  r1 = r1
  r2 = r2
  l1 = l1
  Domains = {d1, d2}
  Requests = {r1, r2}
  Loops = {l1}
  MaxAdmins = 1

SYMMETRY Symmetry

INVARIANTS
  NobodyLockedOut
  MemoryFollowsDatabase
  LiveDomainWasProved
