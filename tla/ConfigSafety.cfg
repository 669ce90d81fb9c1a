SPECIFICATION Spec

CONSTANTS
  f1 = f1
  f2 = f2
  f3 = f3
  h1 = h1
  h2 = h2
  r1 = r1
  r2 = r2
  Files = {f1, f2, f3}
  Webhooks = {h1, h2}
  Requests = {r1, r2}
  MaxDeliveries = 2

SYMMETRY Symmetry

INVARIANTS
  TablesMatchFile
  TablesMatchSHA
  DeliveriesConverge
