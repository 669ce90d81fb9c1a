SPECIFICATION Spec

CONSTANTS
  a1 = a1
  a2 = a2
  a3 = a3
  a4 = a4
  s1 = s1
  s2 = s2
  Alerts = {a1, a2, a3, a4}
  Services = {s1, s2}

INVARIANTS
  TypeOK
  NeverUnderstated
  StaleOnlyAfterDelete
  LoopsAreRight

SYMMETRY Symmetry
