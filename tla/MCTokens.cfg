SPECIFICATION Spec
CONSTANTS
  Comptes = {c1}
  Workers = {w1, w2}
  NULL = NULL
  Forces = {TRUE}
  PerSecond = 2
  AccessLife = 1
  RefreshLife = 2
  LastInstant = 2
  MaxMdp = 1
SYMMETRY Symmetry
INVARIANTS TypeOK NoSpuriousRefusal LoggedOutRefused
CHECK_DEADLOCK FALSE
