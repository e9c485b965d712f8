SPECIFICATION Spec
CONSTANTS
  Sessions = {s1, s2}
  Enseignants = {t1, t2}
  Semaines = {1}
  Heures = {h1, h2}
  Ecoles = {e1}
  MaxRequetes = 3
  Workers = {w1, w2}
  NULL = NULL
SYMMETRY Symmetry
INVARIANTS TypeOK OneActivated ReplacedWholly ConfigResolves
CHECK_DEADLOCK FALSE
