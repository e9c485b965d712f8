SPECIFICATION Spec
CONSTANTS
  s1 = s1
  s2 = s2
  t1 = t1
  c1 = c1
  c2 = c2
  Eleves = {e1, e2, e3}
  p1 = p1
  p2 = p2
  Personnes = {p1, p2}
  SansPrenom = {p2}
  Ecoles = {s1}
  Etablissement <- MCEtablissement
  Classes = {c1, c2}
  Norme <- MCNorme
  Tuteurs = {t1}
  Ecole <- MCEcole
  ClassesDe <- MCClassesDe
  Lignes <- MCLignes
  Editions <- MCEditions
  MaxBulk = 1
  MaxLignes = 1
  Workers = {w1, w2}
  NULL = NULL
SYMMETRY Symmetry
INVARIANTS TypeOK TakenOnceUnlessCrossed
PROPERTIES SwapSeen
CHECK_DEADLOCK FALSE
