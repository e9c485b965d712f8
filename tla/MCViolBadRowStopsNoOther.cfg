SPECIFICATION DirectorySpec
CONSTANTS
  n1 = n1
  n2 = n2
  k1 = k1
  a1 = a1
  a2 = a2
  b1 = b1
  t1 = t1
  t2 = t2
  t3 = t3
  c1 = c1
  c2 = c2
  p1 = p1
  p2 = p2
  ce1 = ce1
  Noms = {n1, n2}
  Codes = {k1}
  Personnes = {a1, a2, b1}
  Cle <- MCCle
  Telephones = {t1, t2, t3}
  Normal <- MCNormal
  Classes = {c1, c2}
  Eleves = {p1, p2}
  SansPrenom = {p2}
  CodesEleve = {ce1}
  Lignes <- MCLignes
  MaxLignes = 2
  MaxEcoles = 2
  MaxComptes = 3
  MaxEtapes = 2
  PROVISOIRE = PROVISOIRE
  NULL = NULL

PROPERTY BadRowStopsNoOther
CHECK_DEADLOCK FALSE
