SPECIFICATION TerrainSpec
CONSTANTS
  a1 = a1
  a2 = a2
  b = b
  Enseignants = {t1, t2}
  Superviseurs = {s1}
  Eleves = {e1}
  Ecoles = {a1, a2, b}
  Nom <- Noms
  Textes = {}
  MaxRequetes = 3
  Reponses = {m1}
  Admins = {root}
  Rapports = {r1}
  Libelles = {l1}
  Remarques = {q1}
  Documents = {d1, d2}
  MaxTerrain = 3
  Workers = {w1, w2}
  NULL = NULL
SYMMETRY Symmetry
INVARIANTS TypesOK FollowsAssigned AnswersCoherent ListedCanBeDownloaded
PROPERTIES BatchStoredWhole
CHECK_DEADLOCK FALSE
