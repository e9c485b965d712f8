CONSTANTS
  e1 = e1
  e2 = e2
  c1 = c1
  c2 = c2
  s1 = s1
  q1 = q1
  wolof = wolof
  pulaar = pulaar
  Eleves = {e1, e2}
  Classes = {c1, c2}
  Classe <- MCClasse
  Homonymes <- MCHomonymes
  Sujets = {q1}
  Tirages = {t1}
  Superviseurs = {s1}
  Covers <- MCCovers
  Langues = {wolof, pulaar}
  LangueDe <- MCLangueDe
  NbParClasse = 1
  Resultats = {reussi, pas_reussi}
  Presences = {TRUE, FALSE}
  Workers = {w1, w2}
  NULL = NULL
  LastDay = 1
SYMMETRY Symmetry
SPECIFICATION Spec
INVARIANTS TypeOK PagesAgree ShownDayInHistory RecordingStored
PROPERTIES PastDaysKept
CHECK_DEADLOCK FALSE
