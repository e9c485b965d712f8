SPECIFICATION Spec
CONSTANTS
  NULL = NULL
  Teachers = {t1}
  SeanceIds = {s1}
  p1 = p1
  g1 = g1
  Sessions = {p1}
  Segments = {g1}
  SessionOf <- MCSessionOf
  StartSegments = {NULL}
  Workers = {w1,w2}
  AutoCloseAfter = 1
  LastStart = 0
  MaxTime = 2
  MaxDelay = 1
  MaxPauses = 2
CHECK_DEADLOCK FALSE
PROPERTY ResumeClosesThePause
