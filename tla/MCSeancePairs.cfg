SPECIFICATION LazyCronSpec
CONSTANTS
  NULL = NULL
  Teachers = {t1}
  SeanceIds = {s1, s2}
  p1 = p1
  g1 = g1
  Sessions = {p1}
  Segments = {g1}
  SessionOf <- MCSessionOf
  StartSegments = {NULL}
  Workers = {w1, w2}
  AutoCloseAfter = 0
  LastStart = 0
  MaxTime = 1
  MaxDelay = 0
  MaxPauses = 0
PROPERTIES ChecksHoldIfSerial ForgottenSeancesEnd
CHECK_DEADLOCK FALSE
