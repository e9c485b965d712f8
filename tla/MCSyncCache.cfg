SPECIFICATION FairSpec
CONSTANTS
  NULL = NULL
  Teachers = {u1}
  CommitFirst = {planning}
  InvalidateFirst = {questions}
  Unannounced = {config}
  Builders = {b1, b2}
  Writers = {a1}
  TTL = 2
  MaxBuild = 1
  MaxChanges = 1
INVARIANTS TypeOK BoundedStaleness
PROPERTIES FreshIfUndisturbed EventuallyFresh
