CONSTANTS
  Images = {31, 41}
  MaxOps = 3
SPECIFICATION Spec
INVARIANTS ServedSchema VersionTells
PROPERTIES Deployed
CHECK_DEADLOCK FALSE
