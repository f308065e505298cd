SPECIFICATION Spec
CONSTANTS
  s1 = s1
  s2 = s2
  s3 = s3
  e1 = e1
  e2 = e2
  None = None
  Script = {s1, s2, s3}
  Earlier = {e1, e2}
  Backlog <- MCBacklog
  Malformed = {}
  LockKind = "directory"
  Patience = 2
  MaxAttempts = 3
  Prompt = TRUE
  MaxKilled = 1
CHECK_DEADLOCK FALSE
SYMMETRY MCSymmetry
INVARIANTS
  OneWriter
