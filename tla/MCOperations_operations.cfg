CONSTANTS
  None = None
  Parts = {"login", "dispatch", "health", "locking", "migrations", "process", "leaving", "target", "times"}
SPECIFICATION FairSpec
CHECK_DEADLOCK FALSE
INVARIANTS
  ToldIsSo
  RunsTellTheTruth
  RowsAgree
PROPERTIES
  ToldForCause
  EverythingEnds
