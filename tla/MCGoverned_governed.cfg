CONSTANTS
  q1 = q1
  q2 = q2
  r1 = r1
  r2 = r2
  s1 = s1
  s2 = s2
  c1 = c1
  c2 = c2
  None = None
  Parts = {"manual", "notices", "memory", "retries", "reader", "roles", "retried", "in memory", "logins", "told"}
SPECIFICATION Spec
SYMMETRY Symmetric
CHECK_DEADLOCK FALSE
INVARIANTS
  ReleasedAsReviewed
  NoticesHaveCause
  PeopleHaveWhatTheyWereGiven
PROPERTIES
  NoticesReachReaders
  ImplementsPromises
  StepsKeepPromises
