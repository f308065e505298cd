SPECIFICATION Spec
CONSTANTS
  v1 = v1
  v2 = v2
  ann = ann
  mia = mia
  rex = rex
  pat = pat
  q1 = q1
  q2 = q2
  q3 = q3
  r1 = r1
  r2 = r2
  n1 = n1
  n2 = n2
  b1 = b1
  b2 = b2
  None = None
  Version = {v1}
  User = {ann}
  Request = {q1, q2, q3}
  RunId = {r1, r2}
  Notes = {n1}
  Bundle = {b1}
  Author <- MCAuthor
  Maintainer = {ann}
  Reviewer = {}
  Admin = {}
  OwnerTeam = {ann}
  Installer = {}
  ValidationMode = "automated"
  TTL = 2
  MaxTime = 3
CHECK_DEADLOCK FALSE
SYMMETRY MCSymmetry
INVARIANTS
  TypeOK
  OneOpenRun
  AttemptsTellTheRun
  OneOwner
PROPERTIES
  OnlyLastAttemptCloses
  NoLiveClaimStolen
