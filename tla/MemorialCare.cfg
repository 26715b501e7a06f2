SPECIFICATION Spec
CONSTANTS
  founder = founder
  heir = heir
  Anonymous = Anonymous
  g1 = g1
  g2 = g2
  n1 = n1
  n2 = n2
  r1 = r1
  r2 = r2
  v1 = v1
  Account = {founder, heir}
  Grant = {g1, g2}
  Nomination = {n1, n2}
  Request = {r1, r2}
  Visit = {v1}
SYMMETRY Ids
INVARIANTS
  Sound
  PendingKeepsArchived
  RequestsFollowOwner
  HistoryTruthful
CHECK_DEADLOCK FALSE
