SPECIFICATION Spec
CONSTANTS
  subj = subj
  heir = heir
  adm = adm
  svc = svc
  p1 = p1
  p2 = p2
  AllNamed = AllNamed
  Actor <- MCActor
  Admin = {adm}
  Human <- MCHuman
  Emailed = {heir}
  GrantId = {1}
  Proc <- MCProc
  Request <- MCLongRequest
  Offer <- MCLongOffer
  Successor = {heir}
  Priority = {1}
  MaxRequests = 7
SYMMETRY Threads
INVARIANTS
  NoUseAfterRevocation
  Safe
  UseTokenBacked
PROPERTY
  KeepsPromise
