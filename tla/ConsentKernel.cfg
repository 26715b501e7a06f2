SPECIFICATION Spec
CONSTANTS
  subj = subj
  heir = heir
  adm = adm
  svc = svc
  p1 = p1
  p2 = p2
  AllNamed = AllNamed
  Actor <- MCActor
  Admin = {adm}
  Human <- MCHuman
  Emailed = {heir}
  GrantId = {1, 2}
  Proc <- MCProc
  Request <- MCRequest
  Offer <- MCOffer
  Successor = {heir}
  Priority = {1, 2}
  MaxRequests = 4
SYMMETRY Threads
INVARIANTS
  LedgerAgrees
  SuccessorsUnambiguous
  StrangersLearnNothing
  RightsOutliveConsent
  OneSubject
