SPECIFICATION Spec
CONSTANTS
  Export = {"export"}
  Second = 2
  TTL = 2
  MAX_TOKEN_TTL_SECONDS = 3
  CLOCK_SKEW_SECONDS = 1
  UrlTTL = 2
  MaxChanges = 2
  MaxTime = 11
INVARIANTS
  ArchiveTrue
  LinksAudited
  LinksOpen
  TokensHonoured
CHECK_DEADLOCK FALSE
