SPECIFICATION PageSpec
CONSTANTS
  File <- MCFile
  Selection <- MCSelection
  DatedSource = {"usage"}
  MAX_RECORDS = 3
  MinRecords = 2
  MaxChanges = 2
INVARIANTS
  SessionAgrees
  NewestKept
  CountsAgree

  
CHECK_DEADLOCK FALSE
