SPECIFICATION Spec
CONSTANTS
  Contacts = {1, 2}
  Requests = {r1, r2}
  MaxLog = 3
INVARIANTS
  TypeOK
  TotalExact
  CacheFresh
  CompleteIsExact
CHECK_DEADLOCK FALSE
