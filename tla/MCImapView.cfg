SPECIFICATION ViewSpec
CONSTANTS
  Labels = {inbox, trash}
  Opened = {inbox}
  Msgs = {1, 2}
  AtLogin = {{}, {2}, {1, 2}}
  Sessions = {c1}
  Unknown = Unknown
  Nil = Nil
  MaxUid = 4
  MaxEpoch = 3
  PageSize = 1
  MaxChanges = 2
  MaxRefresh = 1
CHECK_DEADLOCK FALSE
INVARIANTS
  ViewFollows
PROPERTIES
  
  MoveNeverLoses
