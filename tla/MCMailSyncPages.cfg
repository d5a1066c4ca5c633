SPECIFICATION SyncSpec
CONSTANTS
  Labels = {inbox}
  Msgs = {1, 2}
  MaxUid = 3
  MaxEpoch = 3
  PageSize = 1
  Nil = Nil
  MaxLog = 3
  MaxRenewals = 2
  MaxErrors = 1
  EventForms = {"both"}
CHECK_DEADLOCK FALSE
INVARIANTS
  EntryHasRecord
  Convergence
