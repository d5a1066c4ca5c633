SPECIFICATION SyncSpec
CONSTANTS
  Labels = {inbox, archive}
  Msgs = {1}
  MaxUid = 4
  MaxEpoch = 1
  PageSize = 1
  Nil = Nil
  MaxLog = 3
  MaxRenewals = 1
  MaxErrors = 1
  EventForms = {"labels", "delta"}
SYMMETRY Symmetry
CHECK_DEADLOCK FALSE
INVARIANTS
  Convergence
  SyncTypeOK
