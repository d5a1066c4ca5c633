SPECIFICATION Spec
CONSTANTS
  Users = {alice, bob}
  Clients = {c1, c2}
  Threads = {t1, t2}
  MaxToken = 3
SYMMETRY Symmetry
CHECK_DEADLOCK FALSE
INVARIANTS
  TypeOK
  SavedTokenWorks
  PrintedPasswordOpens
  ClientTokenWorks
  ClientAuthorized
  EmptyOnlyWhileSaving
