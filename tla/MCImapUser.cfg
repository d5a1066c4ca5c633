SPECIFICATION FairSpec
CONSTANTS
  Sessions = {c1, c2}
  Names = {n1, n2}
  Nobody = Nobody
  Events = Events
  MaxPollers = 1
  MaxNotifiers = 1
CHECK_DEADLOCK FALSE
INVARIANTS
  TypeOK
  SessionsServed
PROPERTIES
  CommandsEnd
  PollReturns
