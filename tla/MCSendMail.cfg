SPECIFICATION Spec
CONSTANTS
  Sessions = {smtp}
  Appends = {imap}
  Mails <- MCMails
  Addrs <- MCAddrs
  Internal <- MCInternal
  Shape <- MCShape
  Nil = Nil
  MaxDrafts = 2
CHECK_DEADLOCK FALSE
INVARIANTS
  TypeOK
  AcceptedIsWhole
  OnlyNamed
  TwiceOnlyIfUnanswered
  OneReader
