SPECIFICATION FairSpec
CHECK_DEADLOCK FALSE
CONSTANTS
  Subscribers = {s1, s2}
  MaxReceivers = 2
  MaxHead = 2
INVARIANTS
  NoSendOnClosed
  OneReceiver
  ServedUnlessLate
PROPERTIES
  ImplementsFeed
  PollTaken
  LeavingEnds

