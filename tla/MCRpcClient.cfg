CONSTANTS
  c1 = c1  c2 = c2  c3 = c3
  Calls <- MCCalls
  Async <- MCAsync
  DoneCap = 1
  NoCall = NoCall
  Free = Free
  Receiver = Receiver
SPECIFICATION FairSpec
INVARIANTS TypeOK OneDelivery ReplyMatches
PROPERTIES CancelledIsLeftAlone OneOutcome EveryCallSettles LossReleasesCalls
