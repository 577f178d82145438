SPECIFICATION SlowWaitersSpec
CONSTANTS
  a = a
  Inbox = {a}
  Waiter = {w1}
  Accepter = {p1, p2}
  RcptLists <- OneInbox
  TicksPerSecond = 1
  IdsPerTick = 2
  MaxClock = 1
  MaxAccepts = 2
  MaxDeletes = 1
  MaxReadErrors = 1
INVARIANTS TypeOK NoLostWakeup HubHoldsLiveCalls
PROPERTIES KeepsContract WaitersAreAnswered PublishNeverBlocks
