CONSTANTS
  t1 = t1
  t2 = t2
  Threads = {t1, t2}
  Size = 3
  MaxOffers = 7
SPECIFICATION FairSpec
INVARIANTS TypeOK LossLedger
PROPERTIES NothingAfterDestroy LossyQueueImplemented EventsMove
CHECK_DEADLOCK FALSE
