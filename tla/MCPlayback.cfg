CONSTANTS
  c1 = c1
  Callers = {c1}
  BufferFrames = 1
  MaxOpens = 2
SPECIFICATION FairSpec
INVARIANTS TypeOK FilesAccounted OrdersObeyed
PROPERTIES FailedPlayHeals
CHECK_DEADLOCK FALSE
