\* Connected, under fairness; the writer writes, flushes and may stop for ever.
CONSTANTS
  BufferSize = 2
  CheckInterval = 1
  FastCheckInterval = 1
  Slack = 0
  MaxBytes = 2
  LoopLimit = 1
  ActiveMax = 0
  WriterOffers = FALSE
  Connected = TRUE
  OffererWaits = TRUE
  Sizes = {1}
  Flushers = {"writer"}
  Closers = {}
  Crashers = {}
  Interruptible = {}
SPECIFICATION FairSpec
INVARIANTS
  WaitingOnlyInside
PROPERTIES
  WriteReturns
  FlushDelivers
CHECK_DEADLOCK FALSE
