\* Connected; either process may die anywhere, even inside a copy.
CONSTANTS
  BufferSize = 2
  CheckInterval = 1
  FastCheckInterval = 1
  Slack = 0
  MaxBytes = 2
  LoopLimit = 1
  ActiveMax = 0
  WriterOffers = FALSE
  Connected = TRUE
  OffererWaits = TRUE
  Sizes = {1}
  Flushers = {}
  Closers = {}
  Crashers = {"reader", "writer"}
  Interruptible = {}
SPECIFICATION FairSpec
PROPERTIES
  NoHangAfterPeer
CHECK_DEADLOCK FALSE
