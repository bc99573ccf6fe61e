\* From the connection on: the writer offers and may write before the reader is
\* there, waits are interrupted, both ends close when they like.
CONSTANTS
  BufferSize = 2
  CheckInterval = 1
  FastCheckInterval = 1
  Slack = 0
  MaxBytes = 2
  LoopLimit = 2
  ActiveMax = 0
  WriterOffers = TRUE
  Connected = FALSE
  OffererWaits = FALSE
  Sizes = {1}
  Flushers = {}
  Closers = {"reader", "writer"}
  Crashers = {}
  Interruptible = {"reader", "writer"}
SPECIFICATION Spec
INVARIANTS
  EofOnlyWhenDrained
  SuccessMovesBytes
PROPERTIES
  RingSpec
CHECK_DEADLOCK FALSE
