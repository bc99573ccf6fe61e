\* From the connection on: the writer flushes whenever it likes, also before the
\* reader has had its initial signal; the reader offers, and waits are interrupted.
CONSTANTS
  BufferSize = 2
  CheckInterval = 1
  FastCheckInterval = 1
  Slack = 0
  MaxBytes = 2
  LoopLimit = 1
  ActiveMax = 0
  WriterOffers = FALSE
  Connected = FALSE
  OffererWaits = FALSE
  Sizes = {1}
  Flushers = {"writer"}
  Closers = {}
  Crashers = {}
  Interruptible = {"reader", "writer"}
SPECIFICATION Spec
INVARIANTS
  TypeOK
  NoMutualSleep
  FlushReaches
PROPERTIES
  StreamSpec
CHECK_DEADLOCK FALSE
