\* Connected; only the writer closes, with xen_shm_pipe_free.
CONSTANTS
  BufferSize = 2
  CheckInterval = 1
  FastCheckInterval = 1
  Slack = 0
  MaxBytes = 3
  LoopLimit = 2
  ActiveMax = 1
  WriterOffers = FALSE
  Connected = TRUE
  OffererWaits = TRUE
  Sizes = {1}
  Flushers = {}
  Closers = {"writer"}
  Crashers = {}
  Interruptible = {}
SPECIFICATION Spec
INVARIANTS
  GracefulCloseIsEof
CHECK_DEADLOCK FALSE
