\* One thread a side, every kind of request, interrupts, the kernel's fairness.
CONSTANTS
  o1 = o1
  r1 = r1
  Threads <- MCTwo
  SideOf <- MCSideOf
  Requests <- MCRequests
  Interruptible <- MCTwo
SPECIFICATION FairHistorySpec
INVARIANTS
  TypeOK
  NoLostWakeup
  MutexExclusive
  MutexBalanced
  InitMeansConnected
  SignalKept
PROPERTIES
  CloseReleasesWaiters
  HandshakeCompletes
CHECK_DEADLOCK FALSE
