\* A buffer of four slots, two rounds of it, checks every other byte.
CONSTANTS
  BufferSize = 4
  CheckInterval = 2
  FastCheckInterval = 1
  Slack = 1
  MaxBytes = 7
SPECIFICATION Spec
INVARIANTS
  TypeOK
  DeliveredInOrder
  NeverOverrun
  CopyInBounds
