\* Packets smaller than a pipe, and larger.
CONSTANTS
  Capacity = 3
  PacketSizes = {1, 2, 4}
SPECIFICATION FairSpec
INVARIANTS
  TypeOK
  StallOnlyUnflushed
PROPERTIES
  TransferProgress
  HandlerNoticesDeath
CHECK_DEADLOCK FALSE
