CONSTANTS
  Clients = {c1, c2}
  Chunks = {n1, n2}
  Pipes = {p1, p2, p3, p4}
  NULL = NULL
  NoClient = NoClient
  NoPipe = NoPipe
  MaxDuplicates = 2
SPECIFICATION FairSpec
INVARIANTS
  TypeOK
  NoCrossWire
  OneChild
  Paired
  ChildKeepsPipe
PROPERTIES
  HelloAnswered
CHECK_DEADLOCK FALSE
