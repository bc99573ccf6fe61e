CONSTANTS
  Clients = {c1, c2}
  Chunks = {n1, n2}
  Pipes = {p1, p2, p3, p4}
  NULL = NULL
  NoClient = NoClient
  NoPipe = NoPipe
  MaxDuplicates = 2
SPECIFICATION Spec
INVARIANTS
  PurgedIsGone
CHECK_DEADLOCK FALSE
