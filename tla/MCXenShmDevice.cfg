\* An offerer and two receivers, one of them in a paravirtualised domain.
CONSTANTS
  o1 = o1
  r1 = r1
  r2 = r2
  pv = pv
  hvm = hvm
  NoOne = NoOne
  Instances <- MCInstances
  Offerers <- MCOfferers
  Receivers <- MCReceivers
  Domains <- MCDomains
  Home <- MCHome
  PV <- MCPV
  MaxPages = 2
SPECIFICATION Spec
INVARIANTS
  TypeOK
  MappedIsAllocated
  HandlesExact
  FreedLeavesNothing
  OneReceiver
CHECK_DEADLOCK FALSE
