\* An offerer that is released when a grant cannot be ended.
CONSTANTS
  o1 = o1
  r1 = r1
  r2 = r2
  pv = pv
  hvm = hvm
  NoOne = NoOne
  Instances <- MCInstances
  Offerers <- MCOfferers
  Receivers <- MCReceivers
  Domains <- MCDomains
  Home <- MCHome
  PV <- MCPV
  MaxPages = 1
SPECIFICATION Spec
INVARIANTS
  DelayedIsQueued
CHECK_DEADLOCK FALSE
