-------------------------- MODULE MCXenShmDevice --------------------------
(* A small instance of XenShmDevice for TLC. *)
EXTENDS XenShmDevice

CONSTANTS o1, r1, r2, pv, hvm

MCInstances == {o1, r1, r2}
MCOfferers == {o1}
MCReceivers == {r1, r2}
MCDomains == {pv, hvm}
MCPV == {pv}
MCHome == [i \in Instances |-> IF i = r1 THEN pv ELSE hvm]
=============================================================================
