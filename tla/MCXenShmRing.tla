---------------------------- MODULE MCXenShmRing ----------------------------
(* Small instances of XenShmRing for TLC. *)
EXTENDS XenShmRing
=============================================================================
