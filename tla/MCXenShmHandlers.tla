-------------------------- MODULE MCXenShmHandlers --------------------------
(* Small instances of XenShmHandlers for TLC. *)
EXTENDS XenShmHandlers
=============================================================================
