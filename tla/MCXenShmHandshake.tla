------------------------- MODULE MCXenShmHandshake -------------------------
(* Small instances of XenShmHandshake for TLC. *)
EXTENDS XenShmHandshake
=============================================================================
