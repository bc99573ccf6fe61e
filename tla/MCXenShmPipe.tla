---------------------------- MODULE MCXenShmPipe ----------------------------
(* Small instances of XenShmPipe for TLC. *)
EXTENDS XenShmPipe
=============================================================================
