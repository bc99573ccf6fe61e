----------------------- MODULE MCXenShmEventHistory -----------------------
(* Small instances of XenShmEventHistory for TLC. *)
EXTENDS XenShmEventHistory

CONSTANTS o1, r1

MCTwo == {o1, r1}
MCSideOf == [t \in Threads |-> IF t = o1 THEN "offerer" ELSE "receiver"]

Untimed(flags) == [flags |-> flags, timed |-> FALSE]
Timed(flags) == [flags |-> flags, timed |-> TRUE]

(* What the pipe library asks for, and waits with the mutex beside it. *)
MCRequests ==
  {Untimed({"LATENT_USER"}), Timed({"INIT"}), Untimed({"USER", "MUTEX"})}
=============================================================================
