---------------------------- MODULE XenShmStream ----------------------------
(***************************************************************************)
(* What a pipe promises its two ends, without the shared page, the event   *)
(* channel or the flags: bytes in transit, who sleeps, who has flushed.    *)
(*                                                                         *)
(* "The channel is optimized to avoid system calls.  So, sometime, one     *)
(* process can wait while data/space is available" (xen_shm_pipe.h:144):   *)
(* an end may fall asleep on a stale view of the pipe, but not when the    *)
(* other sleeps, and not when the other has flushed all it did.  A flush   *)
(* that meets an end before its initial signal is promised nothing: the    *)
(* event channel carries one bit, and the first event an end gets is its   *)
(* initial signal, whatever was signalled meanwhile.                       *)
(***************************************************************************)
EXTENDS Integers

CONSTANTS
  Pipes,
  Capacity   \* the bytes a pipe holds

VARIABLES
  count,    \* the bytes in each pipe
  asleep,   \* is an end asleep, with no wakeup on its way?
  flushed,  \* has an end flushed, and been heard, since it last moved bytes?
  greeted   \* has an end had its initial signal?

svars == <<count, asleep, flushed, greeted>>

Roles == {"reader", "writer"}
Peer(r) == IF r = "reader" THEN "writer" ELSE "reader"

Init ==
  /\ count = [q \in Pipes |-> 0]
  /\ asleep = [q \in Pipes |-> [r \in Roles |-> FALSE]]
  /\ flushed = [q \in Pipes |-> [r \in Roles |-> FALSE]]
  /\ greeted \in [Pipes -> [Roles -> BOOLEAN]]

Blocked(q, r) == count[q] = IF r = "reader" THEN 0 ELSE Capacity

(* How many bytes an end can move. *)
Room(q, r) == IF r = "reader" THEN count[q] ELSE Capacity - count[q]

(* An end that is awake moves k bytes. *)
Move(q, r, k) ==
  /\ ~asleep[q][r] /\ k \in 1 .. Room(q, r)
  /\ count' = [count EXCEPT ![q] = IF r = "reader" THEN @ - k ELSE @ + k]
  /\ flushed' = [flushed EXCEPT ![q][r] = FALSE]
  /\ UNCHANGED <<asleep, greeted>>

Doze(q, r) ==
  /\ ~asleep[q][r] /\ ~asleep[q][Peer(r)]
  /\ flushed[q][Peer(r)] => Blocked(q, r)
  /\ asleep' = [asleep EXCEPT ![q][r] = TRUE]
  /\ UNCHANGED <<count, flushed, greeted>>

Wake(q, r) ==
  /\ asleep[q][r]
  /\ asleep' = [asleep EXCEPT ![q][r] = FALSE]
  /\ UNCHANGED <<count, flushed, greeted>>

WakePeer(q, r) == asleep' = [asleep EXCEPT ![q][Peer(r)] = FALSE]

Flush(q, r) ==
  /\ ~asleep[q][r]
  /\ flushed' = [flushed EXCEPT ![q][r] = greeted[q][Peer(r)]]
  /\ WakePeer(q, r) \/ (~greeted[q][Peer(r)] /\ UNCHANGED asleep)
  /\ UNCHANGED <<count, greeted>>

(* An end gets its initial signal; the other may get an acknowledgement. *)
Greet(q, r) ==
  /\ ~greeted[q][r]
  /\ greeted' = [greeted EXCEPT ![q][r] = TRUE]
  /\ WakePeer(q, r) \/ UNCHANGED asleep
  /\ UNCHANGED <<count, flushed>>

Next ==
  \E q \in Pipes, r \in Roles :
    \/ \E k \in 1 .. Capacity : Move(q, r, k)
    \/ Doze(q, r) \/ Wake(q, r) \/ Flush(q, r) \/ Greet(q, r)

Spec == Init /\ [][Next]_svars
=============================================================================
