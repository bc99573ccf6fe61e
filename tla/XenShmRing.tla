----------------------------- MODULE XenShmRing -----------------------------
(***************************************************************************)
(* The circular buffer of the pipe and the two loops that move bytes       *)
(* through it, __xen_shm_pipe_read_avail and __xen_shm_pipe_write_avail    *)
(* (xen_shm_pipe.c).  The loops are the same up to the direction of the    *)
(* copy, so every action takes the role that performs it.                  *)
(*                                                                         *)
(* One process writes, one reads, without a lock: each publishes its own   *)
(* position and reads the other's, and every access to the shared page is  *)
(* a step.  A byte is copied per step; the 64 bit copies of aligned data   *)
(* move several bytes at once, which other interleavings of these steps    *)
(* cover, and may stop early when they stop for a check: Slack.            *)
(*                                                                         *)
(* The n-th byte of the stream has the value n, so that a lost, repeated   *)
(* or overwritten byte shows.                                              *)
(***************************************************************************)
EXTENDS Integers, Sequences

CONSTANTS
  BufferSize,         \* p->buffer_size
  CheckInterval,      \* p->wait_check_interval
  FastCheckInterval,  \* XEN_SHM_PIPE_FAST_CHECK_INTERVAL
  Slack,              \* bytes an aligned copy leaves before a check, 0..7
  MaxBytes            \* bound: the length of the stream

ASSUME RingAssumption ==
  /\ BufferSize \in Nat /\ BufferSize > 1
  /\ CheckInterval \in Nat \ {0}
  /\ FastCheckInterval \in Nat \ {0}
  /\ Slack \in Nat
  /\ MaxBytes \in Nat

Roles == {"reader", "writer"}
Peer(p) == IF p = "reader" THEN "writer" ELSE "reader"

VARIABLES
  pos,     \* read and write of the shared page, by role
  buffer,  \* the circular buffer; 0 is a byte never written
  at,      \* where the role is in its loop
  own,     \* read_pos and write_pos, BufferSize before the rewind
  lim,     \* write_pos of the reader, read_pos_reduced of the writer
  cur,     \* current_buf, counted from user_buf
  usr,     \* usr_max_buf
  gran,    \* gran_max_buf
  top,     \* where the copy under way stops
  gchk,    \* gran_check
  sent,    \* how many bytes the writer has copied into the buffer
  rcvd     \* the bytes the reader has copied out of it

bounds == <<own, lim, usr, gran, top, gchk>>
stream == <<buffer, sent, rcvd>>
ringvars == <<pos, at, cur, bounds, stream>>

Init ==
  /\ pos = [p \in Roles |-> 0]
  /\ buffer = [i \in 0 .. BufferSize - 1 |-> 0]
  /\ at = [p \in Roles |-> "out"]
  /\ own = pos /\ lim = pos /\ cur = pos /\ usr = pos /\ gran = pos /\ top = pos
  /\ gchk = [p \in Roles |-> FALSE]
  /\ sent = 0
  /\ rcvd = <<>>

ReducedNever(i) == IF i = 0 THEN BufferSize - 1 ELSE i
Reduced(i) == IF i = 0 THEN BufferSize - 1 ELSE i - 1

(* How far p may go: the reader up to write, the writer up to read - 1. *)
Limit(p) == IF p = "reader" THEN pos["writer"] ELSE Reduced(pos["reader"])

(***************************************************************************)
(* The loop head of p, at position o with limit l, c bytes done of u and   *)
(* the next check at g: leave, or copy up to the nearest of the limit, the *)
(* end of the buffer, the end of the user's bytes and the check.           *)
(***************************************************************************)
MinOf(a, b) == IF a <= b THEN a ELSE b

LoopHeadPastEnd(p, o, l, c, u, g) ==
  IF o = l \/ c = u
  THEN /\ at' = [at EXCEPT ![p] = "tail"]
       /\ UNCHANGED <<top, gchk>>
  ELSE /\ at' = [at EXCEPT ![p] = "copy"]
       /\ gchk' = [gchk EXCEPT ![p] = FALSE]
       /\ top' = [top EXCEPT ![p] =
                    MinOf(u, c + (IF o <= l THEN l - o ELSE BufferSize - o + l))]

LoopHead(p, o, l, c, u, g) ==
  IF o = l \/ c = u
  THEN /\ at' = [at EXCEPT ![p] = "tail"]
       /\ UNCHANGED <<top, gchk>>
  ELSE LET circ == c + (IF o <= l THEN l - o ELSE BufferSize - o)
           end == MinOf(circ, u)
           check == end > g
           stop == IF check THEN g ELSE end
       IN /\ at' = [at EXCEPT ![p] = "copy"]
          /\ gchk' = [gchk EXCEPT ![p] = check]
          /\ \E early \in 0 .. (IF check /\ stop - c > Slack THEN Slack ELSE 0) :
               top' = [top EXCEPT ![p] = stop - early]

(* Called with n bytes: load the other's position. *)
Enter(p, n) ==
  /\ at[p] = "out"
  /\ p = "writer" => n <= MaxBytes - sent
  /\ own' = [own EXCEPT ![p] = pos[p]]
  /\ lim' = [lim EXCEPT ![p] = Limit(p)]
  /\ cur' = [cur EXCEPT ![p] = 0]
  /\ usr' = [usr EXCEPT ![p] = n]
  /\ at' = [at EXCEPT ![p] = "gran"]
  /\ UNCHANGED <<pos, stream, gran, top, gchk>>

(* Look at the other's SLEEPING flag to place the first check. *)
PlaceCheck(p, g) ==
  /\ at[p] = "gran"
  /\ gran' = [gran EXCEPT ![p] = g]
  /\ LoopHead(p, own[p], lim[p], cur[p], usr[p], g)
  /\ UNCHANGED <<pos, cur, own, lim, usr, stream>>

CopyByte(p) ==
  /\ at[p] = "copy" /\ cur[p] < top[p]
  /\ IF p = "reader"
     THEN /\ rcvd' = Append(rcvd, buffer[own[p]])
          /\ UNCHANGED <<buffer, sent>>
     ELSE /\ buffer' = [buffer EXCEPT ![own[p]] = sent + 1]
          /\ sent' = sent + 1
          /\ UNCHANGED rcvd
  /\ own' = [own EXCEPT ![p] = @ + 1]
  /\ cur' = [cur EXCEPT ![p] = @ + 1]
  /\ UNCHANGED <<pos, at, lim, usr, gran, top, gchk>>

(* Is it time to take news of the other? *)
CheckDue(p) == gchk[p] \/ cur[p] = gran[p]

CopyDone(p) ==
  /\ at[p] = "copy" /\ cur[p] = top[p]
  /\ gran' = IF CheckDue(p) THEN [gran EXCEPT ![p] = @ + CheckInterval] ELSE gran
  /\ at' = [at EXCEPT ![p] = "refresh"]
  /\ UNCHANGED <<pos, cur, own, lim, usr, top, gchk, stream>>

RefreshNoRewind(p) ==
  /\ at[p] = "refresh"
  /\ own' = [own EXCEPT ![p] = IF @ > BufferSize THEN 0 ELSE @]
  /\ lim' = [lim EXCEPT ![p] = Limit(p)]
  /\ at' = [at EXCEPT ![p] = "publish"]
  /\ UNCHANGED <<pos, cur, usr, gran, top, gchk, stream>>

RefreshNotReduced(p) ==
  /\ at[p] = "refresh"
  /\ own' = [own EXCEPT ![p] = IF @ = BufferSize THEN 0 ELSE @]
  /\ lim' = [lim EXCEPT ![p] = pos[Peer(p)]]
  /\ at' = [at EXCEPT ![p] = "publish"]
  /\ UNCHANGED <<pos, cur, usr, gran, top, gchk, stream>>

(* Rewind at the end of the buffer, then load the other's position again. *)
Refresh(p) ==
  /\ at[p] = "refresh"
  /\ own' = [own EXCEPT ![p] = IF @ = BufferSize THEN 0 ELSE @]
  /\ lim' = [lim EXCEPT ![p] = Limit(p)]
  /\ at' = [at EXCEPT ![p] = "publish"]
  /\ UNCHANGED <<pos, cur, usr, gran, top, gchk, stream>>

Publish(p) ==
  /\ at[p] = "publish"
  /\ pos' = [pos EXCEPT ![p] = own[p]]
  /\ LoopHead(p, own[p], lim[p], cur[p], usr[p], gran[p])
  /\ UNCHANGED <<cur, own, lim, usr, gran, stream>>

(* Out of the loop; the flag is looked at one last time. *)
Leave(p) ==
  /\ at[p] = "tail"
  /\ at' = [at EXCEPT ![p] = "out"]
  /\ lim' = [lim EXCEPT ![p] = 0]
  /\ usr' = [usr EXCEPT ![p] = 0]
  /\ gran' = [gran EXCEPT ![p] = 0]
  /\ top' = [top EXCEPT ![p] = 0]
  /\ gchk' = [gchk EXCEPT ![p] = FALSE]
  /\ UNCHANGED <<pos, cur, own, stream>>

Intervals == {CheckInterval, FastCheckInterval}

Step(p) ==
  \/ \E n \in 1 .. MaxBytes : Enter(p, n)
  \/ \E g \in Intervals : PlaceCheck(p, g)
  \/ CopyByte(p) \/ CopyDone(p) \/ Refresh(p) \/ Publish(p) \/ Leave(p)

Next == \E p \in Roles : Step(p)

Spec == Init /\ [][Next]_ringvars

-----------------------------------------------------------------------------
(* Positions are within the buffer, or one past its end before a rewind. *)
TypeOK ==
  /\ pos \in [Roles -> 0 .. BufferSize - 1]
  /\ buffer \in [0 .. BufferSize - 1 -> 0 .. MaxBytes]
  /\ at \in [Roles -> {"out", "gran", "copy", "refresh", "publish", "tail"}]
  /\ own \in [Roles -> 0 .. BufferSize]
  /\ lim \in [Roles -> 0 .. BufferSize - 1]
  /\ cur \in [Roles -> Nat] /\ usr \in [Roles -> Nat]
  /\ gran \in [Roles -> Nat] /\ top \in [Roles -> Nat]
  /\ gchk \in [Roles -> BOOLEAN]
  /\ sent \in 0 .. MaxBytes
  /\ rcvd \in Seq(Nat)

(***************************************************************************)
(* The reader gets the writer's bytes in order, each once, none that was   *)
(* not written yet and none overwritten before it was read, although the   *)
(* two never exclude each other (xen_shm_pipe.c:548-639, 699-790).         *)
(***************************************************************************)
DeliveredInOrder == \A i \in 1 .. Len(rcvd) : rcvd[i] = i

(***************************************************************************)
(* The byte at the writer's position is never one the reader has still to  *)
(* copy, nor the one it is copying: one slot always stays free             *)
(* (xen_shm_pipe.c:680, 785).                                              *)
(***************************************************************************)
NeverOverrun == sent - Len(rcvd) \in 0 .. BufferSize - 1

(***************************************************************************)
(* A copy stays inside the user's buffer and inside the circular buffer    *)
(* whatever the checks, the rewinds and the other's moves do to the        *)
(* thresholds (xen_shm_pipe.c:551-568, 702-719).                           *)
(***************************************************************************)
CopyInBounds ==
  \A p \in Roles : at[p] = "copy" =>
    /\ cur[p] <= top[p] /\ top[p] <= usr[p]
    /\ own[p] + (top[p] - cur[p]) <= BufferSize
=============================================================================
