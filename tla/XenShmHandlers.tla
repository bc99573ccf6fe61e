--------------------------- MODULE XenShmHandlers ---------------------------
(***************************************************************************)
(* The handlers of handler_lib.c at the two ends of a connection: the ping *)
(* client with the ping server, the sender with the receiver.  A handler   *)
(* is a loop of read_all, write_all and flush over two pipes: "up" from    *)
(* the client to the server and "down" back.  The pipes are Streams        *)
(* (XenShmStream, which XenShmPipe implements), until an end is gone.      *)
(* Nobody calls xen_shm_pipe_wait: the client is in its handler as soon as *)
(* it has sent CLIENT_GRANT, and the initial signals come when they come.  *)
(***************************************************************************)
EXTENDS Integers, Sequences

CONSTANTS
  Capacity,      \* the bytes a pipe holds
  PacketSizes    \* the packet or buffer sizes of the handlers

ASSUME HandlersAssumption ==
  Capacity \in Nat \ {0} /\ PacketSizes \subseteq Nat \ {0}

VARIABLES
  count, asleep, flushed,   \* the two Streams
  greeted,
  merged,                   \* did an end's flush, since it last moved bytes,
                            \* meet the other before its initial signal?
  link,                     \* has the server connected "down"?
  pairing,                  \* the handlers the programs were built with
  size,                     \* the packet size of each process
  line,                     \* the call each handler is in
  left,                     \* the bytes that call has still to move
  step,                     \* where it is in it
  gone                      \* has the process died, or freed its pipes?

Procs == {"client", "server"}
Other(p) == IF p = "client" THEN "server" ELSE "client"

Pipes == {"up", "down"}
Stream == INSTANCE XenShmStream

streams == <<count, asleep, flushed, greeted>>
vars == <<streams, merged, link, pairing, size, line, left, step, gone>>

-----------------------------------------------------------------------------
Call(o, q) == [op |-> o, pipe |-> q]

(* The client flushes receive_fd after it has written to send_fd. *)
ping_client ==
  <<Call("write_all", "up"), Call("flush", "down"),
    Call("read_all", "down"), Call("flush", "down")>>

(* With the second flush forgotten. *)
PingServerUnflushed ==
  <<Call("read_all", "up"), Call("flush", "up"), Call("write_all", "down")>>

ping_server ==
  <<Call("read_all", "up"), Call("flush", "up"),
    Call("write_all", "down"), Call("flush", "down")>>

sender == <<Call("write_all", "up")>>
receiver == <<Call("read_all", "up")>>

Handler(p) ==
  CASE pairing = "ping" /\ p = "client" -> ping_client
    [] pairing = "ping" /\ p = "server" -> ping_server
    [] pairing = "transfer" /\ p = "client" -> sender
    [] pairing = "transfer" /\ p = "server" -> receiver

Pipe(p) == Handler(p)[line[p]].pipe
Role(p) == IF (p = "client") = (Pipe(p) = "up") THEN "writer" ELSE "reader"

Running(p) == step[p] \notin {"start", "returned"}
In(p, o) == Running(p) /\ Handler(p)[line[p]].op = o

(* Inside a read_all or a write_all, and not asleep in it. *)
Calling(p) ==
  /\ In(p, "read_all") \/ In(p, "write_all")
  /\ ~asleep[Pipe(p)][Role(p)]

Asleep(p) == Running(p) /\ asleep[Pipe(p)][Role(p)]
Blocked(p) == Stream!Blocked(Pipe(p), Role(p))

(***************************************************************************)
(* What a process can know of the other by the pipe of its call.  A server *)
(* that did not get to connect "down" is not seen to go there, and one     *)
(* whose mmap failed had connected it without setting its flags.           *)
(***************************************************************************)
Seen(p) ==
  CASE Pipe(p) = "up" \/ link = "open" -> gone[Other(p)]
    [] Pipe(p) = "down" /\ link = "none" -> "no"
    [] Pipe(p) = "down" /\ link = "half" -> "killed"

(***************************************************************************)
(* The client has connected "up", offered "down" and sent CLIENT_GRANT; no *)
(* initial signal has been handled.  Both pings move packets of            *)
(* PING_PACKET_SIZE; the buffers of a sender and a receiver are chosen     *)
(* apart, on two command lines.                                            *)
(***************************************************************************)
Init ==
  /\ Stream!Init /\ \A q \in Pipes, r \in Stream!Roles : ~greeted[q][r]
  /\ merged = [q \in Pipes |-> [r \in Stream!Roles |-> FALSE]]
  /\ link = "none"
  /\ pairing \in {"ping", "transfer"}
  /\ size \in [Procs -> PacketSizes]
  /\ pairing = "ping" => size["client"] = size["server"]
  /\ line = [p \in Procs |-> 1]
  /\ left = size
  /\ step = [p \in Procs |-> "start"]
  /\ gone = [p \in Procs |-> "no"]

-----------------------------------------------------------------------------
(* The pipes of a process are released, which wakes who sleeps there. *)
Released(connected) ==
  asleep' = [q \in Pipes |-> [r \in Stream!Roles |->
               q = "down" /\ ~connected /\ asleep[q][r]]]

(* p ends before its handler runs, or in it. *)
Leaves(p, how) ==
  /\ gone' = [gone EXCEPT ![p] = how]
  /\ step' = [step EXCEPT ![p] = "returned"]

(* run_client_thread: pthread_create, or both pipes are freed. *)
ClientStart ==
  /\ step["client"] = "start"
  /\ step' = [step EXCEPT !["client"] = "test"]
  /\ UNCHANGED <<streams, merged, link, pairing, size, line, left, gone>>

ClientThreadFails ==
  /\ step["client"] = "start"
  /\ Leaves("client", "freed") /\ Released(TRUE)
  /\ UNCHANGED <<count, flushed, greeted, merged, link, pairing, size, line, left>>

(***************************************************************************)
(* CLIENT_GRANT arrives: the server connects "down" and starts its child,  *)
(* or it frees what it has.  By then it has not connected, or it has but   *)
(* mmap failed, or pthread_create did.  A client that is gone has closed   *)
(* its port.                                                               *)
(***************************************************************************)
ServerStart ==
  /\ step["server"] = "start" /\ gone["client"] = "no"
  /\ step' = [step EXCEPT !["server"] = "test"]
  /\ link' = "open"
  /\ UNCHANGED <<streams, merged, pairing, size, line, left, gone>>

ServerRefuses ==
  /\ step["server"] = "start"
  /\ \E l \in {"none", "half", "open"} :
       /\ l # "none" => gone["client"] = "no"
       /\ link' = l /\ Released(l # "none")
  /\ Leaves("server", "freed")
  /\ UNCHANGED <<count, flushed, greeted, merged, pairing, size, line, left>>

(***************************************************************************)
(* xen_shm_event_handler takes the first event of an end for its initial   *)
(* signal.  The readers offered both pipes, so they acknowledge it, and    *)
(* that is one more signal to a writer that had its own before.            *)
(***************************************************************************)
Greet(q, r) ==
  /\ q = "up" \/ link # "none"
  /\ Stream!Greet(q, r)
  /\ asleep' = IF r = "reader" /\ greeted[q]["writer"]
               THEN [asleep EXCEPT ![q]["writer"] = FALSE] ELSE asleep
  /\ UNCHANGED <<merged, link, pairing, size, line, left, step, gone>>

(* The loop goes on to its next call; stop is never set. *)
Advance(p) ==
  /\ line' = [line EXCEPT ![p] = (@ % Len(Handler(p))) + 1]
  /\ left' = [left EXCEPT ![p] = size[p]]
  /\ step' = [step EXCEPT ![p] = "test"]

(***************************************************************************)
(* The end of a call of read or write with an error or at the end of file. *)
(* read_all and write_all return a short count if they moved some bytes,   *)
(* and the handlers look for a negative one only.                          *)
(***************************************************************************)
StopShort(p, negative) ==
  IF negative /\ left[p] = size[p]
  THEN step' = [step EXCEPT ![p] = "returned"] /\ UNCHANGED <<line, left>>
  ELSE Advance(p)

(* read and write move what they can, not more than is left. *)
CopyPastEnd(p) ==
  /\ Calling(p)
  /\ Seen(p) = "freed" => Role(p) = "reader"
  /\ \E k \in 1 .. left[p] + 1 :
       Stream!Move(Pipe(p), Role(p), k) /\ left' = [left EXCEPT ![p] = @ - k]
  /\ merged' = [merged EXCEPT ![Pipe(p)][Role(p)] = FALSE]
  /\ step' = [step EXCEPT ![p] = "copied"]
  /\ UNCHANGED <<link, pairing, size, line, gone>>

Copy(p) ==
  /\ Calling(p)
  /\ Seen(p) = "freed" => Role(p) = "reader"
  /\ \E k \in 1 .. left[p] :
       Stream!Move(Pipe(p), Role(p), k) /\ left' = [left EXCEPT ![p] = @ - k]
  /\ merged' = [merged EXCEPT ![Pipe(p)][Role(p)] = FALSE]
  /\ step' = [step EXCEPT ![p] = "copied"]
  /\ UNCHANGED <<link, pairing, size, line, gone>>

(***************************************************************************)
(* SLEEPING of the other end is tested, and it is signalled.  It sleeps on *)
(* if that is the first event it gets.                                     *)
(***************************************************************************)
WakeOther(p) ==
  LET q == Pipe(p)
      r == Stream!Peer(Role(p))
  IN IF asleep[q][r] /\ greeted[q][r]
     THEN Stream!Wake(q, r) ELSE UNCHANGED streams

(* The end of a read or a write; then the next one, or the next call. *)
Kick(p) ==
  /\ Calling(p) /\ step[p] = "copied"
  /\ WakeOther(p)
  /\ \/ left[p] = 0 /\ Advance(p)
     \/ /\ left[p] > 0 /\ step' = [step EXCEPT ![p] = "test"]
        /\ UNCHANGED <<line, left>>
  /\ UNCHANGED <<merged, link, pairing, size, gone>>

(* One turn of the wait loop. *)
LookNoSignal(p) ==
  /\ Calling(p) /\ step[p] # "copied"
  /\ Seen(p) = "no" /\ Blocked(p)
  /\ step' = [step EXCEPT ![p] = "saw"]
  /\ UNCHANGED <<streams, merged, link, pairing, size, line, left, gone>>

Look(p) ==
  /\ Calling(p) /\ step[p] # "copied"
  /\ Seen(p) = "no" /\ Blocked(p)
  /\ WakeOther(p)
  /\ step' = [step EXCEPT ![p] = "saw"]
  /\ UNCHANGED <<merged, link, pairing, size, line, left, gone>>

(* It sleeps on what it saw then. *)
Doze(p) ==
  /\ Calling(p) /\ step[p] = "saw" /\ Seen(p) = "no"
  /\ Stream!Doze(Pipe(p), Role(p))
  /\ step' = [step EXCEPT ![p] = "test"]
  /\ UNCHANGED <<merged, link, pairing, size, line, left, gone>>

(***************************************************************************)
(* The other process died: EPIPE, once a reader has the bytes that remain, *)
(* or at the end of a turn that began before, without another look.        *)
(***************************************************************************)
FailShort(p) ==
  /\ Calling(p) /\ step[p] # "copied" /\ Seen(p) = "killed"
  /\ Blocked(p) \/ step[p] = "saw"
  /\ StopShort(p, FALSE)
  /\ UNCHANGED <<streams, merged, link, pairing, size, gone>>

Fail(p) ==
  /\ Calling(p) /\ step[p] # "copied" /\ Seen(p) = "killed"
  /\ Blocked(p) \/ step[p] = "saw"
  /\ StopShort(p, TRUE)
  /\ UNCHANGED <<streams, merged, link, pairing, size, gone>>

(* It freed the pipes: an error, or 0 for a reader that sees CLOSED. *)
Closed(p) ==
  /\ Calling(p) /\ step[p] # "copied" /\ Seen(p) = "freed"
  /\ \/ Role(p) = "writer" /\ StopShort(p, TRUE)
     \/ Role(p) = "reader" /\ Blocked(p) /\ StopShort(p, FALSE)
     \/ Role(p) = "reader" /\ step[p] = "saw" /\ StopShort(p, TRUE)
  /\ UNCHANGED <<streams, merged, link, pairing, size, gone>>

(* The handlers ignore what flush returns.  A merged signal wakes nobody. *)
FlushCall(p) ==
  LET q == Pipe(p)
      r == Role(p)
      heard == greeted[q][Stream!Peer(r)]
  IN /\ In(p, "flush")
     /\ IF Seen(p) = "no"
        THEN /\ Stream!Flush(q, r) /\ (heard \/ asleep' = asleep)
             /\ merged' = [merged EXCEPT ![q][r] = ~heard]
        ELSE UNCHANGED <<streams, merged>>
     /\ Advance(p)
     /\ UNCHANGED <<link, pairing, size, gone>>

(* A process dies wherever it is. *)
Killed(p) ==
  /\ gone[p] = "no"
  /\ Leaves(p, "killed") /\ Released(p = "client" \/ link # "none")
  /\ UNCHANGED <<count, flushed, greeted, merged, link, pairing, size, line, left>>

-----------------------------------------------------------------------------
Runs(p) ==
  \/ p = "client" /\ (ClientStart \/ ClientThreadFails)
  \/ Copy(p) \/ Kick(p) \/ Look(p) \/ Fail(p) \/ Closed(p) \/ FlushCall(p)

Next ==
  \/ \E p \in Procs : Runs(p) \/ Doze(p) \/ Killed(p)
  \/ ServerStart \/ ServerRefuses
  \/ \E q \in Pipes, r \in Stream!Roles : Greet(q, r)

Spec == Init /\ [][Next]_vars

(***************************************************************************)
(* The two systems run their threads and handle their events.  CLIENT_GRANT*)
(* need not arrive.                                                        *)
(***************************************************************************)
FairSpec ==
  /\ Spec
  /\ \A p \in Procs : WF_vars(Runs(p))
  /\ \A q \in Pipes, r \in Stream!Roles : WF_vars(Greet(q, r))

-----------------------------------------------------------------------------
TypeOK ==
  /\ count \in [Pipes -> 0 .. Capacity]
  /\ asleep \in [Pipes -> [Stream!Roles -> BOOLEAN]]
  /\ flushed \in [Pipes -> [Stream!Roles -> BOOLEAN]]
  /\ greeted \in [Pipes -> [Stream!Roles -> BOOLEAN]]
  /\ merged \in [Pipes -> [Stream!Roles -> BOOLEAN]]
  /\ link \in {"none", "half", "open"}
  /\ pairing \in {"ping", "transfer"}
  /\ size \in [Procs -> PacketSizes]
  /\ line \in [Procs -> Nat] /\ left \in [Procs -> Nat]
  /\ \A p \in Procs : line[p] \in 1 .. Len(Handler(p)) /\ left[p] \in 0 .. size[p]
  /\ step \in [Procs -> {"start", "test", "saw", "copied", "returned"}]
  /\ gone \in [Procs -> {"no", "killed", "freed"}]

(***************************************************************************)
(* Both processes sleep, and for ever, in two cases only, each of them in  *)
(* a ping, in its two read_alls.  The client has written a packet, flushed *)
(* the other pipe in place of the one it wrote to, and the server sleeps   *)
(* beside the packet (handler_lib.c:30-37, 56).  Or the server has flushed *)
(* its answer before the client had its initial signal, with which the     *)
(* flush merged (xen_shm.c:239-243; client_lib.c:156, 193).  No other order*)
(* of calls, flushes, signals and sleeps stops a ping, and none stops a    *)
(* transfer.                                                               *)
(***************************************************************************)
StallOnlyUnflushed ==
  (\A p \in Procs : Asleep(p)) =>
    /\ pairing = "ping"
    /\ In("client", "read_all") /\ In("server", "read_all")
    /\ \/ count["up"] > 0 /\ ~flushed["up"]["writer"]
       \/ count["down"] > 0 /\ merged["down"]["writer"]

(***************************************************************************)
(* A transfer goes on once the server runs: the receiver reads again and   *)
(* again, although neither end flushes, each falls asleep on a stale view  *)
(* of the buffer and signals merge with the initial ones                   *)
(* (handler_lib.c:105, 167; xen_shm_pipe.c:379-382, 469-472, 888-925).     *)
(***************************************************************************)
TransferProgress ==
  pairing = "transfer" =>
    []<>(step["server"] \in {"start", "copied"} \/ \E p \in Procs : gone[p] # "no")

(***************************************************************************)
(* Who goes without the other noticing: a server that has not connected    *)
(* "down", to a ping client that waits there for its answer; and a sender  *)
(* that frees its pipes, to the receiver, which takes the end of the file  *)
(* for a read of no bytes.                                                 *)
(***************************************************************************)
Unheard(p) ==
  \/ pairing = "ping" /\ p = "client" /\ link = "none"
  \/ pairing = "transfer" /\ p = "server" /\ gone["client"] = "freed"

(***************************************************************************)
(* Otherwise a handler returns when the other process dies or frees its    *)
(* pipes, although a short count hides the first error and whatever the    *)
(* initial signals do (handler_lib.c:31, 57, 106, 168;                     *)
(* xen_shm_pipe.c:895, 915).                                               *)
(***************************************************************************)
HandlerNoticesDeath ==
  \A p \in Procs :
    (gone[Other(p)] # "no" /\ Running(p) /\ ~Unheard(p)) ~> step[p] = "returned"
=============================================================================
