----------------------------- MODULE XenShmPipe -----------------------------
(***************************************************************************)
(* The pipe of xen_shm_pipe.c: a writer and a reader process, each one the *)
(* user of one kernel instance, that share the circular buffer and two     *)
(* words of flags.  The module composes                                    *)
(*                                                                         *)
(*   Ring    the copy loops over the circular buffer (XenShmRing)          *)
(*   Kernel  signals, waits and the closing of instances (XenShmEvent)     *)
(*                                                                         *)
(* with the wait protocol of the pipe: __xen_shm_pipe_wait_reader,         *)
(* __xen_shm_pipe_wait_writer, read, write, flush and free.  Both wait     *)
(* loops have one shape, so actions take the role; every load or store of  *)
(* the shared page is a step.  Memory is sequentially consistent.          *)
(***************************************************************************)
EXTENDS Integers, Sequences

CONSTANTS
  BufferSize, CheckInterval, FastCheckInterval, Slack, MaxBytes,
  LoopLimit,      \* XEN_SHM_PIPE_WAIT_LOOP_LIMIT
  ActiveMax,      \* XEN_SHM_PIPE_WAIT_LOOP_ACTIVE_MAX
  WriterOffers,   \* p->conv: does the writer offer the memory?
  Connected,      \* start after the handshake, or before the connection?
  OffererWaits,   \* does the offerer always wait for the receiver first?
  Sizes,          \* the byte counts of the read and write calls
  Flushers,       \* the roles that call xen_shm_pipe_flush
  Closers,        \* the roles that call xen_shm_pipe_free
  Crashers,       \* the roles whose process may die
  Interruptible   \* the roles whose waits a Unix signal may interrupt

VARIABLES
  pos, buffer, at, own, lim, cur, usr, gran, top, gchk, sent, rcvd,
  state, meta, mapped, opening, bound, pending, initial_signal, user_signal,
  latent_user_signal, ec_mutex_count, await, request, release,
  flags,         \* reader_flags and writer_flags of the shared page
  pc,            \* where each process is
  peer,          \* the flags of the other it loaded last
  loop_count,
  active_count,
  unset_wait,
  saw_epipe,     \* p->saw_epipe
  ret,           \* what its last read or write returned
  flushed        \* has it flushed since it last moved its position, and found
                 \* the other past its initial signal?

Ring == INSTANCE XenShmRing

Roles == Ring!Roles
Peer(p) == Ring!Peer(p)

(* __xen_shm_pipe_is_offerer *)
Side(p) == IF (p = "writer") = WriterOffers THEN "offerer" ELSE "receiver"

WaitNextSignal == [flags |-> {"USER"}, timed |-> FALSE]

(* The waits of the pipe: for a signal, for EPIPE within 1 ms, for INIT. *)
WaitSignal == [flags |-> {"LATENT_USER"}, timed |-> FALSE]
ProneAwait == [flags |-> {"INIT"}, timed |-> TRUE]

Kernel == INSTANCE XenShmEvent
  WITH Threads <- Roles, SideOf <- [p \in Roles |-> Side(p)],
       Requests <- {WaitSignal, ProneAwait}

ASSUME PipeAssumption ==
  /\ BufferSize \in Nat /\ BufferSize > 1
  /\ {CheckInterval, FastCheckInterval} \subseteq Nat \ {0}
  /\ Slack \in Nat /\ MaxBytes \in Nat
  /\ LoopLimit \in Nat \ {0} /\ ActiveMax \in Nat
  /\ {WriterOffers, Connected, OffererWaits} \subseteq BOOLEAN
  /\ Sizes \subseteq 1 .. MaxBytes
  /\ Flushers \cup Closers \cup Crashers \cup Interruptible \subseteq Roles

ring == <<pos, buffer, at, own, lim, cur, usr, gran, top, gchk, sent, rcvd>>
kernel == <<state, meta, mapped, opening, bound, pending, initial_signal, user_signal,
            latent_user_signal, ec_mutex_count, await, request, release>>
counts == <<loop_count, active_count>>
wait == <<peer, counts, unset_wait, saw_epipe>>
vars == <<ring, kernel, flags, pc, wait, ret, flushed>>

(***************************************************************************)
(* xen_shm_pipe_offers has returned.  The receiver connects while the      *)
(* offerer waits for it, or both have had their initial signals.           *)
(***************************************************************************)
Init ==
  /\ Ring!Init
  /\ IF Connected
     THEN /\ state = [s \in Kernel!Sides |->
                        IF s = "offerer" THEN "OFFERER" ELSE "RECEIVER"]
          /\ meta = [s \in Kernel!Sides |-> "OPENED"]
          /\ mapped = TRUE
          /\ opening = "no"
          /\ bound = [s \in Kernel!Sides |-> TRUE]
          /\ pending = [s \in Kernel!Sides |-> FALSE]
          /\ initial_signal = [s \in Kernel!Sides |-> TRUE]
          /\ user_signal = [s \in Kernel!Sides |-> FALSE]
          /\ latent_user_signal = [s \in Kernel!Sides |-> FALSE]
          /\ ec_mutex_count = 1
          /\ await = [p \in Roles |-> "idle"]
          /\ request = [p \in Roles |-> Kernel!NoRequest]
          /\ release = [s \in Kernel!Sides |-> "open"]
     ELSE Kernel!Init
  /\ pc = [p \in Roles |->
             CASE Connected -> "idle"
               [] ~Connected /\ Side(p) = "offerer" -> "offered"
               [] ~Connected /\ Side(p) = "receiver" -> "connect"]
  /\ flags = [p \in Roles |-> IF pc[p] = "connect" THEN {} ELSE {"OPENED"}]
  /\ peer = [p \in Roles |-> {}]
  /\ loop_count = [p \in Roles |-> LoopLimit]
  /\ active_count = [p \in Roles |-> ActiveMax]
  /\ unset_wait = [p \in Roles |-> FALSE]
  /\ saw_epipe = [p \in Roles |-> FALSE]
  /\ ret = [p \in Roles |-> "none"]
  /\ flushed = [p \in Roles |-> FALSE]

Goto(p, l) == pc' = [pc EXCEPT ![p] = l]
SetFlag(p, f) == flags' = [flags EXCEPT ![p] = @ \cup {f}]
ClearFlag(p, f) == flags' = [flags EXCEPT ![p] = @ \ {f}]
Return(p, r) == ret' = [ret EXCEPT ![p] = r] /\ Goto(p, "fin")

BlockedIfPast(p) ==
  IF p = "reader" THEN pos["reader"] = pos["writer"]
  ELSE pos["writer"] + 1 = pos["reader"]

(* The loop condition: no byte to read, no room to write. *)
Blocked(p) ==
  IF p = "reader" THEN pos["reader"] = pos["writer"]
  ELSE pos["writer"] = Ring!Reduced(pos["reader"])

-----------------------------------------------------------------------------
(***************************************************************************)
(* xen_shm_pipe_connect and xen_shm_pipe_wait.                             *)
(***************************************************************************)
Connect(p) ==
  /\ pc[p] = "connect"
  /\ \/ /\ \/ Kernel!ReceiverMap \/ Kernel!ReceiverBind
           \/ Kernel!ReceiverState \/ Kernel!ReceiverPublish
        /\ Goto(p, "connect")
     \/ Kernel!ReceiverSignal /\ Goto(p, "opened")
  /\ UNCHANGED <<ring, flags, wait, ret, flushed>>

OpenedZeroes(p) ==
  /\ pc[p] = "opened"
  /\ SetFlag(p, "OPENED") /\ Goto(p, "idle")
  /\ pos' = [r \in Roles |-> 0]
  /\ UNCHANGED <<buffer, at, own, lim, cur, usr, gran, top, gchk, sent, rcvd>>
  /\ UNCHANGED <<kernel, wait, ret, flushed>>

(* mmap has returned: say we are here. *)
Opened(p) ==
  /\ pc[p] = "opened"
  /\ SetFlag(p, "OPENED") /\ Goto(p, "idle")
  /\ UNCHANGED <<ring, kernel, wait, ret, flushed>>

PipeWait(p) ==
  /\ pc[p] = "offered"
  /\ Kernel!AwaitEnter(p, ProneAwait) /\ Goto(p, "pipewait")
  /\ UNCHANGED <<ring, flags, wait, ret, flushed>>

SkipWait(p) ==
  /\ pc[p] = "offered" /\ ~OffererWaits
  /\ Goto(p, "idle")
  /\ UNCHANGED <<ring, kernel, flags, wait, ret, flushed>>

PipeWaitDone(p) ==
  /\ pc[p] = "pipewait"
  /\ Kernel!AwaitReturn(p)
  /\ Goto(p, IF await[p] = "OK" THEN "idle" ELSE "offered")
  /\ UNCHANGED <<ring, flags, wait, ret, flushed>>

-----------------------------------------------------------------------------
(***************************************************************************)
(* xen_shm_pipe_read and xen_shm_pipe_write set ACTIVE; a writer then      *)
(* gives up at once if the reader has closed.                              *)
(***************************************************************************)
Call(p) ==
  /\ pc[p] = "idle" /\ "CLOSED" \notin flags[p]
  /\ p = "writer" => sent < MaxBytes
  /\ SetFlag(p, "ACTIVE")
  /\ ret' = [ret EXCEPT ![p] = "none"]
  /\ Goto(p, IF p = "writer" THEN "precheck" ELSE "test")
  /\ UNCHANGED <<ring, kernel, wait, flushed>>

Precheck(p) ==
  /\ pc[p] = "precheck"
  /\ IF "CLOSED" \in flags[Peer(p)]
     THEN Return(p, "ERR")
     ELSE Goto(p, "test") /\ UNCHANGED ret
  /\ UNCHANGED <<ring, kernel, flags, wait, flushed>>

(* The while condition. *)
Test(p) ==
  /\ pc[p] = "test"
  /\ Goto(p, CASE Blocked(p) -> "load"
               [] ~Blocked(p) /\ unset_wait[p] -> "unset"
               [] ~Blocked(p) /\ ~unset_wait[p] -> "enter")
  /\ UNCHANGED <<ring, kernel, flags, wait, ret, flushed>>

Load(p) ==
  /\ pc[p] = "load"
  /\ peer' = [peer EXCEPT ![p] = flags[Peer(p)]]
  /\ loop_count' = [loop_count EXCEPT ![p] = @ - 1]
  /\ Goto(p, "setwait")
  /\ UNCHANGED <<ring, kernel, flags, active_count, unset_wait, saw_epipe, ret, flushed>>

SetWait(p) ==
  /\ pc[p] = "setwait"
  /\ SetFlag(p, "WAITING")
  /\ unset_wait' = [unset_wait EXCEPT ![p] = TRUE]
  /\ Goto(p, "recheck")
  /\ UNCHANGED <<ring, kernel, peer, counts, saw_epipe, ret, flushed>>

(***************************************************************************)
(* The end of the loop body: what to do about the other, as it was when    *)
(* its flags were loaded.                                                  *)
(***************************************************************************)
DecideNoSignal(p) ==
  LET epipe == saw_epipe[p]
      waiting == peer[p] \cap {"SLEEPING", "WAITING"} # {}
      active == "ACTIVE" \in peer[p] /\ active_count[p] > 0
  IN \/ epipe /\ Return(p, "ERR") /\ UNCHANGED active_count
     \/ ~epipe /\ (waiting \/ active) /\ Goto(p, "test") /\ UNCHANGED <<active_count, ret>>
     \/ ~epipe /\ ~waiting /\ ~active /\ Goto(p, "sleep") /\ UNCHANGED <<active_count, ret>>

Decide(p) ==
  LET epipe == saw_epipe[p]
      asleep == "SLEEPING" \in peer[p]
      waiting == "WAITING" \in peer[p]
      active == "ACTIVE" \in peer[p] /\ active_count[p] > 0
  IN \/ /\ epipe
        /\ Return(p, "ERR") /\ UNCHANGED active_count
     \/ /\ ~epipe /\ asleep
        /\ Goto(p, "kick") /\ UNCHANGED <<active_count, ret>>
     \/ /\ ~epipe /\ ~asleep /\ waiting
        /\ Goto(p, "test") /\ UNCHANGED <<active_count, ret>>
     \/ /\ ~epipe /\ ~asleep /\ ~waiting /\ active
        /\ active_count' = [active_count EXCEPT ![p] = @ - 1]
        /\ Goto(p, "test") /\ UNCHANGED ret
     \/ /\ ~epipe /\ ~asleep /\ ~waiting /\ ~active
        /\ Goto(p, "sleep") /\ UNCHANGED <<active_count, ret>>

(* "Check nothing changed", closed, time to look for EPIPE, or decide. *)
RecheckSkipped(p) ==
  /\ pc[p] = "recheck"
  /\ \/ /\ "CLOSED" \in peer[p]
        /\ Return(p, IF p = "reader" THEN "EOF" ELSE "ERR")
        /\ UNCHANGED active_count
     \/ /\ "CLOSED" \notin peer[p] /\ loop_count[p] = 0
        /\ Goto(p, "prone") /\ UNCHANGED <<active_count, ret>>
     \/ /\ "CLOSED" \notin peer[p] /\ loop_count[p] > 0
        /\ Decide(p)
  /\ UNCHANGED <<ring, kernel, flags, peer, loop_count, unset_wait, saw_epipe, flushed>>

RecheckNoProne(p) ==
  LET closed == "CLOSED" \in peer[p]
  IN /\ pc[p] = "recheck"
     /\ \/ /\ ~Blocked(p)
           /\ Goto(p, "unset") /\ UNCHANGED <<active_count, ret>>
        \/ /\ Blocked(p) /\ closed
           /\ Return(p, IF p = "reader" THEN "EOF" ELSE "ERR")
           /\ UNCHANGED active_count
        \/ /\ Blocked(p) /\ ~closed
           /\ Decide(p)
     /\ loop_count' = [loop_count EXCEPT ![p] = LoopLimit]
     /\ UNCHANGED <<ring, kernel, flags, peer, unset_wait, saw_epipe, flushed>>

Recheck(p) ==
  LET closed == "CLOSED" \in peer[p]
  IN /\ pc[p] = "recheck"
     /\ \/ /\ ~Blocked(p)
           /\ Goto(p, "unset") /\ UNCHANGED <<active_count, ret>>
        \/ /\ Blocked(p) /\ closed
           /\ Return(p, IF p = "reader" THEN "EOF" ELSE "ERR")
           /\ UNCHANGED active_count
        \/ /\ Blocked(p) /\ ~closed /\ loop_count[p] = 0
           /\ Goto(p, "prone") /\ UNCHANGED <<active_count, ret>>
        \/ /\ Blocked(p) /\ ~closed /\ loop_count[p] > 0
           /\ Decide(p)
     /\ UNCHANGED <<ring, kernel, flags, peer, loop_count, unset_wait, saw_epipe, flushed>>

(* __xen_shm_pipe_prone_for_epipe *)
Prone(p) ==
  /\ pc[p] = "prone"
  /\ Kernel!AwaitEnter(p, ProneAwait) /\ Goto(p, "proning")
  /\ UNCHANGED <<ring, flags, wait, ret, flushed>>

ProneDoneNoReset(p) ==
  /\ pc[p] = "proning"
  /\ Kernel!AwaitReturn(p)
  /\ IF await[p] = "EPIPE" THEN Return(p, "ERR") /\ UNCHANGED active_count ELSE Decide(p)
  /\ UNCHANGED <<ring, flags, peer, loop_count, unset_wait, saw_epipe, flushed>>

ProneDone(p) ==
  /\ pc[p] = "proning"
  /\ Kernel!AwaitReturn(p)
  /\ IF await[p] = "EPIPE"
     THEN Return(p, "ERR") /\ UNCHANGED counts
     ELSE /\ loop_count' = [loop_count EXCEPT ![p] = LoopLimit]
          /\ Decide(p)
  /\ UNCHANGED <<ring, flags, peer, unset_wait, saw_epipe, flushed>>

-----------------------------------------------------------------------------
(***************************************************************************)
(* Sleep until a signal, then clear SLEEPING.  A reader that gets EPIPE    *)
(* looks once more for bytes; on another error it takes WAITING out of the *)
(* WRITER's flags, a load and a store of a word that is not its own.       *)
(***************************************************************************)
SetSleep(p) ==
  /\ pc[p] = "sleep"
  /\ SetFlag(p, "SLEEPING") /\ Goto(p, "await")
  /\ UNCHANGED <<ring, kernel, wait, ret, flushed>>

(* __xen_shm_pipe_wait_signal *)
Sleep(p) ==
  /\ pc[p] = "await"
  /\ Kernel!AwaitEnter(p, WaitSignal) /\ Goto(p, "awaiting")
  /\ UNCHANGED <<ring, flags, wait, ret, flushed>>

WakeUp(p) ==
  /\ pc[p] = "awaiting"
  /\ Kernel!AwaitReturn(p)
  /\ ClearFlag(p, "SLEEPING")
  /\ LET epipe == p = "reader" /\ await[p] = "EPIPE"
     IN /\ saw_epipe' = [saw_epipe EXCEPT ![p] = @ \/ epipe]
        /\ Goto(p, IF await[p] = "OK" \/ epipe THEN "test"
                   ELSE IF p = "reader" THEN "scrub" ELSE "giveup")
  /\ UNCHANGED <<ring, peer, counts, unset_wait, ret, flushed>>

ScrubLoad(p) ==
  /\ pc[p] = "scrub"
  /\ peer' = [peer EXCEPT ![p] = flags[Peer(p)]]
  /\ Goto(p, "scrubbed")
  /\ UNCHANGED <<ring, kernel, flags, counts, unset_wait, saw_epipe, ret, flushed>>

ScrubStore(p) ==
  /\ pc[p] = "scrubbed"
  /\ flags' = [flags EXCEPT ![Peer(p)] = peer[p] \ {"WAITING"}]
  /\ Return(p, "ERR")
  /\ UNCHANGED <<ring, kernel, wait, flushed>>

GiveUp(p) ==
  /\ pc[p] = "giveup"
  /\ ClearFlag(p, "WAITING") /\ Return(p, "ERR")
  /\ UNCHANGED <<ring, kernel, wait, flushed>>

UnsetIfPeerWaits(p) ==
  /\ pc[p] = "unset" /\ Goto(p, "enter")
  /\ IF "WAITING" \in peer[p] THEN ClearFlag(p, "WAITING") ELSE UNCHANGED flags
  /\ UNCHANGED <<ring, kernel, wait, ret, flushed>>

Unset(p) ==
  /\ pc[p] = "unset"
  /\ ClearFlag(p, "WAITING") /\ Goto(p, "enter")
  /\ UNCHANGED <<ring, kernel, wait, ret, flushed>>

-----------------------------------------------------------------------------
(***************************************************************************)
(* read_avail and write_avail: the steps of Ring, with the looks at the    *)
(* other's SLEEPING flag.                                                  *)
(***************************************************************************)
PeerSleeps(p) == "SLEEPING" \in flags[Peer(p)]
KickOr(p, kick, l) == Goto(p, IF PeerSleeps(p) THEN kick ELSE l)

EnterAvail(p) ==
  /\ pc[p] = "enter"
  /\ \E n \in Sizes : Ring!Enter(p, n)
  /\ Goto(p, "avail")
  /\ UNCHANGED <<kernel, flags, wait, ret, flushed>>

PlaceCheck(p) ==
  /\ pc[p] = "avail"
  /\ Ring!PlaceCheck(p, IF PeerSleeps(p) THEN FastCheckInterval ELSE CheckInterval)
  /\ UNCHANGED <<kernel, flags, pc, wait, ret, flushed>>

Copy(p) ==
  /\ pc[p] = "avail"
  /\ Ring!CopyByte(p) \/ Ring!Refresh(p)
  /\ UNCHANGED <<kernel, flags, pc, wait, ret, flushed>>

TakeNews(p) ==
  /\ pc[p] = "avail"
  /\ Ring!CopyDone(p)
  /\ IF Ring!CheckDue(p) THEN KickOr(p, "kickcopy", "avail") ELSE UNCHANGED pc
  /\ UNCHANGED <<kernel, flags, wait, ret, flushed>>

Publish(p) ==
  /\ pc[p] = "avail"
  /\ Ring!Publish(p)
  /\ flushed' = [flushed EXCEPT ![p] = FALSE]
  /\ UNCHANGED <<kernel, flags, pc, wait, ret>>

LeaveAvail(p) ==
  /\ pc[p] = "avail"
  /\ Ring!Leave(p)
  /\ ret' = [ret EXCEPT ![p] = "OK"]
  /\ KickOr(p, "kickout", "fin")
  /\ UNCHANGED <<kernel, flags, wait, flushed>>

(* __xen_shm_pipe_send_signal: it fails on a broken pipe, which nobody checks. *)
SendSignal(p) ==
  \/ Kernel!Ssig(p)
  \/ Kernel!BrokenPipe /\ UNCHANGED kernel

Kick(p) ==
  /\ \/ pc[p] = "kick" /\ Goto(p, "test")
     \/ pc[p] = "kickcopy" /\ Goto(p, "avail")
     \/ pc[p] = "kickout" /\ Goto(p, "fin")
  /\ SendSignal(p)
  /\ UNCHANGED <<ring, flags, wait, ret, flushed>>

(* The call returns; its locals are as the next call initialises them. *)
Forget(p) ==
  /\ peer' = [peer EXCEPT ![p] = {}]
  /\ loop_count' = [loop_count EXCEPT ![p] = LoopLimit]
  /\ active_count' = [active_count EXCEPT ![p] = ActiveMax]
  /\ unset_wait' = [unset_wait EXCEPT ![p] = FALSE]

Finish(p) ==
  /\ pc[p] = "fin"
  /\ ClearFlag(p, "ACTIVE") /\ Goto(p, "idle") /\ Forget(p)
  /\ UNCHANGED <<ring, kernel, saw_epipe, ret, flushed>>

-----------------------------------------------------------------------------
(* xen_shm_pipe_flush: refused when the other has closed. *)
Flush(p) ==
  /\ pc[p] = "idle" /\ p \in Flushers
  /\ "CLOSED" \notin flags[Peer(p)]
  /\ Goto(p, "flush")
  /\ UNCHANGED <<ring, kernel, flags, wait, ret, flushed>>

Heard(p) == flushed' = [flushed EXCEPT ![p] = initial_signal[Side(Peer(p))]]

FlushIfSleeping(p) ==
  /\ pc[p] = "flush" /\ Goto(p, "idle")
  /\ IF PeerSleeps(p) THEN SendSignal(p) ELSE UNCHANGED kernel
  /\ Heard(p)
  /\ UNCHANGED <<ring, flags, wait, ret>>

FlushSignal(p) ==
  /\ pc[p] = "flush"
  /\ SendSignal(p) /\ Goto(p, "idle")
  /\ Heard(p)
  /\ UNCHANGED <<ring, flags, wait, ret>>

(* xen_shm_pipe_free, and a process that dies wherever it is. *)
Free(p) ==
  /\ pc[p] = "idle" /\ p \in Closers
  /\ SetFlag(p, "CLOSED") /\ Goto(p, "closing")
  /\ UNCHANGED <<ring, kernel, wait, ret, flushed>>

Crash(p) ==
  /\ p \in Crashers
  /\ pc[p] \notin {"offered", "connect", "opened", "closing", "dying", "gone"}
  /\ Goto(p, "dying") /\ Forget(p)
  /\ UNCHANGED <<ring, kernel, flags, saw_epipe, ret, flushed>>

(* A killed process leaves its wait before its descriptor is closed. *)
Die(p) ==
  /\ pc[p] = "dying"
  /\ Kernel!AwaitInterrupt(p) \/ Kernel!AwaitReturn(p)
  /\ UNCHANGED <<ring, flags, pc, wait, ret, flushed>>

(* close(p->fd), the kernel runs xen_shm_release. *)
CloseFd(p) ==
  /\ pc[p] \in {"closing", "dying"}
  /\ Kernel!ReleaseMark(Side(p)) /\ Goto(p, "gone")
  /\ UNCHANGED <<ring, flags, wait, ret, flushed>>

-----------------------------------------------------------------------------
(* Interrupts and the rest of a release on one side. *)
KernelStep(s) ==
  /\ Kernel!EventHandler(s) \/ Kernel!ReleaseNotify(s) \/ Kernel!ReleaseFree(s)
  /\ UNCHANGED <<ring, flags, pc, wait, ret, flushed>>

(* p inside XEN_SHM_IOCTL_AWAIT. *)
InKernel(p) ==
  /\ Kernel!AwaitCheck(p) \/ Kernel!AwaitTimeout(p) \/ Kernel!AwaitFinish(p)
  /\ UNCHANGED <<ring, flags, pc, wait, ret, flushed>>

Interrupt(p) ==
  /\ p \in Interruptible /\ Kernel!AwaitInterrupt(p)
  /\ UNCHANGED <<ring, flags, pc, wait, ret, flushed>>

(* What a process does by itself once it is inside a call. *)
InCall(p) ==
  \/ Connect(p) \/ Opened(p) \/ PipeWaitDone(p)
  \/ Precheck(p) \/ Test(p) \/ Load(p) \/ SetWait(p) \/ Recheck(p)
  \/ Prone(p) \/ ProneDone(p) \/ SetSleep(p) \/ Sleep(p) \/ WakeUp(p)
  \/ ScrubLoad(p) \/ ScrubStore(p) \/ GiveUp(p) \/ Unset(p)
  \/ EnterAvail(p) \/ PlaceCheck(p) \/ Copy(p) \/ TakeNews(p) \/ Publish(p)
  \/ LeaveAvail(p) \/ Kick(p) \/ Finish(p)
  \/ FlushSignal(p) \/ Die(p) \/ CloseFd(p)

Process(p) ==
  \/ InCall(p) \/ InKernel(p)
  \/ Call(p) \/ PipeWait(p) \/ SkipWait(p) \/ Flush(p) \/ Free(p) \/ Crash(p)

Next ==
  \/ \E s \in Kernel!Sides : KernelStep(s)
  \/ \E p \in Roles : Process(p) \/ Interrupt(p)

Spec == Init /\ [][Next]_vars

(***************************************************************************)
(* A process in a call keeps running, the kernel does its work and the     *)
(* reader comes back for more.  The writer need not write, nobody need     *)
(* flush or close.                                                         *)
(***************************************************************************)
Fairness ==
  /\ \A p \in Roles : WF_vars(InCall(p) \/ InKernel(p))
  /\ \A s \in Kernel!Sides : WF_vars(KernelStep(s))
  /\ WF_vars(Call("reader"))

FairSpec == Spec /\ Fairness

-----------------------------------------------------------------------------
FlagNames == {"OPENED", "CLOSED", "WAITING", "SLEEPING", "ACTIVE"}
Places ==
  {"offered", "connect", "opened", "idle", "pipewait", "precheck", "test",
   "load", "setwait", "recheck", "prone", "proning", "sleep", "await", "awaiting", "scrub", "scrubbed",
   "giveup", "unset", "enter", "avail", "kick", "kickcopy", "kickout", "fin", "flush",
   "closing", "dying", "gone"}

(* The types of what the pipe adds to the ring and the kernel. *)
TypeOK ==
  /\ flags \in [Roles -> SUBSET FlagNames]
  /\ pc \in [Roles -> Places]
  /\ peer \in [Roles -> SUBSET FlagNames]
  /\ loop_count \in [Roles -> 0 .. LoopLimit]
  /\ active_count \in [Roles -> 0 .. ActiveMax]
  /\ unset_wait \in [Roles -> BOOLEAN]
  /\ saw_epipe \in [Roles -> BOOLEAN]
  /\ ret \in [Roles -> {"none", "OK", "EOF", "ERR"}]
  /\ flushed \in [Roles -> BOOLEAN]

(***************************************************************************)
(* The processes move bytes only as the copy loops of XenShmRing do: what  *)
(* the ring guarantees, the pipe guarantees, through connections, sleeps,  *)
(* closings and crashes.                                                   *)
(***************************************************************************)
RingSpec == Ring!Spec

(* p sleeps for a signal and nothing that would wake it is on its way. *)
Asleep(p) ==
  /\ pc[p] = "awaiting" /\ await[p] = "asleep"
  /\ ~pending[Side(p)]
  /\ release[Side(Peer(p))] # "marked"

(* The bytes written and not read. *)
InTransit == (pos["writer"] - pos["reader"] + BufferSize) % BufferSize

Stream == INSTANCE XenShmStream
  WITH Pipes <- {"pipe"}, Capacity <- BufferSize - 1,
       count <- [q \in {"pipe"} |-> InTransit],
       asleep <- [q \in {"pipe"} |-> [p \in Roles |-> Asleep(p)]],
       flushed <- [q \in {"pipe"} |-> flushed],
       greeted <- [q \in {"pipe"} |-> [p \in Roles |-> initial_signal[Side(p)]]]

(***************************************************************************)
(* A pipe is a Stream, from the connection on: no end falls asleep while   *)
(* the other does, or on a stale view once the other has flushed, past the *)
(* end's initial signal (xen_shm_pipe.c:351-394, 445-484, 928-945;         *)
(* xen_shm.c:239-247).  The handlers are checked on Streams.               *)
(***************************************************************************)
StreamSpec == Stream!Spec

(***************************************************************************)
(* "The key idea, of course, is to forbid sleeping when the other process  *)
(* set this flag" (report.tex:167): the two ends are never asleep at the   *)
(* same time with nobody to wake them (xen_shm_pipe.c:351-394, 445-484).   *)
(***************************************************************************)
NoMutualSleep == ~ \A p \in Roles : Asleep(p)

(***************************************************************************)
(* flush "make sure the other process doesn't block before what precedes   *)
(* the flush" (xen_shm_pipe.h:147): after it the other end does not sleep  *)
(* on while there are bytes or room for it, if it had its initial signal   *)
(* by then.  If not, the signal of the flush merges with that one and is   *)
(* no user signal (xen_shm.c:239-247): FlushReaches promises nothing.      *)
(***************************************************************************)
FlushReaches ==
  \A p \in Roles : Asleep(p) /\ flushed[Peer(p)] => Blocked(p)

(***************************************************************************)
(* "read will return end of file as soon as there is no more available     *)
(* data" (report.tex:175), and not before: a reader told EOF has all the   *)
(* bytes of a writer that closed.  The flags are loaded before the         *)
(* position is read again (xen_shm_pipe.c:353-364).                        *)
(***************************************************************************)
EofOnlyWhenDrained ==
  ret["reader"] = "EOF" =>
    pc["writer"] \in {"closing", "dying", "gone"} /\ Len(rcvd) = sent

(***************************************************************************)
(* "Blocks until at least one byte is read or an error occurs"             *)
(* (xen_shm_pipe.h:131, 118): no successful call returns zero, which a     *)
(* reader would take for the end of the file.                              *)
(***************************************************************************)
SuccessMovesBytes == \A p \in Roles : ret[p] = "OK" => cur[p] > 0

(***************************************************************************)
(* WAITING is a flag "that a process sets whenever we starts waiting for   *)
(* data/space, and unsets it at the end" (report.tex:167).                 *)
(***************************************************************************)
WaitingOnlyInside ==
  \A p \in Roles : pc[p] = "idle" => "WAITING" \notin flags[p]

(***************************************************************************)
(* "When it's set [the closed flag] ... read will return end of file"      *)
(* (report.tex:175): a reader whose waits nobody interrupts gets no error  *)
(* from a writer that closed in good order.                                *)
(***************************************************************************)
GracefulCloseIsEof ==
  ret["reader"] = "ERR" => "CLOSED" \notin flags["writer"]

(***************************************************************************)
(* Every write returns while the reader keeps reading: no order of loads,  *)
(* stores, signals and sleeps leaves the writer waiting for room for ever  *)
(* (xen_shm_pipe.c:445-491).                                               *)
(***************************************************************************)
WriteReturns == pc["writer"] = "test" ~> pc["writer"] \in {"idle", "gone"}

(***************************************************************************)
(* What was written before a flush is read, although the writer does       *)
(* nothing more (xen_shm_pipe.h:145-148).                                  *)
(***************************************************************************)
FlushDelivers == flushed["writer"] ~> (Blocked("reader") \/ ~flushed["writer"])

(***************************************************************************)
(* "each process that makes more than a fixed number loop must check if    *)
(* the channel is still open" (report.tex:177): once the other end has     *)
(* closed or died, wherever it died, a process is again and again out of   *)
(* its calls: none of them hangs.                                          *)
(***************************************************************************)
NoHangAfterPeer ==
  []<>(\A p \in Roles : pc[Peer(p)] = "gone" => pc[p] \in {"idle", "gone"})
=============================================================================
